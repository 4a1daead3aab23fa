----------------------- MODULE FFmpegExtractor_proofs -----------------------
(* The ffmpeg extractor for any file, any seeks and any limits of its queues: *)
(* a read that asked for a seek returns a packet of that seek, flush packets  *)
(* separate the seeks, and a reader that has gone has told every source.      *)
EXTENDS FFmpegExtractor, FiniteSetTheorems, TLAPS

Closing == {"closeA", "waitA", "closeV", "waitV", "dead"}   \* the reader has left its loop
Serving == {"seek", "flushA", "flushV", "clear"}            \* ... or serves a seek
\* TypeOK, by the part that an action touches.
ReaderTyped ==
  /\ rpc \in {"start", "loop", "seek", "flushA", "flushV", "clear", "eosV", "eosA",
              "eosTest", "read", "put", "wait"} \cup Closing
  /\ rpkt \in Packets /\ filePos \in Positions /\ fileGen \in 0..MaxSeeks
QueueTyped ==
  /\ queue \in [Tracks -> Seq(Packets)]
  /\ abort_request \subseteq Tracks /\ StreamIdx \subseteq Tracks
SourceTyped ==
  /\ spc \in [Tracks -> {"idle", "seek", "flushA", "flushV", "request", "get", "eos", "return"}]
  /\ seeking \subseteq Tracks /\ waitKeyPkt \subseteq Tracks /\ mNeedStartKey \subseteq Tracks
  /\ mFirstKeyPktTimestamp \in [Tracks -> Positions] /\ pkt \in [Tracks -> Packets]
SeekTyped ==
  /\ want \in [Tracks -> 0..MaxSeeks] /\ reqGen \in 0..MaxSeeks /\ mSeekPos \in Positions
ControlTyped ==
  /\ mExtractorLock \in Tracks \cup {NoOne, "stop"}
  /\ ctl \in [at : {"idle", "lock", "join"}, of : Tracks \cup {"extractor", NoOne}]
  /\ ctl.at # "idle" => ctl.of # NoOne
  /\ stopped \subseteq Tracks \cup {"extractor"}
FlagsTyped ==
  /\ mSeekReq \in BOOLEAN /\ mEOF2 \in BOOLEAN /\ mAbortRequest \in BOOLEAN
  /\ EOSReceived \in [Tracks -> BOOLEAN]
  /\ overlap \in BOOLEAN /\ lost \in BOOLEAN /\ failed \in BOOLEAN
Typed == ReaderTyped /\ QueueTyped /\ SourceTyped /\ SeekTyped /\ ControlTyped /\ FlagsTyped

\* What is said of a queue.
NoFlush(q) == \A i \in 1..Len(q) : q[i].kind # "flush"
FlushesOf(q, g) == \A i \in 1..Len(q) : q[i].kind = "flush" => q[i].gen = g
DataOf(q, g) == \A i \in 1..Len(q) : q[i].kind = "data" => q[i].gen = g
Separate(q) ==
  \A i, j \in 1..Len(q) : i < j /\ q[i].kind = "flush" /\ q[j].kind = "data" => q[j].gen = q[i].gen

\* The seeks that were asked for and those about to be are within the bound.
Seekers == {t \in Tracks : spc[t] \in SeekPlaces}
Budget == reqGen + Cardinality(Seekers) <= MaxSeeks

\* A track is forgotten by the reader that leaves, after its queue was aborted.
Told ==
  /\ abort_request # {} \/ StreamIdx # Tracks => rpc \in Closing
  /\ \A t \in Tracks \ StreamIdx : t \in abort_request /\ queue[t] = << >>
  /\ "audio" \in Tracks /\ rpc \in {"waitA", "closeV", "waitV", "dead"} => "audio" \in abort_request
  /\ "video" \in Tracks /\ rpc \in {"waitV", "dead"} => "video" \in abort_request

\* The flush packets in a queue are of the seek that set the file's position,
\* but for a seek whose flush packet is still to come.
PlaceOf(t) == IF t = "audio" THEN {"flushA"} ELSE {"flushA", "flushV"}
FlushGen ==
  /\ \A t \in Tracks : rpc \notin PlaceOf(t) => FlushesOf(queue[t], fileGen)
  /\ rpc = "put" => rpkt.kind = "data" /\ rpkt.gen = fileGen

-----------------------------------------------------------------------------
(* Seeks.                                                                    *)
Asks(s) == spc[s] \in {"flushA", "flushV", "request"}

\* stream_seek runs under mExtractorLock.
Locked ==
  /\ \A s \in Tracks : Asks(s) => mExtractorLock = s /\ want[s] = reqGen + 1
  /\ ctl.at = "join" => mExtractorLock = "stop"
Wanted ==
  /\ \A s \in Tracks : want[s] # 0 => spc[s] \notin {"idle", "seek"}
  /\ ~overlap => \A s, t \in Tracks : want[s] # 0 /\ want[t] # 0 => s = t
  /\ ~overlap => \A s \in Tracks : want[s] # 0 /\ ~Asks(s) => want[s] = reqGen

\* Only one source seeks at a time, and the file can be read and sought.
Calm == ~overlap /\ ~failed

\* The reader has put s's flush packet, but has not cleared the request.
Served(s) == rpc = "clear" \/ (s = "audio" /\ rpc = "flushV")
\* A request that is not cleared is that of a read which has not returned: its
\* queue holds no flush packet until the reader has put the one of this request,
\* and nothing behind it.
Waits(s) ==
  /\ spc[s] = "get" /\ want[s] = reqGen /\ want[s] # 0
  /\ \/ s \in seeking /\ NoFlush(queue[s])
     \/ Served(s) /\ s \in seeking /\ queue[s] = <<FlushPkt(reqGen)>>
     \/ Served(s) /\ s \notin seeking /\ queue[s] = << >>
Unserved ==
  /\ rpc \in Serving => mSeekReq
  /\ Calm /\ mSeekReq /\ rpc \notin Closing => \E s \in Tracks : Waits(s)
FileIsThere == Calm /\ rpc \in {"flushA", "flushV", "clear"} => fileGen = reqGen

\* Between stream_seek's flushes and its request no old flush packet comes.
Emptied ==
  Calm => \A s, t \in Tracks :
            spc[s] = "request" \/ (spc[s] = "flushV" /\ t = "audio") => NoFlush(queue[t])
\* What a seeking read will take as its flush packet is that of its seek, and
\* what comes after it is of its seek too.
Honours ==
  Calm => \A s \in Tracks : want[s] # 0 /\ spc[s] = "get" =>
            IF s \in seeking THEN FlushesOf(queue[s], reqGen)
                            ELSE fileGen = reqGen /\ DataOf(queue[s], reqGen)
Returned == Calm => \A s \in Tracks : spc[s] = "return" => pkt[s].gen >= want[s]

QueueInv == Told /\ FlushGen /\ (\A t \in Tracks : Separate(queue[t]))
SeekInv == /\ Locked /\ Wanted /\ Unserved /\ FileIsThere /\ Emptied /\ Honours /\ Returned
           /\ (lost => overlap)
IInv == Typed /\ QueueInv /\ Budget /\ SeekInv
-----------------------------------------------------------------------------
\* The packets the reader makes, and the places they come from, are of their types.
LEMMA PacketTypes ==
  /\ \A g \in 0..MaxSeeks : FlushPkt(g) \in Packets
  /\ EosPkt \in Packets
  /\ \A p \in Positions, g \in 0..MaxSeeks : DataPkt(p, g) \in Packets
  /\ \A p \in Packets : p.pos \in Positions /\ p.gen \in 0..MaxSeeks
  /\ 0 \in Positions
  /\ \A p \in Positions : p \in Nat /\ (p <= Len(File) => p + 1 \in Positions)
  /\ SeekTargets \subseteq Positions
  /\ Len(File) \in Nat
BY ExtractorAssumption DEF FlushPkt, EosPkt, DataPkt, Packets, Positions

\* A packet has the kind and the seek it was made with.
LEMMA PacketKinds ==
  /\ \A g : FlushPkt(g).kind = "flush" /\ FlushPkt(g).gen = g
  /\ EosPkt.kind = "eos"
  /\ \A p, g : DataPkt(p, g).kind = "data" /\ DataPkt(p, g).gen = g
BY DEF FlushPkt, EosPkt, DataPkt

\* A packet put at the end of a queue.
LEMMA PutAtEnd ==
  ASSUME NEW q \in Seq(Packets), NEW p \in Packets
  PROVE  /\ Append(q, p) \in Seq(Packets)
         /\ NoFlush(q) /\ p.kind # "flush" => NoFlush(Append(q, p))
         /\ \A g : FlushesOf(q, g) /\ (p.kind = "flush" => p.gen = g) => FlushesOf(Append(q, p), g)
         /\ \A g : DataOf(q, g) /\ (p.kind = "data" => p.gen = g) => DataOf(Append(q, p), g)
         /\ Separate(q) /\ (p.kind = "data" => FlushesOf(q, p.gen)) => Separate(Append(q, p))
<1>1. /\ Append(q, p) \in Seq(Packets) /\ Len(q) \in Nat /\ Len(Append(q, p)) = Len(q) + 1
      /\ \A i \in 1..Len(q) : Append(q, p)[i] = q[i]
      /\ Append(q, p)[Len(q) + 1] = p
      /\ \A i \in 1..Len(q) + 1 : i \in 1..Len(q) \/ i = Len(q) + 1
  OBVIOUS
<1> DEFINE a == Append(q, p)
<1> HIDE DEF a
<1>2. /\ a \in Seq(Packets) /\ Len(a) = Len(q) + 1 /\ a[Len(q) + 1] = p
      /\ \A i \in 1..Len(q) : a[i] = q[i]
  BY <1>1 DEF a
<1>3. NoFlush(q) /\ p.kind # "flush" => NoFlush(a)
  BY <1>1, <1>2 DEF NoFlush
<1>4. \A g : FlushesOf(q, g) /\ (p.kind = "flush" => p.gen = g) => FlushesOf(a, g)
  BY <1>1, <1>2 DEF FlushesOf
<1>5. \A g : DataOf(q, g) /\ (p.kind = "data" => p.gen = g) => DataOf(a, g)
  BY <1>1, <1>2 DEF DataOf
<1>6. Separate(q) /\ (p.kind = "data" => FlushesOf(q, p.gen)) => Separate(a)
  BY <1>1, <1>2 DEF Separate, FlushesOf
<1>7. QED
  BY <1>2, <1>3, <1>4, <1>5, <1>6 DEF a

\* The packet taken from the front of a queue.
LEMMA TakenFromFront ==
  ASSUME NEW q \in Seq(Packets), q # << >>
  PROVE  /\ Head(q) \in Packets /\ Tail(q) \in Seq(Packets)
         /\ NoFlush(q) => NoFlush(Tail(q)) /\ Head(q).kind # "flush"
         /\ \A g : FlushesOf(q, g) => /\ FlushesOf(Tail(q), g)
                                      /\ Head(q).kind = "flush" => Head(q).gen = g
         /\ \A g : DataOf(q, g) => /\ DataOf(Tail(q), g)
                                   /\ Head(q).kind = "data" => Head(q).gen = g
         /\ Separate(q) => /\ Separate(Tail(q))
                           /\ Head(q).kind = "flush" => DataOf(Tail(q), Head(q).gen)
<1>1. /\ Head(q) \in Packets /\ Tail(q) \in Seq(Packets) /\ Len(q) \in Nat \ {0}
      /\ Len(Tail(q)) = Len(q) - 1 /\ Head(q) = q[1]
      /\ \A i \in 1..Len(q) - 1 : Tail(q)[i] = q[i + 1]
      /\ \A i \in 1..Len(q) - 1 : i + 1 \in 1..Len(q)
      /\ 1 \in 1..Len(q)
  OBVIOUS
<1> DEFINE r == Tail(q)
           h == Head(q)
<1> HIDE DEF r, h
<1>2. /\ r \in Seq(Packets) /\ h \in Packets /\ Len(r) = Len(q) - 1 /\ h = q[1]
      /\ \A i \in 1..Len(r) : r[i] = q[i + 1] /\ i + 1 \in 1..Len(q)
  BY <1>1 DEF r, h
<1>3. NoFlush(q) => NoFlush(r) /\ h.kind # "flush"
  BY <1>1, <1>2 DEF NoFlush
<1>4. \A g : FlushesOf(q, g) => FlushesOf(r, g) /\ (h.kind = "flush" => h.gen = g)
  BY <1>1, <1>2 DEF FlushesOf
<1>5. \A g : DataOf(q, g) => DataOf(r, g) /\ (h.kind = "data" => h.gen = g)
  BY <1>1, <1>2 DEF DataOf
<1>6. Separate(q) => Separate(r) /\ (h.kind = "flush" => DataOf(r, h.gen))
  BY <1>1, <1>2 DEF Separate, DataOf
<1>7. QED
  BY <1>2, <1>3, <1>4, <1>5, <1>6 DEF r, h

\* A queue that was emptied, and one that was marked with a flush packet.
LEMMA FreshQueues ==
  /\ NoFlush(<< >>) /\ Separate(<< >>)
  /\ \A g : FlushesOf(<< >>, g) /\ DataOf(<< >>, g)
  /\ \A g : Separate(<<FlushPkt(g)>>) /\ FlushesOf(<<FlushPkt(g)>>, g)
  /\ \A g, h : DataOf(<<FlushPkt(g)>>, h)
  /\ \A g : /\ Tail(<<FlushPkt(g)>>) = << >> /\ Head(<<FlushPkt(g)>>) = FlushPkt(g)
            /\ <<FlushPkt(g)>> # << >> /\ Append(<< >>, FlushPkt(g)) = <<FlushPkt(g)>>
<1>1. /\ NoFlush(<< >>) /\ Separate(<< >>)
      /\ \A g : FlushesOf(<< >>, g) /\ DataOf(<< >>, g)
  BY DEF NoFlush, Separate, FlushesOf, DataOf
<1>2. \A g : Separate(<<FlushPkt(g)>>) /\ FlushesOf(<<FlushPkt(g)>>, g)
  BY DEF Separate, FlushesOf, FlushPkt
<1>3. \A g, h : DataOf(<<FlushPkt(g)>>, h)
  BY DEF DataOf, FlushPkt
<1>4. \A g : /\ Tail(<<FlushPkt(g)>>) = << >> /\ Head(<<FlushPkt(g)>>) = FlushPkt(g)
             /\ <<FlushPkt(g)>> # << >> /\ Append(<< >>, FlushPkt(g)) = <<FlushPkt(g)>>
  OBVIOUS
<1>5. QED
  BY <1>1, <1>2, <1>3, <1>4

\* packet_queue_flush and packet_queue_put of a flush packet: the queue is that packet alone.
LEMMA ReaderFlushQueue ==
  ASSUME QueueTyped, NEW at, NEW u, NEW next, ReaderFlush(at, u, next), fileGen \in 0..MaxSeeks
  PROVE  /\ queue' \in [Tracks -> Seq(Packets)]
         /\ \A t \in Tracks : queue'[t] = IF t = u /\ t \in StreamIdx THEN <<FlushPkt(fileGen)>>
                                                                      ELSE queue[t]
BY PacketTypes, FreshQueues DEF ReaderFlush, Put, Flushed, QueueTyped

\* An end-of-stream packet is put behind what a queue holds, or the queue is left alone.
LEMMA ReaderEosQueue ==
  ASSUME QueueTyped, NEW at, NEW u, NEW next, ReaderPutsEos(at, u, next)
  PROVE  /\ queue' \in [Tracks -> Seq(Packets)]
         /\ \A t \in Tracks : \/ queue'[t] = queue[t]
                              \/ queue'[t] = Append(queue[t], EosPkt) /\ t \in StreamIdx
BY PacketTypes DEF ReaderPutsEos, Put, QueueTyped

\* A packet that was read goes behind those of its track, or is freed.
LEMMA ReaderPutsQueue ==
  ASSUME QueueTyped, ReaderTyped, ReaderPuts
  PROVE  /\ queue' \in [Tracks -> Seq(Packets)]
         /\ \A t \in Tracks : \/ queue'[t] = queue[t]
                              \/ queue'[t] = Append(queue[t], rpkt) /\ t \in StreamIdx
<1> DEFINE u == File[rpkt.pos]
<1>1. queue' = Put(queue, u, rpkt)
  BY DEF ReaderPuts
<1> HIDE DEF u
<1>2. QED
  BY <1>1 DEF Put, QueueTyped, ReaderTyped

\* stream_component_close empties the queue of its track.
LEMMA CloseQueue ==
  ASSUME QueueTyped, NEW at, NEW u, NEW next, StreamComponentClose(at, u, next)
  PROVE  /\ queue' \in [Tracks -> Seq(Packets)]
         /\ \A t \in Tracks : queue'[t] = IF t = u THEN << >> ELSE queue[t]
<1>1. queue' = [t \in Tracks |-> IF t = u THEN << >> ELSE queue[t]]
  BY DEF StreamComponentClose, QueueTyped
<1>2. \A t \in Tracks : queue[t] \in Seq(Packets) /\ << >> \in Seq(Packets)
  BY DEF QueueTyped
<1>3. QED
  BY <1>1, <1>2

\* stream_seek empties the queue of a track that is open.
LEMMA SeekFlushQueue ==
  ASSUME QueueTyped, NEW s \in Tracks, NEW at, NEW u, NEW next, StreamSeekFlush(s, at, u, next)
  PROVE  /\ queue' \in [Tracks -> Seq(Packets)]
         /\ \A t \in Tracks : queue'[t] = IF t = u /\ t \in StreamIdx THEN << >> ELSE queue[t]
BY DEF StreamSeekFlush, Flushed, QueueTyped

\* The outcomes of packet_queue_get and the tests behind it.
LEMMA GetOutcome ==
  ASSUME Typed, NEW s \in Tracks, PacketQueueGet(s)
  PROVE  LET p == Head(queue[s]) IN
         \/ /\ s \in abort_request /\ spc' = [spc EXCEPT ![s] = "eos"]
            /\ UNCHANGED <<queue, seeking, pkt>>
         \/ /\ queue[s] # << >> /\ queue' = [queue EXCEPT ![s] = Tail(@)]
            /\ seeking' = IF p.kind = "flush" THEN seeking \ {s} ELSE seeking
            /\ \/ /\ spc' = [spc EXCEPT ![s] = "eos"] /\ p.kind = "eos" /\ s \notin seeking
                  /\ pkt' = pkt
               \/ /\ spc' = [spc EXCEPT ![s] = "return"] /\ p.kind = "data" /\ s \notin seeking
                  /\ pkt' = [pkt EXCEPT ![s] = p]
               \/ spc' = spc /\ pkt' = pkt
<1>1. CASE s \in abort_request
  BY <1>1 DEF PacketQueueGet, SourceGoes
<1>2. CASE s \notin abort_request
  <2> DEFINE p == Head(queue[s])
             dropped == DroppedBySeek(s, p)
             ended == p.kind = "eos" /\ ~dropped
             unkeyed == s \in waitKeyPkt /\ s = "video" /\ p.pos \notin Keys
             first == IF mFirstKeyPktTimestamp[s] = 0 THEN p.pos ELSE mFirstKeyPktTimestamp[s]
             usable == p.kind = "data" /\ ~dropped /\ ~unkeyed
  <2>1. /\ queue[s] # << >> /\ queue' = [queue EXCEPT ![s] = Tail(@)]
        /\ seeking' = IF p.kind = "flush" THEN seeking \ {s} ELSE seeking
        /\ spc' = [spc EXCEPT ![s] = CASE ended -> "eos" [] usable /\ p.pos >= first -> "return"
                                       [] OTHER -> "get"]
        /\ pkt' = [pkt EXCEPT ![s] = IF usable /\ p.pos >= first THEN p ELSE @]
        /\ spc[s] = "get"
    BY <1>2 DEF PacketQueueGet, SourceGoes
  <2>2. spc = [t \in Tracks |-> spc[t]] /\ pkt = [t \in Tracks |-> pkt[t]]
    BY DEF Typed, SourceTyped
  <2>3. CASE ended
    BY <2>1, <2>2, <2>3 DEF DroppedBySeek
  <2>4. CASE usable /\ p.pos >= first
    <3>1. pkt' = [pkt EXCEPT ![s] = p] /\ spc' = [spc EXCEPT ![s] = "return"]
      BY <2>1, <2>4
    <3>2. QED
      BY <2>1, <2>2, <2>4, <3>1 DEF DroppedBySeek
  <2>5. CASE ~ended /\ ~(usable /\ p.pos >= first)
    <3>1. pkt' = pkt /\ spc' = spc
      BY <2>1, <2>2, <2>5
    <3>2. QED
      BY <2>1, <3>1
  <2>6. QED
    BY <2>3, <2>4, <2>5
<1>3. QED
  BY <1>1, <1>2

\* What packet_queue_get returns, and what read makes of it, is of its type.
LEMMA GetTyped ==
  ASSUME Typed, NEW s \in Tracks, PacketQueueGet(s)
  PROVE  QueueTyped' /\ SourceTyped'
<1>1. queue[s] # << >> => Head(queue[s]) \in Packets /\ Tail(queue[s]) \in Seq(Packets)
  BY DEF Typed, QueueTyped
<1>2. QueueTyped'
  <2>1. queue' = queue \/ (queue[s] # << >> /\ queue' = [queue EXCEPT ![s] = Tail(@)])
    BY GetOutcome
  <2>2. UNCHANGED <<abort_request, StreamIdx>>
    BY DEF PacketQueueGet
  <2>3. QED
    BY <1>1, <2>1, <2>2 DEF Typed, QueueTyped
<1>3. spc' \in [Tracks -> {"idle", "seek", "flushA", "flushV", "request", "get", "eos", "return"}]
  BY GetOutcome DEF Typed, SourceTyped
<1>4. seeking' \subseteq Tracks /\ pkt' \in [Tracks -> Packets]
  BY GetOutcome, <1>1 DEF Typed, SourceTyped
<1>5. waitKeyPkt' \subseteq Tracks /\ mNeedStartKey' \subseteq Tracks
  BY DEF PacketQueueGet, Typed, SourceTyped
<1>6. mFirstKeyPktTimestamp' \in [Tracks -> Positions]
  <2>1. mFirstKeyPktTimestamp[s] \in Positions
    BY DEF Typed, SourceTyped
  <2>2. \/ mFirstKeyPktTimestamp' = mFirstKeyPktTimestamp
        \/ \E v : mFirstKeyPktTimestamp' = [mFirstKeyPktTimestamp EXCEPT ![s] = v]
                  /\ v \in {0, mFirstKeyPktTimestamp[s], Head(queue[s]).pos} /\ queue[s] # << >>
    BY DEF PacketQueueGet
  <2>3. QED
    BY <1>1, <2>1, <2>2, PacketTypes DEF Typed, SourceTyped
<1>7. QED
  BY <1>2, <1>3, <1>4, <1>5, <1>6 DEF SourceTyped

\* A step that brings no flush packet: it keeps, puts or takes one, or empties.
NoFlushComes ==
  \A t \in Tracks :
    /\ NoFlush(queue[t]) => NoFlush(queue'[t])
    /\ \A g : FlushesOf(queue[t], g) => FlushesOf(queue'[t], g)
    /\ DataOf(queue[t], fileGen) => DataOf(queue'[t], fileGen)
    /\ Separate(queue[t]) => Separate(queue'[t])
    /\ t \notin StreamIdx /\ queue[t] = << >> => queue'[t] = << >>

\* No flush packet comes when the end of the stream is put ...
LEMMA EosComes ==
  ASSUME QueueTyped, NEW at, NEW u, NEW next, ReaderPutsEos(at, u, next)
  PROVE  NoFlushComes
<1> SUFFICES ASSUME NEW t \in Tracks
             PROVE  /\ NoFlush(queue[t]) => NoFlush(queue'[t])
                    /\ \A g : FlushesOf(queue[t], g) => FlushesOf(queue'[t], g)
                    /\ DataOf(queue[t], fileGen) => DataOf(queue'[t], fileGen)
                    /\ Separate(queue[t]) => Separate(queue'[t])
                    /\ t \notin StreamIdx /\ queue[t] = << >> => queue'[t] = << >>
  BY DEF NoFlushComes
<1>1. \/ queue'[t] = queue[t]
      \/ queue'[t] = Append(queue[t], EosPkt) /\ t \in StreamIdx
  BY ReaderEosQueue
<1>2. queue[t] \in Seq(Packets) /\ EosPkt \in Packets /\ EosPkt.kind = "eos"
  BY PacketTypes, PacketKinds DEF QueueTyped
<1>3. QED
  BY <1>1, <1>2, PutAtEnd

\* ... nor when a packet is put that was read ...
LEMMA DataComes ==
  ASSUME QueueTyped, ReaderTyped, FlushGen, ReaderPuts
  PROVE  NoFlushComes
<1> SUFFICES ASSUME NEW t \in Tracks
             PROVE  /\ NoFlush(queue[t]) => NoFlush(queue'[t])
                    /\ \A g : FlushesOf(queue[t], g) => FlushesOf(queue'[t], g)
                    /\ DataOf(queue[t], fileGen) => DataOf(queue'[t], fileGen)
                    /\ Separate(queue[t]) => Separate(queue'[t])
                    /\ t \notin StreamIdx /\ queue[t] = << >> => queue'[t] = << >>
  BY DEF NoFlushComes
<1>1. \/ queue'[t] = queue[t]
      \/ queue'[t] = Append(queue[t], rpkt) /\ t \in StreamIdx
  BY ReaderPutsQueue
<1>2. queue[t] \in Seq(Packets) /\ rpkt \in Packets /\ rpkt.kind = "data" /\ rpkt.gen = fileGen
  BY DEF QueueTyped, ReaderTyped, FlushGen, ReaderPuts
<1>3. FlushesOf(queue[t], fileGen)
  BY DEF FlushGen, ReaderPuts, PlaceOf
<1>4. QED
  BY <1>1, <1>2, <1>3, PutAtEnd

\* ... nor when a queue is closed ...
LEMMA QueueEnds ==
  ASSUME QueueTyped, NEW at, NEW u, NEW next, StreamComponentClose(at, u, next)
  PROVE  NoFlushComes
BY CloseQueue, FreshQueues DEF NoFlushComes

\* ... nor when stream_seek empties it ...
LEMMA QueueEmptied ==
  ASSUME QueueTyped, NEW s \in Tracks, NEW at, NEW u, NEW next, StreamSeekFlush(s, at, u, next)
  PROVE  NoFlushComes
BY SeekFlushQueue, FreshQueues DEF NoFlushComes

\* ... nor when a source takes a packet, which leaves the other queue alone.
LEMMA PacketGoes ==
  ASSUME Typed, NEW s \in Tracks, PacketQueueGet(s)
  PROVE  NoFlushComes /\ \A t \in Tracks \ {s} : queue'[t] = queue[t]
<1>1. \/ queue' = queue
      \/ queue[s] # << >> /\ queue' = [queue EXCEPT ![s] = Tail(@)]
  BY GetOutcome
<1>2. queue \in [Tracks -> Seq(Packets)]
  BY DEF Typed, QueueTyped
<1>3. CASE queue' = queue
  BY <1>3 DEF NoFlushComes
<1>4. CASE queue[s] # << >> /\ queue' = [queue EXCEPT ![s] = Tail(@)]
  <2>1. queue'[s] = Tail(queue[s]) /\ queue[s] \in Seq(Packets)
        /\ \A t \in Tracks \ {s} : queue'[t] = queue[t]
    BY <1>2, <1>4
  <2>2. /\ NoFlush(queue[s]) => NoFlush(queue'[s])
        /\ \A g : FlushesOf(queue[s], g) => FlushesOf(queue'[s], g)
        /\ DataOf(queue[s], fileGen) => DataOf(queue'[s], fileGen)
        /\ Separate(queue[s]) => Separate(queue'[s])
    BY <1>4, <2>1, TakenFromFront
  <2>3. QED
    BY <1>4, <2>1, <2>2 DEF NoFlushComes
<1>5. QED
  BY <1>1, <1>3, <1>4

-----------------------------------------------------------------------------
(* The types, the queues and the seeks, by what a step leaves alone.          *)

\* One source at a time asks: nobody is in stream_seek while a request waits.
LEMMA NobodyAsks ==
  ASSUME SeekTyped, SeekInv, Calm, mSeekReq, rpc \notin Closing, NEW s \in Tracks
  PROVE  ~Asks(s)
BY DEF SeekTyped, SeekInv, Unserved, Waits, Calm, Wanted, Locked, Asks

\* A step of the reader that serves no seek, or starts to serve one.
LEMMA ReaderFrame ==
  ASSUME IInv, NoFlushComes, rpc \notin Serving, rpc' \notin Serving \ {"seek"},
         rpc' = "seek" => mSeekReq, rpc \in Closing => rpc' \in Closing,
         UNCHANGED <<fileGen, svars, mSeekReq, reqGen, overlap, lost, mExtractorLock, ctl>>,
         failed => failed'
  PROVE  SeekInv'
<1>1. SeekInv /\ QueueTyped
  BY DEF IInv, Typed
<1>2. Calm' => Calm
  BY DEF Calm
<1>3. (Locked /\ Wanted /\ Returned /\ (lost => overlap))'
  BY <1>1, <1>2 DEF SeekInv, Locked, Wanted, Asks, Returned, svars
<1>4. Unserved' /\ FileIsThere'
  BY <1>1, <1>2 DEF SeekInv, Unserved, Waits, Served, FileIsThere, Serving, NoFlushComes, svars
<1>5. Emptied'
  BY <1>1, <1>2 DEF SeekInv, Emptied, NoFlushComes, svars
<1>6. Honours'
  BY <1>1, <1>2 DEF SeekInv, Honours, NoFlushComes, svars
<1>7. QED
  BY <1>3, <1>4, <1>5, <1>6 DEF SeekInv

\* A step that leaves the seeks, the reader and the queues alone.
LEMMA SeekUntouched ==
  ASSUME IInv, UNCHANGED <<rpc, fileGen, queue, svars, mSeekReq, reqGen, overlap, lost, failed>>,
         Locked'
  PROVE  SeekInv'
BY DEF IInv, SeekInv, Wanted, Unserved, Waits, Served, FileIsThere, Emptied, Honours, Returned,
       Calm, Asks, svars

\* A step of the reader that leaves a queue's packets or brings no flush packet.
LEMMA QueueFrame ==
  ASSUME QueueInv, NoFlushComes, UNCHANGED fileGen, Told',
         rpc' = rpc \/ rpc \notin {"flushA", "flushV"},
         rpc' = "put" => rpkt'.kind = "data" /\ rpkt'.gen = fileGen
  PROVE  QueueInv'
BY DEF QueueInv, FlushGen, PlaceOf, NoFlushComes

\* A step of a source.
LEMMA SourceFrame ==
  ASSUME QueueInv, NoFlushComes, UNCHANGED rvars, Told'
  PROVE  QueueInv'
<1>1. rpc' = rpc /\ rpkt' = rpkt /\ fileGen' = fileGen
  BY DEF rvars
<1>2. QED
  BY <1>1 DEF QueueInv, FlushGen, PlaceOf, NoFlushComes

\* A step that leaves the queues alone brings no flush packet.
LEMMA NothingComes ==
  ASSUME UNCHANGED queue
  PROVE  NoFlushComes
BY DEF NoFlushComes

\* A step without a read or a request leaves the bound of the seeks alone.
LEMMA BudgetKept ==
  ASSUME Budget, UNCHANGED <<spc, reqGen>>
  PROVE  Budget'
BY DEF Budget, Seekers

-----------------------------------------------------------------------------
(* The reader.                                                              *)

\* The reader starts to read.
LEMMA Starts ==
  ASSUME IInv, ReaderStarts
  PROVE  IInv'
<1>1. Typed /\ QueueInv /\ Budget /\ SeekInv
  BY DEF IInv
<1>2. Typed'
  <2>1. ReaderTyped'
    BY <1>1
       DEF ReaderStarts, ReaderGoes, ReaderOnly, NotSeeking, rvars, Typed, ReaderTyped,
           Closing
  <2>2. ControlTyped'
    BY <1>1 DEF ReaderStarts, ReaderGoes, ReaderOnly, NotSeeking, Typed, ControlTyped
  <2>3. FlagsTyped'
    BY <1>1
       DEF ReaderStarts, ReaderGoes, ReaderOnly, NotSeeking, Typed, FlagsTyped, seekvars
  <2>4. (QueueTyped /\ SourceTyped /\ SeekTyped)'
    BY <1>1
       DEF ReaderStarts, ReaderGoes, ReaderOnly, NotSeeking, Typed, QueueTyped,
           SourceTyped, SeekTyped, svars, seekvars, rvars, qvars
  <2>5. QED
    BY <2>1, <2>2, <2>3, <2>4 DEF Typed
<1>3. QueueInv'
  <2>1. NoFlushComes
    BY NothingComes DEF ReaderStarts, ReaderGoes, ReaderOnly, NotSeeking, qvars
  <2>2. Told'
    BY <1>1, <2>1
       DEF ReaderStarts, ReaderGoes, ReaderOnly, NotSeeking, Typed, QueueTyped, QueueInv,
           Told, NoFlushComes, Closing, qvars
  <2>3. QED
    BY <1>1, <2>1, <2>2, QueueFrame DEF ReaderStarts, ReaderGoes, ReaderOnly, NotSeeking
<1>4. Budget'
  BY <1>1, BudgetKept DEF ReaderStarts, ReaderGoes, ReaderOnly, NotSeeking, svars, seekvars
<1>5. SeekInv'
  <2>1. NoFlushComes
    BY NothingComes DEF ReaderStarts, ReaderGoes, ReaderOnly, NotSeeking, qvars
  <2>2. QED
    BY <1>1, <2>1, ReaderFrame
       DEF ReaderStarts, ReaderGoes, ReaderOnly, NotSeeking, SeekInv, Unserved, Serving,
           Closing, seekvars
<1>6. QED
  BY <1>2, <1>3, <1>4, <1>5 DEF IInv

\* The top of the loop serves a seek only when one is asked for.
LEMMA Loop ==
  ASSUME IInv, ReaderLoop
  PROVE  IInv'
<1>1. Typed /\ QueueInv /\ Budget /\ SeekInv
  BY DEF IInv
<1>2. Typed'
  <2>1. ReaderTyped'
    BY <1>1
       DEF ReaderLoop, ReaderGoes, ReaderOnly, NotSeeking, rvars, Typed, ReaderTyped,
           Closing
  <2>2. ControlTyped'
    BY <1>1 DEF ReaderLoop, ReaderGoes, ReaderOnly, NotSeeking, Typed, ControlTyped
  <2>3. FlagsTyped'
    BY <1>1 DEF ReaderLoop, ReaderGoes, ReaderOnly, NotSeeking, Typed, FlagsTyped, seekvars
  <2>4. (QueueTyped /\ SourceTyped /\ SeekTyped)'
    BY <1>1
       DEF ReaderLoop, ReaderGoes, ReaderOnly, NotSeeking, Typed, QueueTyped, SourceTyped,
           SeekTyped, svars, seekvars, rvars, qvars
  <2>5. QED
    BY <2>1, <2>2, <2>3, <2>4 DEF Typed
<1>3. QueueInv'
  <2>1. NoFlushComes
    BY NothingComes DEF ReaderLoop, ReaderGoes, ReaderOnly, NotSeeking, qvars
  <2>2. Told'
    BY <1>1, <2>1
       DEF ReaderLoop, ReaderGoes, ReaderOnly, NotSeeking, Typed, QueueTyped, QueueInv,
           Told, NoFlushComes, Closing, qvars
  <2>3. QED
    BY <1>1, <2>1, <2>2, QueueFrame DEF ReaderLoop, ReaderGoes, ReaderOnly, NotSeeking
<1>4. Budget'
  BY <1>1, BudgetKept DEF ReaderLoop, ReaderGoes, ReaderOnly, NotSeeking, svars, seekvars
<1>5. SeekInv'
  <2>1. NoFlushComes
    BY NothingComes DEF ReaderLoop, ReaderGoes, ReaderOnly, NotSeeking, qvars
  <2>2. QED
    BY <1>1, <2>1, ReaderFrame
       DEF ReaderLoop, ReaderGoes, ReaderOnly, NotSeeking, SeekInv, Unserved, Serving,
           Closing, seekvars
<1>6. QED
  BY <1>2, <1>3, <1>4, <1>5 DEF IInv

\* The file goes to the place of the last request, which is the one being
\* served while one source asks at a time.
LEMMA FileSeeks ==
  ASSUME IInv, AvformatSeekFile
  PROVE  IInv'
<1>1. Typed /\ QueueInv /\ Budget /\ SeekInv
  BY DEF IInv
<1>2. Typed'
  <2>1. ReaderTyped'
    BY <1>1
       DEF AvformatSeekFile, ReaderGoes, ReaderOnly, NotSeeking, SeekTyped, Typed,
           ReaderTyped, Closing
  <2>2. (QueueTyped /\ SourceTyped /\ SeekTyped)'
    BY <1>1
       DEF AvformatSeekFile, ReaderGoes, ReaderOnly, NotSeeking, qvars, svars, seekvars,
           Typed, QueueTyped, SourceTyped, SeekTyped
  <2>3. ControlTyped'
    BY <1>1
       DEF AvformatSeekFile, ReaderGoes, ReaderOnly, NotSeeking, seekvars, Typed,
           ControlTyped
  <2>4. FlagsTyped'
    BY <1>1
       DEF AvformatSeekFile, ReaderGoes, ReaderOnly, NotSeeking, seekvars, Typed,
           FlagsTyped
  <2>5. QED
    BY <2>1, <2>2, <2>3, <2>4 DEF Typed
<1>3. QueueInv'
  BY <1>1
     DEF AvformatSeekFile, ReaderGoes, ReaderOnly, NotSeeking, QueueInv, Told, FlushGen,
         PlaceOf, Closing, qvars
<1>4. Budget'
  BY <1>1, BudgetKept
     DEF AvformatSeekFile, ReaderGoes, ReaderOnly, NotSeeking, svars, seekvars
<1>5. SeekInv'
  <2>1. /\ UNCHANGED <<queue, svars, mSeekReq, reqGen, overlap, lost, mExtractorLock, ctl>>
        /\ rpc = "seek" /\ (failed => failed')
        /\ \/ rpc' = "flushA" /\ fileGen' = reqGen
           \/ rpc' = "clear" /\ failed'
    BY DEF AvformatSeekFile, ReaderGoes, ReaderOnly, NotSeeking, qvars, seekvars
  <2>2. (Locked /\ Wanted /\ Emptied /\ Returned /\ (lost => overlap))'
    BY <1>1, <2>1 DEF SeekInv, Locked, Wanted, Emptied, Returned, Asks, Calm, svars
  <2>3. Unserved' /\ FileIsThere'
    BY <1>1, <2>1
       DEF SeekInv, Unserved, FileIsThere, Waits, Served, Calm, Serving, Closing, svars
  <2>4. Honours'
    <3>1. Calm' => Calm /\ rpc' = "flushA" /\ mSeekReq
      BY <1>1, <2>1 DEF Calm, SeekInv, Unserved, Serving
    <3>2. Calm' => \A s \in Tracks : want[s] # 0 => s \in seeking
      BY <1>1, <2>1, <3>1 DEF SeekInv, Unserved, Waits, Served, Wanted, Calm, Closing
    <3>3. QED
      BY <1>1, <2>1, <3>1, <3>2 DEF SeekInv, Honours, svars
  <2>5. QED
    BY <2>2, <2>3, <2>4 DEF SeekInv
<1>6. QED
  BY <1>2, <1>3, <1>4, <1>5 DEF IInv

\* The audio queue is emptied and marked with the flush packet of the request
\* ...
LEMMA FlushesAudio ==
  ASSUME IInv, ReaderFlush("flushA", "audio", "flushV")
  PROVE  IInv'
<1>1. Typed /\ QueueInv /\ Budget /\ SeekInv
  BY DEF IInv
<1>2. Typed'
  <2>1. QueueTyped'
    BY <1>1, ReaderFlushQueue
       DEF ReaderFlush, ReaderGoes, ReaderOnly, NotSeeking, ReaderTyped, Typed, QueueTyped
  <2>2. (ReaderTyped /\ SourceTyped /\ SeekTyped)'
    BY <1>1
       DEF ReaderFlush, ReaderGoes, ReaderOnly, NotSeeking, svars, seekvars, Typed,
           ReaderTyped, Closing, SourceTyped, SeekTyped
  <2>3. ControlTyped'
    BY <1>1
       DEF ReaderFlush, ReaderGoes, ReaderOnly, NotSeeking, seekvars, Typed, ControlTyped
  <2>4. FlagsTyped'
    BY <1>1 DEF ReaderFlush, ReaderGoes, ReaderOnly, NotSeeking, seekvars, Typed, FlagsTyped
  <2>5. QED
    BY <2>1, <2>2, <2>3, <2>4 DEF Typed
<1>3. QueueInv'
  <2>1. \A u \in Tracks : queue'[u] = IF u = "audio" /\ u \in StreamIdx THEN <<FlushPkt(fileGen)>>
                                                                  ELSE queue[u]
    BY <1>1, ReaderFlushQueue DEF Typed, ReaderTyped
  <2>2. Told' /\ (\A u \in Tracks : Separate(queue[u]))'
    <3>1. Told'
      BY <1>1, <2>1
         DEF ReaderFlush, ReaderGoes, ReaderOnly, NotSeeking, QueueInv, Told, Closing
    <3>2. (\A u \in Tracks : Separate(queue[u]))'
      <4>1. \A u \in Tracks : Separate(queue'[u])
        BY <1>1, <2>1, FreshQueues DEF QueueInv
      <4>2. QED
        BY <4>1
    <3>3. QED
      BY <3>1, <3>2
  <2>3. FlushGen'
    <3>1. StreamIdx = Tracks /\ rpc = "flushA" /\ rpc' = "flushV" /\ fileGen' = fileGen
      BY <1>1
         DEF ReaderFlush, ReaderGoes, ReaderOnly, NotSeeking, Typed, QueueTyped, QueueInv,
             Told, Closing
    <3>2. \A u \in Tracks : rpc' \notin PlaceOf(u) => FlushesOf(queue'[u], fileGen)
      BY <1>1, <2>1, <3>1, FreshQueues, ExtractorAssumption DEF QueueInv, FlushGen, PlaceOf
    <3>3. QED
      BY <3>1, <3>2 DEF FlushGen, PlaceOf
  <2>4. QED
    BY <2>2, <2>3 DEF QueueInv
<1>4. Budget'
  BY <1>1, BudgetKept DEF ReaderFlush, ReaderGoes, ReaderOnly, NotSeeking, svars, seekvars
<1>5. SeekInv'
  <2>1. \A u \in Tracks : queue'[u] = IF u = "audio" /\ u \in StreamIdx THEN <<FlushPkt(fileGen)>>
                                                                  ELSE queue[u]
    BY <1>1, ReaderFlushQueue DEF Typed, ReaderTyped
  <2>2. /\ rpc = "flushA" /\ rpc' = "flushV" /\ mSeekReq /\ StreamIdx = Tracks
        /\ UNCHANGED <<fileGen, svars, mSeekReq, reqGen, overlap, failed, lost>>
        /\ UNCHANGED <<mExtractorLock, ctl>>
    BY <1>1
       DEF ReaderFlush, ReaderGoes, ReaderOnly, NotSeeking, SeekInv, Unserved, Serving,
           QueueInv, Told, Closing, seekvars
  <2>3. (Locked /\ Wanted /\ Returned /\ FileIsThere /\ (lost => overlap))'
    BY <1>1, <2>2 DEF SeekInv, Locked, Wanted, Returned, FileIsThere, Asks, Calm, svars
  <2>4. Unserved'
    BY <1>1, <2>1, <2>2
       DEF SeekInv, Unserved, FileIsThere, Waits, Served, Calm, Serving, Closing, svars
  <2>5. Emptied'
    <3>1. Calm => \A s \in Tracks : ~Asks(s)
      BY <1>1, <2>2, NobodyAsks DEF Typed, Closing
    <3>2. QED
      BY <2>2, <3>1 DEF Emptied, Calm, Asks, svars
  <2>6. Honours'
    <3>1. Calm => fileGen = reqGen
      BY <1>1, <2>2 DEF SeekInv, FileIsThere
    <3>2. QED
      BY <1>1, <2>1, <2>2, <3>1, FreshQueues DEF SeekInv, Honours, Calm, svars
  <2>7. QED
    BY <2>3, <2>4, <2>5, <2>6 DEF SeekInv
<1>6. QED
  BY <1>2, <1>3, <1>4, <1>5 DEF IInv

\* ... then the video queue.
LEMMA FlushesVideo ==
  ASSUME IInv, ReaderFlush("flushV", "video", "clear")
  PROVE  IInv'
<1>1. Typed /\ QueueInv /\ Budget /\ SeekInv
  BY DEF IInv
<1>2. Typed'
  <2>1. QueueTyped'
    BY <1>1, ReaderFlushQueue
       DEF ReaderFlush, ReaderGoes, ReaderOnly, NotSeeking, ReaderTyped, Typed, QueueTyped
  <2>2. (ReaderTyped /\ SourceTyped /\ SeekTyped)'
    BY <1>1
       DEF ReaderFlush, ReaderGoes, ReaderOnly, NotSeeking, svars, seekvars, Typed,
           ReaderTyped, Closing, SourceTyped, SeekTyped
  <2>3. ControlTyped'
    BY <1>1
       DEF ReaderFlush, ReaderGoes, ReaderOnly, NotSeeking, seekvars, Typed, ControlTyped
  <2>4. FlagsTyped'
    BY <1>1 DEF ReaderFlush, ReaderGoes, ReaderOnly, NotSeeking, seekvars, Typed, FlagsTyped
  <2>5. QED
    BY <2>1, <2>2, <2>3, <2>4 DEF Typed
<1>3. QueueInv'
  <2>1. \A u \in Tracks : queue'[u] = IF u = "video" /\ u \in StreamIdx THEN <<FlushPkt(fileGen)>>
                                                                  ELSE queue[u]
    BY <1>1, ReaderFlushQueue DEF Typed, ReaderTyped
  <2>2. Told' /\ (\A u \in Tracks : Separate(queue[u]))'
    <3>1. Told'
      BY <1>1, <2>1
         DEF ReaderFlush, ReaderGoes, ReaderOnly, NotSeeking, QueueInv, Told, Closing
    <3>2. (\A u \in Tracks : Separate(queue[u]))'
      <4>1. \A u \in Tracks : Separate(queue'[u])
        BY <1>1, <2>1, FreshQueues DEF QueueInv
      <4>2. QED
        BY <4>1
    <3>3. QED
      BY <3>1, <3>2
  <2>3. FlushGen'
    <3>1. StreamIdx = Tracks /\ rpc = "flushV" /\ rpc' = "clear" /\ fileGen' = fileGen
      BY <1>1
         DEF ReaderFlush, ReaderGoes, ReaderOnly, NotSeeking, Typed, QueueTyped, QueueInv,
             Told, Closing
    <3>2. \A u \in Tracks : rpc' \notin PlaceOf(u) => FlushesOf(queue'[u], fileGen)
      BY <1>1, <2>1, <3>1, FreshQueues, ExtractorAssumption DEF QueueInv, FlushGen, PlaceOf
    <3>3. QED
      BY <3>1, <3>2 DEF FlushGen, PlaceOf
  <2>4. QED
    BY <2>2, <2>3 DEF QueueInv
<1>4. Budget'
  BY <1>1, BudgetKept DEF ReaderFlush, ReaderGoes, ReaderOnly, NotSeeking, svars, seekvars
<1>5. SeekInv'
  <2>1. \A u \in Tracks : queue'[u] = IF u = "video" /\ u \in StreamIdx THEN <<FlushPkt(fileGen)>>
                                                                  ELSE queue[u]
    BY <1>1, ReaderFlushQueue DEF Typed, ReaderTyped
  <2>2. /\ rpc = "flushV" /\ rpc' = "clear" /\ mSeekReq /\ StreamIdx = Tracks
        /\ UNCHANGED <<fileGen, svars, mSeekReq, reqGen, overlap, failed, lost>>
        /\ UNCHANGED <<mExtractorLock, ctl>>
    BY <1>1
       DEF ReaderFlush, ReaderGoes, ReaderOnly, NotSeeking, SeekInv, Unserved, Serving,
           QueueInv, Told, Closing, seekvars
  <2>3. (Locked /\ Wanted /\ Returned /\ FileIsThere /\ (lost => overlap))'
    BY <1>1, <2>2 DEF SeekInv, Locked, Wanted, Returned, FileIsThere, Asks, Calm, svars
  <2>4. Unserved'
    BY <1>1, <2>1, <2>2
       DEF SeekInv, Unserved, FileIsThere, Waits, Served, Calm, Serving, Closing, svars
  <2>5. Emptied'
    <3>1. Calm => \A s \in Tracks : ~Asks(s)
      BY <1>1, <2>2, NobodyAsks DEF Typed, Closing
    <3>2. QED
      BY <2>2, <3>1 DEF Emptied, Calm, Asks, svars
  <2>6. Honours'
    <3>1. Calm => fileGen = reqGen
      BY <1>1, <2>2 DEF SeekInv, FileIsThere
    <3>2. QED
      BY <1>1, <2>1, <2>2, <3>1, FreshQueues DEF SeekInv, Honours, Calm, svars
  <2>7. QED
    BY <2>3, <2>4, <2>5, <2>6 DEF SeekInv
<1>6. QED
  BY <1>2, <1>3, <1>4, <1>5 DEF IInv

\* The request is cleared, and no other one is lost with it.
LEMMA ClearsSeek ==
  ASSUME IInv, ReaderClearsSeek
  PROVE  IInv'
<1>1. Typed /\ QueueInv /\ Budget /\ SeekInv
  BY DEF IInv
<1>2. Typed'
  <2>1. ReaderTyped'
    BY <1>1
       DEF ReaderClearsSeek, ReaderGoes, ReaderOnly, NotSeeking, rvars, Typed, ReaderTyped,
           Closing
  <2>2. ControlTyped'
    BY <1>1 DEF ReaderClearsSeek, ReaderGoes, ReaderOnly, NotSeeking, Typed, ControlTyped
  <2>3. FlagsTyped'
    BY <1>1
       DEF ReaderClearsSeek, ReaderGoes, ReaderOnly, NotSeeking, Typed, FlagsTyped,
           seekvars
  <2>4. (QueueTyped /\ SourceTyped /\ SeekTyped)'
    BY <1>1
       DEF ReaderClearsSeek, ReaderGoes, ReaderOnly, NotSeeking, Typed, QueueTyped,
           SourceTyped, SeekTyped, svars, seekvars, rvars, qvars
  <2>5. QED
    BY <2>1, <2>2, <2>3, <2>4 DEF Typed
<1>3. QueueInv'
  <2>1. NoFlushComes
    BY NothingComes DEF ReaderClearsSeek, ReaderGoes, ReaderOnly, NotSeeking, qvars
  <2>2. Told'
    BY <1>1, <2>1
       DEF ReaderClearsSeek, ReaderGoes, ReaderOnly, NotSeeking, Typed, QueueTyped,
           QueueInv, Told, NoFlushComes, Closing, qvars
  <2>3. QED
    BY <1>1, <2>1, <2>2, QueueFrame DEF ReaderClearsSeek, ReaderGoes, ReaderOnly, NotSeeking
<1>4. Budget'
  BY <1>1, BudgetKept
     DEF ReaderClearsSeek, ReaderGoes, ReaderOnly, NotSeeking, svars, seekvars
<1>5. SeekInv'
  <2>1. /\ rpc = "clear" /\ rpc' = "loop" /\ ~mSeekReq'
        /\ UNCHANGED <<fileGen, queue, svars, reqGen, overlap, failed, mExtractorLock, ctl>>
    BY DEF ReaderClearsSeek, ReaderGoes, ReaderOnly, NotSeeking, qvars
  <2>2. lost' => overlap'
    <3>1. ~overlap /\ ~failed => fileGen = reqGen
      BY <1>1, <2>1 DEF SeekInv, FileIsThere, Calm
    <3>2. lost' => lost \/ (reqGen # fileGen /\ ~failed)
      BY <1>1 DEF ReaderClearsSeek, Typed, FlagsTyped
    <3>3. lost => overlap
      BY <1>1 DEF SeekInv
    <3>4. QED
      BY <2>1, <3>1, <3>2, <3>3, Zenon
  <2>3. (Locked /\ Wanted /\ Emptied /\ Returned)'
    BY <1>1, <2>1 DEF SeekInv, Locked, Wanted, Emptied, Returned, Asks, Calm, svars
  <2>4. Unserved' /\ FileIsThere' /\ Honours'
    BY <1>1, <2>1 DEF SeekInv, Unserved, FileIsThere, Honours, Calm, Serving, svars
  <2>5. QED
    BY <2>2, <2>3, <2>4 DEF SeekInv
<1>6. QED
  BY <1>2, <1>3, <1>4, <1>5 DEF IInv

\* At the end of the file the reader tells the video ...
LEMMA PutsVideoEos ==
  ASSUME IInv, ReaderPutsEos("eosV", "video", "eosA")
  PROVE  IInv'
<1>1. Typed /\ QueueInv /\ Budget /\ SeekInv
  BY DEF IInv
<1>2. Typed'
  <2>1. QueueTyped'
    BY <1>1, ReaderEosQueue
       DEF ReaderPutsEos, ReaderGoes, ReaderOnly, NotSeeking, Typed, QueueTyped
  <2>2. (ReaderTyped /\ SourceTyped /\ SeekTyped)'
    BY <1>1
       DEF ReaderPutsEos, ReaderGoes, ReaderOnly, NotSeeking, svars, seekvars, Typed,
           ReaderTyped, Closing, SourceTyped, SeekTyped
  <2>3. ControlTyped'
    BY <1>1
       DEF ReaderPutsEos, ReaderGoes, ReaderOnly, NotSeeking, seekvars, Typed, ControlTyped
  <2>4. FlagsTyped'
    BY <1>1
       DEF ReaderPutsEos, ReaderGoes, ReaderOnly, NotSeeking, seekvars, Typed, FlagsTyped
  <2>5. QED
    BY <2>1, <2>2, <2>3, <2>4 DEF Typed
<1>3. QueueInv'
  <2>1. NoFlushComes
    BY <1>1, EosComes DEF Typed, QueueInv
  <2>2. Told'
    BY <1>1, <2>1
       DEF ReaderPutsEos, ReaderGoes, ReaderOnly, NotSeeking, Typed, QueueTyped, QueueInv,
           Told, NoFlushComes, Closing, qvars
  <2>3. QED
    BY <1>1, <2>1, <2>2, QueueFrame DEF ReaderPutsEos, ReaderGoes, ReaderOnly, NotSeeking
<1>4. Budget'
  BY <1>1, BudgetKept DEF ReaderPutsEos, ReaderGoes, ReaderOnly, NotSeeking, svars, seekvars
<1>5. SeekInv'
  <2>1. NoFlushComes
    BY <1>1, EosComes DEF Typed, QueueInv
  <2>2. QED
    BY <1>1, <2>1, ReaderFrame
       DEF ReaderPutsEos, ReaderGoes, ReaderOnly, NotSeeking, SeekInv, Unserved, Serving,
           Closing, seekvars
<1>6. QED
  BY <1>2, <1>3, <1>4, <1>5 DEF IInv

\* ... and the audio.
LEMMA PutsAudioEos ==
  ASSUME IInv, ReaderPutsEos("eosA", "audio", "eosTest")
  PROVE  IInv'
<1>1. Typed /\ QueueInv /\ Budget /\ SeekInv
  BY DEF IInv
<1>2. Typed'
  <2>1. QueueTyped'
    BY <1>1, ReaderEosQueue
       DEF ReaderPutsEos, ReaderGoes, ReaderOnly, NotSeeking, Typed, QueueTyped
  <2>2. (ReaderTyped /\ SourceTyped /\ SeekTyped)'
    BY <1>1
       DEF ReaderPutsEos, ReaderGoes, ReaderOnly, NotSeeking, svars, seekvars, Typed,
           ReaderTyped, Closing, SourceTyped, SeekTyped
  <2>3. ControlTyped'
    BY <1>1
       DEF ReaderPutsEos, ReaderGoes, ReaderOnly, NotSeeking, seekvars, Typed, ControlTyped
  <2>4. FlagsTyped'
    BY <1>1
       DEF ReaderPutsEos, ReaderGoes, ReaderOnly, NotSeeking, seekvars, Typed, FlagsTyped
  <2>5. QED
    BY <2>1, <2>2, <2>3, <2>4 DEF Typed
<1>3. QueueInv'
  <2>1. NoFlushComes
    BY <1>1, EosComes DEF Typed, QueueInv
  <2>2. Told'
    BY <1>1, <2>1
       DEF ReaderPutsEos, ReaderGoes, ReaderOnly, NotSeeking, Typed, QueueTyped, QueueInv,
           Told, NoFlushComes, Closing, qvars
  <2>3. QED
    BY <1>1, <2>1, <2>2, QueueFrame DEF ReaderPutsEos, ReaderGoes, ReaderOnly, NotSeeking
<1>4. Budget'
  BY <1>1, BudgetKept DEF ReaderPutsEos, ReaderGoes, ReaderOnly, NotSeeking, svars, seekvars
<1>5. SeekInv'
  <2>1. NoFlushComes
    BY <1>1, EosComes DEF Typed, QueueInv
  <2>2. QED
    BY <1>1, <2>1, ReaderFrame
       DEF ReaderPutsEos, ReaderGoes, ReaderOnly, NotSeeking, SeekInv, Unserved, Serving,
           Closing, seekvars
<1>6. QED
  BY <1>2, <1>3, <1>4, <1>5 DEF IInv

\* It leaves when all was taken, or goes on.
LEMMA TestsEnd ==
  ASSUME IInv, ReaderTestsEnd
  PROVE  IInv'
<1>1. Typed /\ QueueInv /\ Budget /\ SeekInv
  BY DEF IInv
<1>2. Typed'
  <2>1. ReaderTyped'
    BY <1>1
       DEF ReaderTestsEnd, ReaderGoes, ReaderOnly, NotSeeking, rvars, Typed, ReaderTyped,
           Closing
  <2>2. ControlTyped'
    BY <1>1 DEF ReaderTestsEnd, ReaderGoes, ReaderOnly, NotSeeking, Typed, ControlTyped
  <2>3. FlagsTyped'
    BY <1>1
       DEF ReaderTestsEnd, ReaderGoes, ReaderOnly, NotSeeking, Typed, FlagsTyped, seekvars
  <2>4. (QueueTyped /\ SourceTyped /\ SeekTyped)'
    BY <1>1
       DEF ReaderTestsEnd, ReaderGoes, ReaderOnly, NotSeeking, Typed, QueueTyped,
           SourceTyped, SeekTyped, svars, seekvars, rvars, qvars
  <2>5. QED
    BY <2>1, <2>2, <2>3, <2>4 DEF Typed
<1>3. QueueInv'
  <2>1. NoFlushComes
    BY NothingComes DEF ReaderTestsEnd, ReaderGoes, ReaderOnly, NotSeeking, qvars
  <2>2. Told'
    BY <1>1, <2>1
       DEF ReaderTestsEnd, ReaderGoes, ReaderOnly, NotSeeking, Typed, QueueTyped, QueueInv,
           Told, NoFlushComes, Closing, qvars
  <2>3. QED
    BY <1>1, <2>1, <2>2, QueueFrame DEF ReaderTestsEnd, ReaderGoes, ReaderOnly, NotSeeking
<1>4. Budget'
  BY <1>1, BudgetKept
     DEF ReaderTestsEnd, ReaderGoes, ReaderOnly, NotSeeking, svars, seekvars
<1>5. SeekInv'
  <2>1. NoFlushComes
    BY NothingComes DEF ReaderTestsEnd, ReaderGoes, ReaderOnly, NotSeeking, qvars
  <2>2. QED
    BY <1>1, <2>1, ReaderFrame
       DEF ReaderTestsEnd, ReaderGoes, ReaderOnly, NotSeeking, SeekInv, Unserved, Serving,
           Closing, seekvars
<1>6. QED
  BY <1>2, <1>3, <1>4, <1>5 DEF IInv

\* The packet that is read is of the seek that set the file's position.
LEMMA ReadsFrame ==
  ASSUME IInv, AvReadFrame
  PROVE  IInv'
<1>1. Typed /\ QueueInv /\ Budget /\ SeekInv
  BY DEF IInv
<1>2. Typed'
  <2>1. ReaderTyped'
    BY <1>1, PacketTypes
       DEF AvReadFrame, ReaderGoes, ReaderOnly, NotSeeking, Typed, ReaderTyped, Closing
  <2>2. (QueueTyped /\ SourceTyped /\ SeekTyped)'
    BY <1>1
       DEF AvReadFrame, ReaderGoes, ReaderOnly, NotSeeking, qvars, svars, seekvars, Typed,
           QueueTyped, SourceTyped, SeekTyped
  <2>3. ControlTyped'
    BY <1>1
       DEF AvReadFrame, ReaderGoes, ReaderOnly, NotSeeking, seekvars, Typed, ControlTyped
  <2>4. FlagsTyped'
    BY <1>1 DEF AvReadFrame, ReaderGoes, ReaderOnly, NotSeeking, seekvars, Typed, FlagsTyped
  <2>5. QED
    BY <2>1, <2>2, <2>3, <2>4 DEF Typed
<1>3. QueueInv'
  <2>1. NoFlushComes
    BY NothingComes DEF AvReadFrame, ReaderGoes, ReaderOnly, NotSeeking, qvars
  <2>2. Told'
    BY <1>1, <2>1
       DEF AvReadFrame, ReaderGoes, ReaderOnly, NotSeeking, Typed, QueueTyped, QueueInv,
           Told, NoFlushComes, Closing, qvars
  <2>3. QED
    BY <1>1, <2>1, <2>2, QueueFrame, PacketKinds
       DEF AvReadFrame, ReaderGoes, ReaderOnly, NotSeeking
<1>4. Budget'
  BY <1>1, BudgetKept DEF AvReadFrame, ReaderGoes, ReaderOnly, NotSeeking, svars, seekvars
<1>5. SeekInv'
  <2>1. NoFlushComes
    BY NothingComes DEF AvReadFrame, ReaderGoes, ReaderOnly, NotSeeking, qvars
  <2>2. QED
    BY <1>1, <2>1, ReaderFrame
       DEF AvReadFrame, ReaderGoes, ReaderOnly, NotSeeking, SeekInv, Unserved, Serving,
           Closing, seekvars
<1>6. QED
  BY <1>2, <1>3, <1>4, <1>5 DEF IInv

\* It is put behind the flush packet of that seek.
LEMMA PutsData ==
  ASSUME IInv, ReaderPuts
  PROVE  IInv'
<1>1. Typed /\ QueueInv /\ Budget /\ SeekInv
  BY DEF IInv
<1>2. Typed'
  <2>1. QueueTyped'
    BY <1>1, ReaderPutsQueue
       DEF ReaderPuts, ReaderGoes, ReaderOnly, NotSeeking, Typed, QueueTyped
  <2>2. ReaderTyped'
    BY <1>1, PacketTypes
       DEF ReaderPuts, ReaderGoes, ReaderOnly, NotSeeking, Typed, ReaderTyped, Closing
  <2>3. (SourceTyped /\ SeekTyped)'
    BY <1>1
       DEF ReaderPuts, ReaderGoes, ReaderOnly, NotSeeking, svars, seekvars, Typed,
           SourceTyped, SeekTyped
  <2>4. ControlTyped'
    BY <1>1
       DEF ReaderPuts, ReaderGoes, ReaderOnly, NotSeeking, seekvars, Typed, ControlTyped
  <2>5. FlagsTyped'
    BY <1>1 DEF ReaderPuts, ReaderGoes, ReaderOnly, NotSeeking, seekvars, Typed, FlagsTyped
  <2>6. QED
    BY <2>1, <2>2, <2>3, <2>4, <2>5 DEF Typed
<1>3. QueueInv'
  <2>1. NoFlushComes
    BY <1>1, DataComes DEF Typed, QueueInv
  <2>2. Told'
    BY <1>1, <2>1
       DEF ReaderPuts, ReaderGoes, ReaderOnly, NotSeeking, Typed, QueueTyped, QueueInv,
           Told, NoFlushComes, Closing, qvars
  <2>3. QED
    BY <1>1, <2>1, <2>2, QueueFrame DEF ReaderPuts, ReaderGoes, ReaderOnly, NotSeeking
<1>4. Budget'
  BY <1>1, BudgetKept DEF ReaderPuts, ReaderGoes, ReaderOnly, NotSeeking, svars, seekvars
<1>5. SeekInv'
  <2>1. NoFlushComes
    BY <1>1, DataComes DEF Typed, QueueInv
  <2>2. QED
    BY <1>1, <2>1, ReaderFrame
       DEF ReaderPuts, ReaderGoes, ReaderOnly, NotSeeking, SeekInv, Unserved, Serving,
           Closing, seekvars
<1>6. QED
  BY <1>2, <1>3, <1>4, <1>5 DEF IInv

\* After a failure it waits for the abort request.
LEMMA AfterFailure ==
  ASSUME IInv, ReaderWaits
  PROVE  IInv'
<1>1. Typed /\ QueueInv /\ Budget /\ SeekInv
  BY DEF IInv
<1>2. Typed'
  <2>1. ReaderTyped'
    BY <1>1
       DEF ReaderWaits, ReaderGoes, ReaderOnly, NotSeeking, rvars, Typed, ReaderTyped,
           Closing
  <2>2. ControlTyped'
    BY <1>1 DEF ReaderWaits, ReaderGoes, ReaderOnly, NotSeeking, Typed, ControlTyped
  <2>3. FlagsTyped'
    BY <1>1 DEF ReaderWaits, ReaderGoes, ReaderOnly, NotSeeking, Typed, FlagsTyped, seekvars
  <2>4. (QueueTyped /\ SourceTyped /\ SeekTyped)'
    BY <1>1
       DEF ReaderWaits, ReaderGoes, ReaderOnly, NotSeeking, Typed, QueueTyped, SourceTyped,
           SeekTyped, svars, seekvars, rvars, qvars
  <2>5. QED
    BY <2>1, <2>2, <2>3, <2>4 DEF Typed
<1>3. QueueInv'
  <2>1. NoFlushComes
    BY NothingComes DEF ReaderWaits, ReaderGoes, ReaderOnly, NotSeeking, qvars
  <2>2. Told'
    BY <1>1, <2>1
       DEF ReaderWaits, ReaderGoes, ReaderOnly, NotSeeking, Typed, QueueTyped, QueueInv,
           Told, NoFlushComes, Closing, qvars
  <2>3. QED
    BY <1>1, <2>1, <2>2, QueueFrame DEF ReaderWaits, ReaderGoes, ReaderOnly, NotSeeking
<1>4. Budget'
  BY <1>1, BudgetKept DEF ReaderWaits, ReaderGoes, ReaderOnly, NotSeeking, svars, seekvars
<1>5. SeekInv'
  <2>1. NoFlushComes
    BY NothingComes DEF ReaderWaits, ReaderGoes, ReaderOnly, NotSeeking, qvars
  <2>2. QED
    BY <1>1, <2>1, ReaderFrame
       DEF ReaderWaits, ReaderGoes, ReaderOnly, NotSeeking, SeekInv, Unserved, Serving,
           Closing, seekvars
<1>6. QED
  BY <1>2, <1>3, <1>4, <1>5 DEF IInv

\* The reader that leaves aborts the audio queue ...
LEMMA AbortsAudio ==
  ASSUME IInv, StreamComponentAbort("closeA", "audio", "waitA", "closeV")
  PROVE  IInv'
<1>1. Typed /\ QueueInv /\ Budget /\ SeekInv
  BY DEF IInv
<1>2. Typed'
  <2>1. ReaderTyped'
    BY <1>1
       DEF StreamComponentAbort, ReaderGoes, ReaderOnly, NotSeeking, rvars, Typed,
           ReaderTyped, Closing
  <2>2. ControlTyped'
    BY <1>1
       DEF StreamComponentAbort, ReaderGoes, ReaderOnly, NotSeeking, Typed, ControlTyped
  <2>3. FlagsTyped'
    BY <1>1
       DEF StreamComponentAbort, ReaderGoes, ReaderOnly, NotSeeking, Typed, FlagsTyped,
           seekvars
  <2>4. (QueueTyped /\ SourceTyped /\ SeekTyped)'
    BY <1>1
       DEF StreamComponentAbort, ReaderGoes, ReaderOnly, NotSeeking, Typed, QueueTyped,
           SourceTyped, SeekTyped, svars, seekvars, rvars, qvars
  <2>5. QED
    BY <2>1, <2>2, <2>3, <2>4 DEF Typed
<1>3. QueueInv'
  <2>1. NoFlushComes
    BY NothingComes DEF StreamComponentAbort, ReaderGoes, ReaderOnly, NotSeeking, qvars
  <2>2. Told'
    BY <1>1, <2>1
       DEF StreamComponentAbort, ReaderGoes, ReaderOnly, NotSeeking, Typed, QueueTyped,
           QueueInv, Told, NoFlushComes, Closing, qvars
  <2>3. QED
    BY <1>1, <2>1, <2>2, QueueFrame
       DEF StreamComponentAbort, ReaderGoes, ReaderOnly, NotSeeking
<1>4. Budget'
  BY <1>1, BudgetKept
     DEF StreamComponentAbort, ReaderGoes, ReaderOnly, NotSeeking, svars, seekvars
<1>5. SeekInv'
  <2>1. NoFlushComes
    BY NothingComes DEF StreamComponentAbort, ReaderGoes, ReaderOnly, NotSeeking, qvars
  <2>2. QED
    BY <1>1, <2>1, ReaderFrame
       DEF StreamComponentAbort, ReaderGoes, ReaderOnly, NotSeeking, SeekInv, Unserved,
           Serving, Closing, seekvars
<1>6. QED
  BY <1>2, <1>3, <1>4, <1>5 DEF IInv

\* ... and forgets the track when its source was told.
LEMMA ClosesAudio ==
  ASSUME IInv, StreamComponentClose("waitA", "audio", "closeV")
  PROVE  IInv'
<1>1. Typed /\ QueueInv /\ Budget /\ SeekInv
  BY DEF IInv
<1>2. Typed'
  <2>1. QueueTyped'
    BY <1>1, CloseQueue
       DEF StreamComponentClose, ReaderGoes, ReaderOnly, NotSeeking, Typed, QueueTyped
  <2>2. (ReaderTyped /\ SourceTyped /\ SeekTyped)'
    BY <1>1
       DEF StreamComponentClose, ReaderGoes, ReaderOnly, NotSeeking, svars, seekvars,
           Typed, ReaderTyped, Closing, SourceTyped, SeekTyped
  <2>3. ControlTyped'
    BY <1>1
       DEF StreamComponentClose, ReaderGoes, ReaderOnly, NotSeeking, seekvars, Typed,
           ControlTyped
  <2>4. FlagsTyped'
    BY <1>1
       DEF StreamComponentClose, ReaderGoes, ReaderOnly, NotSeeking, seekvars, Typed,
           FlagsTyped
  <2>5. QED
    BY <2>1, <2>2, <2>3, <2>4 DEF Typed
<1>3. QueueInv'
  <2>1. NoFlushComes
    BY <1>1, QueueEnds DEF Typed, QueueInv
  <2>2. Told'
    BY <1>1, <2>1
       DEF StreamComponentClose, ReaderGoes, ReaderOnly, NotSeeking, Typed, QueueTyped,
           QueueInv, Told, NoFlushComes, Closing, qvars
  <2>3. QED
    BY <1>1, <2>1, <2>2, QueueFrame
       DEF StreamComponentClose, ReaderGoes, ReaderOnly, NotSeeking
<1>4. Budget'
  BY <1>1, BudgetKept
     DEF StreamComponentClose, ReaderGoes, ReaderOnly, NotSeeking, svars, seekvars
<1>5. SeekInv'
  <2>1. NoFlushComes
    BY <1>1, QueueEnds DEF Typed, QueueInv
  <2>2. QED
    BY <1>1, <2>1, ReaderFrame
       DEF StreamComponentClose, ReaderGoes, ReaderOnly, NotSeeking, SeekInv, Unserved,
           Serving, Closing, seekvars
<1>6. QED
  BY <1>2, <1>3, <1>4, <1>5 DEF IInv

\* The same for the video.
LEMMA AbortsVideo ==
  ASSUME IInv, StreamComponentAbort("closeV", "video", "waitV", "dead")
  PROVE  IInv'
<1>1. Typed /\ QueueInv /\ Budget /\ SeekInv
  BY DEF IInv
<1>2. Typed'
  <2>1. ReaderTyped'
    BY <1>1
       DEF StreamComponentAbort, ReaderGoes, ReaderOnly, NotSeeking, rvars, Typed,
           ReaderTyped, Closing
  <2>2. ControlTyped'
    BY <1>1
       DEF StreamComponentAbort, ReaderGoes, ReaderOnly, NotSeeking, Typed, ControlTyped
  <2>3. FlagsTyped'
    BY <1>1
       DEF StreamComponentAbort, ReaderGoes, ReaderOnly, NotSeeking, Typed, FlagsTyped,
           seekvars
  <2>4. (QueueTyped /\ SourceTyped /\ SeekTyped)'
    BY <1>1
       DEF StreamComponentAbort, ReaderGoes, ReaderOnly, NotSeeking, Typed, QueueTyped,
           SourceTyped, SeekTyped, svars, seekvars, rvars, qvars
  <2>5. QED
    BY <2>1, <2>2, <2>3, <2>4 DEF Typed
<1>3. QueueInv'
  <2>1. NoFlushComes
    BY NothingComes DEF StreamComponentAbort, ReaderGoes, ReaderOnly, NotSeeking, qvars
  <2>2. Told'
    BY <1>1, <2>1
       DEF StreamComponentAbort, ReaderGoes, ReaderOnly, NotSeeking, Typed, QueueTyped,
           QueueInv, Told, NoFlushComes, Closing, qvars
  <2>3. QED
    BY <1>1, <2>1, <2>2, QueueFrame
       DEF StreamComponentAbort, ReaderGoes, ReaderOnly, NotSeeking
<1>4. Budget'
  BY <1>1, BudgetKept
     DEF StreamComponentAbort, ReaderGoes, ReaderOnly, NotSeeking, svars, seekvars
<1>5. SeekInv'
  <2>1. NoFlushComes
    BY NothingComes DEF StreamComponentAbort, ReaderGoes, ReaderOnly, NotSeeking, qvars
  <2>2. QED
    BY <1>1, <2>1, ReaderFrame
       DEF StreamComponentAbort, ReaderGoes, ReaderOnly, NotSeeking, SeekInv, Unserved,
           Serving, Closing, seekvars
<1>6. QED
  BY <1>2, <1>3, <1>4, <1>5 DEF IInv

\* The reader is gone.
LEMMA ClosesVideo ==
  ASSUME IInv, StreamComponentClose("waitV", "video", "dead")
  PROVE  IInv'
<1>1. Typed /\ QueueInv /\ Budget /\ SeekInv
  BY DEF IInv
<1>2. Typed'
  <2>1. QueueTyped'
    BY <1>1, CloseQueue
       DEF StreamComponentClose, ReaderGoes, ReaderOnly, NotSeeking, Typed, QueueTyped
  <2>2. (ReaderTyped /\ SourceTyped /\ SeekTyped)'
    BY <1>1
       DEF StreamComponentClose, ReaderGoes, ReaderOnly, NotSeeking, svars, seekvars,
           Typed, ReaderTyped, Closing, SourceTyped, SeekTyped
  <2>3. ControlTyped'
    BY <1>1
       DEF StreamComponentClose, ReaderGoes, ReaderOnly, NotSeeking, seekvars, Typed,
           ControlTyped
  <2>4. FlagsTyped'
    BY <1>1
       DEF StreamComponentClose, ReaderGoes, ReaderOnly, NotSeeking, seekvars, Typed,
           FlagsTyped
  <2>5. QED
    BY <2>1, <2>2, <2>3, <2>4 DEF Typed
<1>3. QueueInv'
  <2>1. NoFlushComes
    BY <1>1, QueueEnds DEF Typed, QueueInv
  <2>2. Told'
    BY <1>1, <2>1
       DEF StreamComponentClose, ReaderGoes, ReaderOnly, NotSeeking, Typed, QueueTyped,
           QueueInv, Told, NoFlushComes, Closing, qvars
  <2>3. QED
    BY <1>1, <2>1, <2>2, QueueFrame
       DEF StreamComponentClose, ReaderGoes, ReaderOnly, NotSeeking
<1>4. Budget'
  BY <1>1, BudgetKept
     DEF StreamComponentClose, ReaderGoes, ReaderOnly, NotSeeking, svars, seekvars
<1>5. SeekInv'
  <2>1. NoFlushComes
    BY <1>1, QueueEnds DEF Typed, QueueInv
  <2>2. QED
    BY <1>1, <2>1, ReaderFrame
       DEF StreamComponentClose, ReaderGoes, ReaderOnly, NotSeeking, SeekInv, Unserved,
           Serving, Closing, seekvars
<1>6. QED
  BY <1>2, <1>3, <1>4, <1>5 DEF IInv

-----------------------------------------------------------------------------
(* The sources.                                                              *)

\* The sources that will still ask for a seek can be counted.
LEMMA SeekersFinite == Typed => IsFiniteSet(Seekers) /\ Cardinality(Seekers) \in Nat
<1>1. Seekers \in SUBSET {"video", "audio"}
  BY ExtractorAssumption DEF Seekers
<1>2. IsFiniteSet({"video"})
  BY FS_Singleton
<1>3. IsFiniteSet({"video"} \cup {"audio"})
  BY <1>2, FS_AddElement
<1>4. {"video"} \cup {"audio"} = {"video", "audio"}
  OBVIOUS
<1>5. IsFiniteSet({"video", "audio"})
  BY <1>3, <1>4
<1>6. IsFiniteSet(Seekers)
  BY <1>1, <1>5, FS_Subset
<1>7. QED
  BY <1>6, FS_CardinalityType

\* A seek about to be asked for is within the bound.
LEMMA SeekerCounts ==
  ASSUME Typed, Budget, NEW s \in Seekers
  PROVE  /\ Cardinality(Seekers \ {s}) = Cardinality(Seekers) - 1
         /\ reqGen + 1 \in 0..MaxSeeks
<1>1. IsFiniteSet(Seekers) /\ IsFiniteSet(Seekers \ {s}) /\ Cardinality(Seekers) \in Nat
  BY SeekersFinite, FS_RemoveElement
<1>2. Cardinality(Seekers \ {s}) = Cardinality(Seekers) - 1
  BY <1>1, FS_RemoveElement
<1>3. Cardinality(Seekers \ {s}) \in Nat
  BY <1>1, FS_CardinalityType
<1>4. reqGen \in Nat /\ MaxSeeks \in Nat
  BY ExtractorAssumption DEF Typed, SeekTyped
<1>5. QED
  BY <1>1, <1>2, <1>3, <1>4 DEF Budget

\* A read is called; it has asked for no seek yet.
LEMMA SourceReads ==
  ASSUME IInv, NEW s \in Tracks, Read(s)
  PROVE  IInv'
<1>1. Typed /\ QueueInv /\ Budget /\ SeekInv
  BY DEF IInv
<1>2. Typed'
  <2>1. SourceTyped'
    BY <1>1 DEF Read, SourceGoes, SourceOnly, qvars, svars, Typed, SourceTyped
  <2>2. (ReaderTyped /\ QueueTyped)'
    BY <1>1
       DEF Read, SourceGoes, SourceOnly, rvars, qvars, Typed, ReaderTyped, Closing,
           QueueTyped
  <2>3. (SeekTyped /\ ControlTyped /\ FlagsTyped)'
    BY <1>1
       DEF Read, SourceGoes, SourceOnly, seekvars, Typed, SeekTyped, ControlTyped,
           FlagsTyped
  <2>4. QED
    BY <2>1, <2>2, <2>3 DEF Typed
<1>3. QueueInv'
  <2>1. NoFlushComes
    BY NothingComes DEF Read, SourceGoes, SourceOnly, rvars, qvars
  <2>2. Told'
    BY <1>1, <2>1
       DEF Read, SourceGoes, SourceOnly, rvars, Typed, QueueTyped, QueueInv, Told,
           NoFlushComes, Closing, qvars
  <2>3. QED
    BY <1>1, <2>1, <2>2, SourceFrame DEF Read, SourceGoes, SourceOnly, rvars
<1>4. Budget'
  <2>1. spc[s] = "idle" /\ spc = [t \in Tracks |-> spc[t]] /\ UNCHANGED reqGen
    BY <1>1 DEF Read, SourceGoes, SourceOnly, seekvars, Typed, SourceTyped
  <2>2. CASE spc' = [spc EXCEPT ![s] = "get"]
    <3>1. Seekers' = Seekers
      BY <2>1, <2>2 DEF Seekers, SeekPlaces
    <3>2. QED
      BY <1>1, <2>1, <3>1 DEF Budget
  <2>3. CASE spc' = [spc EXCEPT ![s] = "seek"] /\ reqGen + Cardinality(Seekers) < MaxSeeks
    <3>1. Seekers' = Seekers \cup {s} /\ s \notin Seekers
      BY <2>1, <2>3 DEF Seekers, SeekPlaces
    <3>2. Cardinality(Seekers') = Cardinality(Seekers) + 1
      BY <1>1, <3>1, SeekersFinite, FS_AddElement
    <3>3. QED
      BY <1>1, <2>1, <2>3, <3>2, SeekersFinite, ExtractorAssumption
         DEF Budget, Typed, SeekTyped
  <2>4. QED
    BY <2>2, <2>3 DEF Read, SourceGoes, Seekers
<1>5. SeekInv'
  <2>1. /\ spc[s] = "idle" /\ want[s] = 0 /\ spc = [t \in Tracks |-> spc[t]]
        /\ spc' = [spc EXCEPT ![s] = "get"] \/ spc' = [spc EXCEPT ![s] = "seek"]
        /\ UNCHANGED <<rpc, fileGen, queue, want, pkt, seeking, mExtractorLock, ctl>>
        /\ UNCHANGED seekvars /\ UNCHANGED failed
    BY <1>1
       DEF Read, SourceGoes, SourceOnly, rvars, qvars, svars, Typed, SourceTyped,
           SeekTyped, SeekInv, Wanted
  <2>2. (Locked /\ Wanted)'
    BY <1>1, <2>1 DEF SeekInv, Locked, Wanted, Asks, seekvars
  <2>3. (Unserved /\ FileIsThere /\ Emptied /\ Honours /\ Returned /\ (lost => overlap))'
    BY <1>1, <2>1
       DEF SeekInv, Unserved, Waits, Served, FileIsThere, Emptied, Honours, Returned, Calm,
           seekvars
  <2>4. QED
    BY <2>2, <2>3 DEF SeekInv
<1>6. QED
  BY <1>2, <1>3, <1>4, <1>5 DEF IInv

\* stream_seek: the video seeks for both, or the source takes the lock; it
\* overlaps another when that one's read has not returned.
LEMMA SeekBegins ==
  ASSUME IInv, NEW s \in Tracks, StreamSeek(s)
  PROVE  IInv'
<1>1. Typed /\ QueueInv /\ Budget /\ SeekInv
  BY DEF IInv
<1>2. Typed'
  <2>1. SourceTyped'
    BY <1>1 DEF StreamSeek, SourceGoes, SourceOnly, Typed, SourceTyped
  <2>2. SeekTyped'
    <3>1. reqGen + 1 \in 0..MaxSeeks
      <4>1. s \in Seekers
        BY DEF StreamSeek, Seekers, SeekPlaces
      <4>2. QED
        BY <1>1, <4>1, SeekerCounts
    <3>2. QED
      BY <1>1, <3>1 DEF StreamSeek, SourceGoes, SourceOnly, Typed, SeekTyped
  <2>3. (ReaderTyped /\ QueueTyped)'
    BY <1>1
       DEF StreamSeek, SourceGoes, SourceOnly, rvars, qvars, Typed, ReaderTyped, Closing,
           QueueTyped
  <2>4. ControlTyped'
    BY <1>1 DEF StreamSeek, SourceGoes, SourceOnly, Typed, ControlTyped
  <2>5. FlagsTyped'
    BY <1>1 DEF StreamSeek, SourceGoes, SourceOnly, Typed, FlagsTyped
  <2>6. QED
    BY <2>1, <2>2, <2>3, <2>4, <2>5 DEF Typed
<1>3. QueueInv'
  <2>1. NoFlushComes
    BY NothingComes DEF StreamSeek, SourceGoes, SourceOnly, rvars, qvars
  <2>2. Told'
    BY <1>1, <2>1
       DEF StreamSeek, SourceGoes, SourceOnly, rvars, Typed, QueueTyped, QueueInv, Told,
           NoFlushComes, Closing, qvars
  <2>3. QED
    BY <1>1, <2>1, <2>2, SourceFrame DEF StreamSeek, SourceGoes, SourceOnly, rvars
<1>4. Budget'
  <2>1. spc[s] = "seek" /\ spc = [t \in Tracks |-> spc[t]] /\ UNCHANGED reqGen
    BY <1>1 DEF StreamSeek, SourceGoes, SourceOnly, seekvars, Typed, SourceTyped
  <2>2. CASE spc' = [spc EXCEPT ![s] = "flushA"]
    <3>1. Seekers' = Seekers
      BY <2>1, <2>2 DEF Seekers, SeekPlaces
    <3>2. QED
      BY <1>1, <2>1, <3>1 DEF Budget
  <2>3. CASE spc' = [spc EXCEPT ![s] = "get"]
    <3>1. Seekers' = Seekers \ {s} /\ s \in Seekers
      BY <2>1, <2>3 DEF Seekers, SeekPlaces
    <3>2. QED
      BY <1>1, <2>1, <3>1, SeekerCounts, SeekersFinite, ExtractorAssumption
         DEF Budget, Typed, SeekTyped
  <2>4. QED
    BY <2>2, <2>3 DEF StreamSeek, SourceGoes
<1>5. SeekInv'
  <2>1. /\ spc[s] = "seek" /\ want[s] = 0 /\ spc = [t \in Tracks |-> spc[t]]
        /\ want \in [Tracks -> 0..MaxSeeks] /\ reqGen \in Nat
        /\ UNCHANGED <<rpc, fileGen, queue, pkt, seeking, ctl, mSeekReq, reqGen, lost, failed>>
    BY <1>1
       DEF StreamSeek, SourceGoes, SourceOnly, rvars, qvars, Typed, SourceTyped, SeekTyped,
           SeekInv, Wanted
  <2>2. CASE spc' = [spc EXCEPT ![s] = "get"] /\ UNCHANGED <<mExtractorLock, want, overlap>>
    <3>1. (Locked /\ Wanted)'
      BY <1>1, <2>1, <2>2 DEF SeekInv, Locked, Wanted, Asks
    <3>2. (Unserved /\ FileIsThere /\ Emptied /\ Honours /\ Returned /\ (lost => overlap))'
      BY <1>1, <2>1, <2>2
         DEF SeekInv, Unserved, Waits, Served, FileIsThere, Emptied, Honours, Returned,
             Calm
    <3>3. QED
      BY <3>1, <3>2 DEF SeekInv
  <2>3. CASE /\ spc' = [spc EXCEPT ![s] = "flushA"] /\ mExtractorLock = NoOne /\ mExtractorLock' = s
             /\ want' = [want EXCEPT ![s] = reqGen + 1]
             /\ overlap' = (overlap \/ \E t \in Tracks \ {s} : spc[t] # "idle" /\ want[t] # 0)
    <3>1. ~overlap' => ~overlap /\ \A t \in Tracks \ {s} : want[t] = 0
      BY <1>1, <2>3 DEF SeekInv, Wanted
    <3>2. Locked'
      BY <1>1, <2>1, <2>3, ExtractorAssumption DEF SeekInv, Locked, Asks, NoOne
    <3>3. Wanted'
      BY <1>1, <2>1, <2>3, <3>1 DEF SeekInv, Wanted, Asks
    <3>4. Unserved'
      <4>1. ~overlap' => \A t \in Tracks : ~Waits(t)
        BY <2>1, <3>1 DEF Waits
      <4>2. QED
        BY <1>1, <2>1, <3>1, <4>1 DEF SeekInv, Unserved, Calm, Serving
    <3>5. (FileIsThere /\ Emptied /\ Honours /\ Returned /\ (lost => overlap))'
      BY <1>1, <2>1, <2>3, <3>1 DEF SeekInv, FileIsThere, Emptied, Honours, Returned, Calm
    <3>6. QED
      BY <3>2, <3>3, <3>4, <3>5 DEF SeekInv
  <2>4. QED
    BY <2>2, <2>3 DEF StreamSeek, SourceGoes
<1>6. QED
  BY <1>2, <1>3, <1>4, <1>5 DEF IInv

\* stream_seek empties the audio queue ...
LEMMA SeekEmptiesAudio ==
  ASSUME IInv, NEW s \in Tracks, StreamSeekFlush(s, "flushA", "audio", "flushV")
  PROVE  IInv'
<1>1. Typed /\ QueueInv /\ Budget /\ SeekInv
  BY DEF IInv
<1>2. Typed'
  <2>1. QueueTyped'
    BY <1>1, SeekFlushQueue DEF StreamSeekFlush, SourceGoes, SourceOnly, Typed, QueueTyped
  <2>2. SourceTyped'
    BY <1>1 DEF StreamSeekFlush, SourceGoes, SourceOnly, svars, Typed, SourceTyped
  <2>3. (ReaderTyped /\ SeekTyped)'
    BY <1>1
       DEF StreamSeekFlush, SourceGoes, SourceOnly, rvars, seekvars, Typed, ReaderTyped,
           Closing, SeekTyped
  <2>4. ControlTyped'
    BY <1>1 DEF StreamSeekFlush, SourceGoes, SourceOnly, seekvars, Typed, ControlTyped
  <2>5. FlagsTyped'
    BY <1>1 DEF StreamSeekFlush, SourceGoes, SourceOnly, seekvars, Typed, FlagsTyped
  <2>6. QED
    BY <2>1, <2>2, <2>3, <2>4, <2>5 DEF Typed
<1>3. QueueInv'
  <2>1. NoFlushComes
    BY <1>1, QueueEmptied DEF Typed, QueueInv
  <2>2. Told'
    BY <1>1, <2>1
       DEF StreamSeekFlush, SourceGoes, SourceOnly, rvars, Typed, QueueTyped, QueueInv,
           Told, NoFlushComes, Closing, qvars
  <2>3. QED
    BY <1>1, <2>1, <2>2, SourceFrame DEF StreamSeekFlush, SourceGoes, SourceOnly, rvars
<1>4. Budget'
  <2>1. spc = [t \in Tracks |-> spc[t]]
    BY <1>1 DEF Typed, SourceTyped
  <2>2. Seekers' = Seekers /\ UNCHANGED reqGen
    BY <2>1 DEF StreamSeekFlush, SourceGoes, SourceOnly, Seekers, SeekPlaces, seekvars
  <2>3. QED
    BY <1>1, <2>2 DEF Budget
<1>5. SeekInv'
  <2>1. /\ spc[s] = "flushA" /\ spc' = [spc EXCEPT ![s] = "flushV"]
        /\ spc = [t \in Tracks |-> spc[t]]
        /\ UNCHANGED <<rpc, fileGen, pkt, seeking, want, ctl, mExtractorLock, failed>>
        /\ UNCHANGED <<mSeekReq, reqGen, lost, overlap>>
    BY <1>1 DEF StreamSeekFlush, SourceGoes, SourceOnly, rvars, seekvars, Typed, SourceTyped
  <2>2. NoFlushComes
    BY <1>1, QueueEmptied DEF Typed
  <2>3. NoFlush(queue'["audio"]) \/ "audio" \notin Tracks
    BY <1>1, SeekFlushQueue, FreshQueues DEF Typed, QueueInv, Told
  <2>4. (Locked /\ Wanted /\ FileIsThere /\ Returned /\ (lost => overlap))'
    BY <1>1, <2>1 DEF SeekInv, Locked, Wanted, FileIsThere, Returned, Asks, Calm
  <2>5. Unserved'
    <3>1. Calm /\ mSeekReq => rpc \in Closing
      BY <1>1, <2>1, NobodyAsks DEF Typed, Asks
    <3>2. QED
      BY <1>1, <2>1, <3>1 DEF SeekInv, Unserved, Calm
  <2>6. Emptied'
    <3>1. \A r \in Tracks \ {s} : ~Asks(r)
      BY <1>1, <2>1 DEF SeekInv, Locked, Asks
    <3>2. QED
      BY <1>1, <2>1, <2>2, <2>3, <3>1, ExtractorAssumption
         DEF SeekInv, Emptied, Asks, Calm, NoFlushComes
  <2>7. Honours'
    BY <1>1, <2>1, <2>2 DEF SeekInv, Honours, Calm, NoFlushComes
  <2>8. QED
    BY <2>4, <2>5, <2>6, <2>7 DEF SeekInv
<1>6. QED
  BY <1>2, <1>3, <1>4, <1>5 DEF IInv

\* ... and the video queue; nobody puts a flush packet in between.
LEMMA SeekEmptiesVideo ==
  ASSUME IInv, NEW s \in Tracks, StreamSeekFlush(s, "flushV", "video", "request")
  PROVE  IInv'
<1>1. Typed /\ QueueInv /\ Budget /\ SeekInv
  BY DEF IInv
<1>2. Typed'
  <2>1. QueueTyped'
    BY <1>1, SeekFlushQueue DEF StreamSeekFlush, SourceGoes, SourceOnly, Typed, QueueTyped
  <2>2. SourceTyped'
    BY <1>1 DEF StreamSeekFlush, SourceGoes, SourceOnly, svars, Typed, SourceTyped
  <2>3. (ReaderTyped /\ SeekTyped)'
    BY <1>1
       DEF StreamSeekFlush, SourceGoes, SourceOnly, rvars, seekvars, Typed, ReaderTyped,
           Closing, SeekTyped
  <2>4. ControlTyped'
    BY <1>1 DEF StreamSeekFlush, SourceGoes, SourceOnly, seekvars, Typed, ControlTyped
  <2>5. FlagsTyped'
    BY <1>1 DEF StreamSeekFlush, SourceGoes, SourceOnly, seekvars, Typed, FlagsTyped
  <2>6. QED
    BY <2>1, <2>2, <2>3, <2>4, <2>5 DEF Typed
<1>3. QueueInv'
  <2>1. NoFlushComes
    BY <1>1, QueueEmptied DEF Typed, QueueInv
  <2>2. Told'
    BY <1>1, <2>1
       DEF StreamSeekFlush, SourceGoes, SourceOnly, rvars, Typed, QueueTyped, QueueInv,
           Told, NoFlushComes, Closing, qvars
  <2>3. QED
    BY <1>1, <2>1, <2>2, SourceFrame DEF StreamSeekFlush, SourceGoes, SourceOnly, rvars
<1>4. Budget'
  <2>1. spc = [t \in Tracks |-> spc[t]]
    BY <1>1 DEF Typed, SourceTyped
  <2>2. Seekers' = Seekers /\ UNCHANGED reqGen
    BY <2>1 DEF StreamSeekFlush, SourceGoes, SourceOnly, Seekers, SeekPlaces, seekvars
  <2>3. QED
    BY <1>1, <2>2 DEF Budget
<1>5. SeekInv'
  <2>1. /\ spc[s] = "flushV" /\ spc' = [spc EXCEPT ![s] = "request"]
        /\ spc = [t \in Tracks |-> spc[t]]
        /\ UNCHANGED <<rpc, fileGen, pkt, seeking, want, ctl, mExtractorLock, failed>>
        /\ UNCHANGED <<mSeekReq, reqGen, lost, overlap>>
    BY <1>1 DEF StreamSeekFlush, SourceGoes, SourceOnly, rvars, seekvars, Typed, SourceTyped
  <2>2. NoFlushComes
    BY <1>1, QueueEmptied DEF Typed
  <2>3. NoFlush(queue'["video"]) \/ "video" \notin Tracks
    BY <1>1, SeekFlushQueue, FreshQueues DEF Typed, QueueInv, Told
  <2>4. (Locked /\ Wanted /\ FileIsThere /\ Returned /\ (lost => overlap))'
    BY <1>1, <2>1 DEF SeekInv, Locked, Wanted, FileIsThere, Returned, Asks, Calm
  <2>5. Unserved'
    <3>1. Calm /\ mSeekReq => rpc \in Closing
      BY <1>1, <2>1, NobodyAsks DEF Typed, Asks
    <3>2. QED
      BY <1>1, <2>1, <3>1 DEF SeekInv, Unserved, Calm
  <2>6. Emptied'
    <3>1. \A r \in Tracks \ {s} : ~Asks(r)
      BY <1>1, <2>1 DEF SeekInv, Locked, Asks
    <3>2. QED
      BY <1>1, <2>1, <2>2, <2>3, <3>1, ExtractorAssumption
         DEF SeekInv, Emptied, Asks, Calm, NoFlushComes
  <2>7. Honours'
    BY <1>1, <2>1, <2>2 DEF SeekInv, Honours, Calm, NoFlushComes
  <2>8. QED
    BY <2>4, <2>5, <2>6, <2>7 DEF SeekInv
<1>6. QED
  BY <1>2, <1>3, <1>4, <1>5 DEF IInv

\* The request: both queues are free of flush packets, and no other request
\* waits.
LEMMA SeekRequests ==
  ASSUME IInv, NEW s \in Tracks, StreamSeekRequest(s)
  PROVE  IInv'
<1>1. Typed /\ QueueInv /\ Budget /\ SeekInv
  BY DEF IInv
<1>2. Typed'
  <2>1. SourceTyped'
    BY <1>1 DEF StreamSeekRequest, SourceGoes, SourceOnly, Typed, SourceTyped
  <2>2. SeekTyped'
    <3>1. reqGen + 1 \in 0..MaxSeeks
      <4>1. s \in Seekers
        BY DEF StreamSeekRequest, Seekers, SeekPlaces
      <4>2. QED
        BY <1>1, <4>1, SeekerCounts
    <3>2. QED
      BY <1>1, PacketTypes, <3>1
       DEF StreamSeekRequest, SourceGoes, SourceOnly, Typed, SeekTyped
  <2>3. (ReaderTyped /\ QueueTyped)'
    BY <1>1
       DEF StreamSeekRequest, SourceGoes, SourceOnly, rvars, qvars, Typed, ReaderTyped,
           Closing, QueueTyped
  <2>4. ControlTyped'
    BY <1>1 DEF StreamSeekRequest, SourceGoes, SourceOnly, Typed, ControlTyped
  <2>5. FlagsTyped'
    BY <1>1 DEF StreamSeekRequest, SourceGoes, SourceOnly, Typed, FlagsTyped
  <2>6. QED
    BY <2>1, <2>2, <2>3, <2>4, <2>5 DEF Typed
<1>3. QueueInv'
  <2>1. NoFlushComes
    BY NothingComes DEF StreamSeekRequest, SourceGoes, SourceOnly, rvars, qvars
  <2>2. Told'
    BY <1>1, <2>1
       DEF StreamSeekRequest, SourceGoes, SourceOnly, rvars, Typed, QueueTyped, QueueInv,
           Told, NoFlushComes, Closing, qvars
  <2>3. QED
    BY <1>1, <2>1, <2>2, SourceFrame DEF StreamSeekRequest, SourceGoes, SourceOnly, rvars
<1>4. Budget'
  <2>1. spc[s] = "request" /\ spc = [t \in Tracks |-> spc[t]] /\ reqGen' = reqGen + 1
        /\ spc' = [spc EXCEPT ![s] = "get"]
    BY <1>1 DEF StreamSeekRequest, SourceGoes, SourceOnly, Typed, SourceTyped
  <2>2. Seekers' = Seekers \ {s} /\ s \in Seekers
    BY <2>1 DEF Seekers, SeekPlaces
  <2>3. Cardinality(Seekers \ {s}) = Cardinality(Seekers) - 1 /\ Cardinality(Seekers) \in Nat
    BY <1>1, <2>2, SeekerCounts, SeekersFinite
  <2>4. QED
    BY <1>1, <2>1, <2>2, <2>3, ExtractorAssumption DEF Budget, Typed, SeekTyped
<1>5. SeekInv'
  <2>1. /\ spc[s] = "request" /\ spc' = [spc EXCEPT ![s] = "get"] /\ spc = [t \in Tracks |-> spc[t]]
        /\ mSeekReq' /\ reqGen' = reqGen + 1 /\ reqGen \in Nat /\ seeking' = seeking \cup {s}
        /\ UNCHANGED <<rpc, fileGen, queue, pkt, want, ctl, failed, lost, overlap>>
    BY <1>1
       DEF StreamSeekRequest, SourceGoes, SourceOnly, rvars, qvars, Typed, SourceTyped,
           SeekTyped
  <2>2. want[s] = reqGen + 1 /\ \A t \in Tracks \ {s} : ~Asks(t)
    BY <1>1, <2>1 DEF SeekInv, Locked, Asks
  <2>3. ~overlap => \A t \in Tracks \ {s} : want[t] = 0
    BY <1>1, <2>1, <2>2 DEF SeekInv, Wanted
  <2>4. Calm => rpc \in Closing \/ rpc \notin Serving
    BY <1>1, <2>1, NobodyAsks DEF Typed, Asks, SeekInv, Unserved
  <2>5. Calm => NoFlush(queue[s])
    BY <1>1, <2>1 DEF SeekInv, Emptied
  <2>6. Locked'
    BY <1>1, <2>1, <2>2, ExtractorAssumption
       DEF SeekInv, Locked, Asks, NoOne, StreamSeekRequest, SourceOnly
  <2>7. Wanted'
    BY <1>1, <2>1, <2>2, <2>3 DEF SeekInv, Wanted, Asks
  <2>8. Unserved'
    BY <1>1, <2>1, <2>2, <2>5 DEF Unserved, Waits, Calm
  <2>9. FileIsThere' /\ Emptied' /\ Returned' /\ (lost' => overlap')
    BY <1>1, <2>1, <2>4 DEF SeekInv, FileIsThere, Emptied, Returned, Calm, Serving, Closing
  <2>10. Honours'
    BY <2>1, <2>3, <2>5 DEF Honours, Calm, NoFlush, FlushesOf
  <2>11. QED
    BY <2>6, <2>7, <2>8, <2>9, <2>10 DEF SeekInv
<1>6. QED
  BY <1>2, <1>3, <1>4, <1>5 DEF IInv

\* A packet is taken.  A seeking read takes only the flush packet of its seek
\* as one, and then only packets of that seek.
LEMMA SourceTakes ==
  ASSUME IInv, NEW s \in Tracks, PacketQueueGet(s)
  PROVE  IInv'
<1>1. Typed /\ QueueInv /\ Budget /\ SeekInv
  BY DEF IInv
<1>2. /\ UNCHANGED <<rpc, rpkt, filePos, fileGen, mSeekReq, mSeekPos, mEOF2, reqGen, overlap, lost>>
      /\ UNCHANGED <<mExtractorLock, ctl, failed, want, mAbortRequest, stopped, EOSReceived>>
      /\ UNCHANGED <<abort_request, StreamIdx>> /\ spc[s] = "get"
  BY DEF PacketQueueGet, SourceOnly, rvars, seekvars
<1>3. Typed'
  BY <1>1, <1>2, GetTyped
     DEF Typed, ReaderTyped, Closing, SeekTyped, ControlTyped, FlagsTyped
<1>4. QueueInv'
  <2>1. NoFlushComes
    BY <1>1, PacketGoes
  <2>2. Told'
    BY <1>1, <1>2, <2>1 DEF QueueInv, Told, NoFlushComes, Closing
  <2>3. QED
    BY <1>1, <1>2, <2>1, <2>2, SourceFrame DEF rvars
<1> DEFINE p == Head(queue[s])
\* What happens to the source.
<1>5. /\ \A t \in Tracks \ {s} : /\ spc'[t] = spc[t] /\ pkt'[t] = pkt[t] /\ queue'[t] = queue[t]
                                 /\ t \in seeking' <=> t \in seeking
      /\ \/ s \in abort_request /\ spc'[s] = "eos"
         \/ /\ queue[s] # << >> /\ queue'[s] = Tail(queue[s])
            /\ s \in seeking' <=> s \in seeking /\ p.kind # "flush"
            /\ \/ spc'[s] = "eos" /\ p.kind = "eos" /\ s \notin seeking
               \/ spc'[s] = "return" /\ p.kind = "data" /\ s \notin seeking /\ pkt'[s] = p
               \/ spc'[s] = "get"
  <2>1. /\ spc = [t \in Tracks |-> spc[t]] /\ pkt = [t \in Tracks |-> pkt[t]]
        /\ queue = [t \in Tracks |-> queue[t]]
    BY <1>1 DEF Typed, SourceTyped, QueueTyped
  <2>2. \A t \in Tracks \ {s} : queue'[t] = queue[t]
    BY <1>1, PacketGoes
  <2>3. \/ /\ s \in abort_request /\ spc' = [spc EXCEPT ![s] = "eos"]
           /\ UNCHANGED <<queue, seeking, pkt>>
        \/ /\ queue[s] # << >> /\ queue' = [queue EXCEPT ![s] = Tail(@)]
           /\ seeking' = IF p.kind = "flush" THEN seeking \ {s} ELSE seeking
           /\ \/ /\ spc' = [spc EXCEPT ![s] = "eos"] /\ p.kind = "eos" /\ s \notin seeking
                 /\ pkt' = pkt
              \/ /\ spc' = [spc EXCEPT ![s] = "return"] /\ p.kind = "data" /\ s \notin seeking
                 /\ pkt' = [pkt EXCEPT ![s] = p]
              \/ spc' = spc /\ pkt' = pkt
    BY <1>1, GetOutcome
  <2> HIDE DEF p
  <2>4. QED
    BY <1>2, <2>1, <2>2, <2>3
\* What the packet is.
<1>6. queue[s] # << >> =>
        /\ NoFlush(queue[s]) => p.kind # "flush" /\ NoFlush(Tail(queue[s]))
        /\ \A g : FlushesOf(queue[s], g) =>
                    FlushesOf(Tail(queue[s]), g) /\ (p.kind = "flush" => p.gen = g)
        /\ \A g : DataOf(queue[s], g) => DataOf(Tail(queue[s]), g) /\ (p.kind = "data" => p.gen = g)
        /\ p.kind = "flush" => DataOf(Tail(queue[s]), p.gen)
  <2>1. queue[s] \in Seq(Packets) /\ Separate(queue[s])
    BY <1>1 DEF Typed, QueueTyped, QueueInv
  <2>2. QED
    BY <2>1, TakenFromFront
<1>7. queue[s] # << >> => p \in Packets
  BY <1>1, TakenFromFront DEF Typed, QueueTyped
<1> HIDE DEF p
<1>8. Budget'
  <2>1. Seekers' = Seekers
    BY <1>2, <1>5 DEF Seekers, SeekPlaces
  <2>2. QED
    BY <1>1, <1>2, <2>1 DEF Budget
<1>9. SeekInv'
  <2>1. (Locked /\ Wanted /\ FileIsThere /\ (lost => overlap))'
    BY <1>1, <1>2, <1>5 DEF SeekInv, Locked, Wanted, FileIsThere, Asks, Calm
  <2>2. Emptied'
    <3>1. NoFlushComes
      BY <1>1, PacketGoes
    <3>2. \A t \in Tracks : spc'[t] \in {"request", "flushV"} => spc'[t] = spc[t]
      BY <1>5
    <3>3. QED
      BY <1>1, <1>2, <3>1, <3>2 DEF SeekInv, Emptied, NoFlushComes, Calm
  <2>3. Unserved'
    <3>1. ASSUME Calm, mSeekReq, rpc \notin Closing
          PROVE  \E t \in Tracks : Waits(t)'
      <4>1. PICK t \in Tracks : Waits(t)
        BY <1>1, <3>1 DEF SeekInv, Unserved
      <4>2. CASE t # s
        BY <1>2, <1>5, <4>1, <4>2 DEF Waits, Served
      <4>3. CASE t = s
        <5>1. s \notin abort_request
          BY <1>1, <3>1 DEF QueueInv, Told
        <5>2. CASE s \in seeking /\ NoFlush(queue[s])
          <6>1. p.kind # "flush" /\ NoFlush(queue'[s])
            BY <1>5, <1>6, <5>1, <5>2
          <6>2. QED
            BY <1>2, <1>5, <4>1, <4>3, <5>1, <5>2, <6>1 DEF Waits
        <5>3. CASE Served(s) /\ s \in seeking /\ queue[s] = <<FlushPkt(reqGen)>>
          <6>1. p = FlushPkt(reqGen) /\ p.kind = "flush" /\ Tail(queue[s]) = << >>
            BY <5>3, FreshQueues, PacketKinds DEF p
          <6>2. Served(s)'
            BY <1>2, <5>3 DEF Served
          <6>3. QED
            BY <1>2, <1>5, <4>1, <4>3, <5>1, <5>3, <6>1, <6>2 DEF Waits
        <5>4. CASE Served(s) /\ s \notin seeking /\ queue[s] = << >>
          BY <1>5, <5>1, <5>4
        <5>5. QED
          BY <4>1, <4>3, <5>2, <5>3, <5>4 DEF Waits
      <4>4. QED
        BY <4>2, <4>3
    <3>2. QED
      BY <1>1, <1>2, <3>1 DEF SeekInv, Unserved, Calm
  <2>4. Honours'
    <3>1. Calm /\ spc'[s] = "get" /\ want[s] # 0 =>
            IF s \in seeking' THEN FlushesOf(queue'[s], reqGen)
                              ELSE fileGen = reqGen /\ DataOf(queue'[s], reqGen)
      <4>1. SUFFICES ASSUME Calm, spc'[s] = "get", want[s] # 0
                     PROVE  IF s \in seeking' THEN FlushesOf(queue'[s], reqGen)
                            ELSE fileGen = reqGen /\ DataOf(queue'[s], reqGen)
        OBVIOUS
      <4>2. CASE s \notin seeking
        BY <1>1, <1>2, <1>5, <1>6, <4>1, <4>2 DEF SeekInv, Honours
      <4>3. CASE s \in seeking /\ p.kind # "flush"
        BY <1>1, <1>2, <1>5, <1>6, <4>1, <4>3 DEF SeekInv, Honours
      <4>4. CASE s \in seeking /\ p.kind = "flush"
        <5>1. queue[s] # << >> /\ queue'[s] = Tail(queue[s]) /\ s \notin seeking'
          BY <1>5, <4>1, <4>4
        <5>2. p.gen = reqGen
          BY <1>1, <1>2, <1>6, <4>1, <4>4, <5>1 DEF SeekInv, Honours
        <5>3. fileGen = reqGen
          <6>1. CASE rpc \in {"flushA", "flushV"}
            BY <1>1, <4>1, <6>1 DEF SeekInv, FileIsThere
          <6>2. CASE rpc \notin {"flushA", "flushV"}
            BY <1>1, <1>6, <4>4, <5>1, <5>2, <6>2 DEF QueueInv, FlushGen, PlaceOf
          <6>3. QED
            BY <6>1, <6>2
        <5>4. QED
          BY <1>6, <4>4, <5>1, <5>2, <5>3
      <4>5. QED
        BY <4>2, <4>3, <4>4
    <3>2. \A t \in Tracks \ {s} : Calm /\ want[t] # 0 /\ spc'[t] = "get" =>
            IF t \in seeking' THEN FlushesOf(queue'[t], reqGen)
                              ELSE fileGen = reqGen /\ DataOf(queue'[t], reqGen)
      BY <1>1, <1>5 DEF SeekInv, Honours
    <3>3. QED
      BY <1>2, <3>1, <3>2 DEF Honours, Calm
  <2>5. Returned'
    <3>1. Calm /\ spc'[s] = "return" => pkt'[s].gen >= want[s]
      <4>1. SUFFICES ASSUME Calm, spc'[s] = "return"
                     PROVE  pkt'[s].gen >= want[s]
        OBVIOUS
      <4>2. queue[s] # << >> /\ p.kind = "data" /\ s \notin seeking /\ pkt'[s] = p
        BY <1>5, <4>1
      <4>3. p.gen \in Nat /\ want[s] \in Nat /\ reqGen \in Nat
        BY <1>1, <1>7, <4>2, PacketTypes, ExtractorAssumption DEF Typed, SeekTyped
      <4>4. want[s] # 0 => p.gen = reqGen /\ want[s] = reqGen
        BY <1>1, <1>2, <1>6, <4>1, <4>2 DEF SeekInv, Honours, Wanted, Asks, Calm
      <4>5. QED
        BY <4>2, <4>3, <4>4
    <3>2. \A t \in Tracks \ {s} : Calm /\ spc'[t] = "return" => pkt'[t].gen >= want[t]
      BY <1>1, <1>5 DEF SeekInv, Returned
    <3>3. QED
      BY <1>2, <3>1, <3>2 DEF Returned, Calm
  <2>6. QED
    BY <2>1, <2>2, <2>3, <2>4, <2>5 DEF SeekInv
<1>10. QED
  BY <1>3, <1>4, <1>8, <1>9 DEF IInv

\* A read returns, with a packet or the end, and its seek is over.
LEMMA SourceReturns ==
  ASSUME IInv, NEW s \in Tracks, ReachedEOS(s) \/ ReadReturns(s)
  PROVE  IInv'
<1>1. Typed /\ QueueInv /\ Budget /\ SeekInv
  BY DEF IInv
<1>2. /\ spc[s] \in {"eos", "return"} /\ Returns(s) /\ SourceOnly
      /\ UNCHANGED <<qvars, seekvars, mExtractorLock, mNeedStartKey, mFirstKeyPktTimestamp>>
  BY DEF ReachedEOS, ReadReturns
<1>3. Typed'
  <2>1. SourceTyped'
    BY <1>1, <1>2, PacketTypes DEF Returns, SourceGoes, Typed, SourceTyped
  <2>2. EOSReceived' \in [Tracks -> BOOLEAN]
    BY <1>1 DEF ReachedEOS, ReadReturns, Typed, FlagsTyped
  <2>3. FlagsTyped'
    BY <1>1, <1>2, <2>2 DEF SourceOnly, Typed, FlagsTyped, seekvars
  <2>4. (ReaderTyped /\ QueueTyped /\ ControlTyped)'
    BY <1>1, <1>2
       DEF SourceOnly, Typed, ReaderTyped, Closing, QueueTyped, ControlTyped, rvars, qvars
  <2>5. SeekTyped'
    BY <1>1, <1>2, ExtractorAssumption DEF Returns, Typed, SeekTyped, seekvars
  <2>6. QED
    BY <2>1, <2>3, <2>4, <2>5 DEF Typed
<1>4. /\ \A t \in Tracks \ {s} : /\ spc'[t] = spc[t] /\ pkt'[t] = pkt[t] /\ want'[t] = want[t]
                                 /\ t \in seeking' <=> t \in seeking
      /\ spc'[s] = "idle" /\ want'[s] = 0
      /\ UNCHANGED <<rpc, rpkt, fileGen, queue, abort_request, StreamIdx>>
      /\ UNCHANGED <<mSeekReq, reqGen, overlap, lost, failed, mExtractorLock, ctl>>
  BY <1>1, <1>2
     DEF Returns, SourceGoes, SourceOnly, Typed, SourceTyped, SeekTyped, rvars, qvars, seekvars
<1>5. QueueInv'
  <2>1. NoFlushComes
    BY <1>4, NothingComes
  <2>2. Told'
    BY <1>1, <1>4 DEF QueueInv, Told, Closing
  <2>3. QED
    BY <1>1, <1>2, <2>1, <2>2, SourceFrame DEF SourceOnly
<1>6. Budget'
  <2>1. Seekers' = Seekers
    BY <1>2, <1>4 DEF Seekers, SeekPlaces
  <2>2. QED
    BY <1>1, <1>4, <2>1 DEF Budget
<1>7. SeekInv'
  <2>1. (Locked /\ Wanted /\ FileIsThere /\ (lost => overlap))'
    BY <1>1, <1>2, <1>4 DEF SeekInv, Locked, Wanted, FileIsThere, Asks, Calm
  <2>2. (Emptied /\ Honours /\ Returned)'
    BY <1>1, <1>4 DEF SeekInv, Emptied, Honours, Returned, Calm
  <2>3. Unserved'
    <3>1. \A t \in Tracks : Waits(t) => Waits(t)'
      BY <1>2, <1>4 DEF Waits, Served
    <3>2. QED
      BY <1>1, <1>4, <3>1 DEF SeekInv, Unserved, Calm
  <2>4. QED
    BY <2>1, <2>2, <2>3 DEF SeekInv
<1>8. QED
  BY <1>3, <1>5, <1>6, <1>7 DEF IInv

-----------------------------------------------------------------------------
(* The control thread, and all steps.                                        *)

\* stop takes mExtractorLock, which no seeking source holds then.
LEMMA Stops ==
  ASSUME IInv, (\E s \in Tracks \cup {"extractor"} : Stop(s)) \/ StopReaderThread \/ Join
  PROVE  IInv'
<1>1. Typed /\ QueueInv /\ Budget /\ SeekInv /\ ControlOnly
  BY DEF IInv, Stop, StopReaderThread, Join
<1>2. /\ mAbortRequest' \in BOOLEAN /\ stopped' \subseteq Tracks \cup {"extractor"}
      /\ mExtractorLock' \in Tracks \cup {NoOne, "stop"}
      /\ ctl' \in [at : {"idle", "lock", "join"}, of : Tracks \cup {"extractor", NoOne}]
      /\ ctl'.at # "idle" => ctl'.of # NoOne
      /\ Locked'
  <2>1. Locked /\ ControlTyped /\ FlagsTyped /\ UNCHANGED <<spc, want, reqGen>>
    BY <1>1 DEF SeekInv, Typed, ControlOnly, svars, seekvars
  <2>2. CASE \E s \in Tracks \cup {"extractor"} : Stop(s)
    BY <2>1, <2>2, ExtractorAssumption DEF Stop, Locked, Asks, ControlTyped, FlagsTyped, NoOne
  <2>3. CASE StopReaderThread /\ stopped = {}
    <3>1. /\ ctl' = [at |-> "join", of |-> ctl.of]
          /\ mExtractorLock' = "stop" /\ mExtractorLock = NoOne
          /\ mAbortRequest' = TRUE /\ stopped' = stopped /\ ctl.of # NoOne
          /\ ctl.of \in Tracks \cup {"extractor", NoOne}
      BY <2>1, <2>3 DEF StopReaderThread, ControlTyped
    <3>2. \A s \in Tracks : ~Asks(s)
      BY <2>1, <3>1, ExtractorAssumption DEF Locked, NoOne
    <3>3. Locked'
      BY <2>1, <3>1, <3>2 DEF Locked, Asks
    <3>4. QED
      BY <2>1, <3>1, <3>3 DEF ControlTyped
  <2>4. CASE StopReaderThread /\ stopped # {}
    <3>1. /\ ctl.of \in Tracks \cup {"extractor"}
          /\ ctl' = [at |-> "idle", of |-> NoOne] /\ stopped' = stopped \cup {ctl.of}
          /\ UNCHANGED <<mAbortRequest, mExtractorLock>>
      BY <2>1, <2>4 DEF StopReaderThread, ControlTyped
    <3>2. QED
      BY <2>1, <3>1 DEF Locked, Asks, ControlTyped, FlagsTyped
  <2>5. CASE Join
    <3>1. /\ ctl.of \in Tracks \cup {"extractor"}
          /\ ctl' = [at |-> "idle", of |-> NoOne] /\ stopped' = stopped \cup {ctl.of}
          /\ mExtractorLock' = NoOne /\ mExtractorLock = "stop" /\ UNCHANGED mAbortRequest
      BY <2>1, <2>5 DEF Join, Locked, ControlTyped
    <3>2. \A s \in Tracks : ~Asks(s)
      BY <2>1, <3>1, ExtractorAssumption DEF Locked
    <3>3. QED
      BY <2>1, <3>1, <3>2 DEF Locked, Asks, ControlTyped, FlagsTyped
  <2>6. QED
    BY <2>2, <2>3, <2>4, <2>5
<1>3. Typed'
  BY <1>1, <1>2
     DEF ControlOnly, Typed, ReaderTyped, Closing, QueueTyped, SourceTyped, SeekTyped, ControlTyped,
         FlagsTyped, rvars, qvars, svars, seekvars
<1>4. QueueInv'
  <2>1. NoFlushComes
    BY <1>1, NothingComes DEF ControlOnly, qvars
  <2>2. Told'
    BY <1>1 DEF ControlOnly, QueueInv, Told, Closing, rvars, qvars
  <2>3. QED
    BY <1>1, <2>1, <2>2, SourceFrame DEF ControlOnly
<1>5. Budget' /\ SeekInv'
  BY <1>1, <1>2, BudgetKept, SeekUntouched DEF ControlOnly, rvars, qvars, svars, seekvars
<1>6. QED
  BY <1>3, <1>4, <1>5 DEF IInv

\* Before the reader starts the invariant holds.
LEMMA InitIInv == Init => IInv
<1> SUFFICES ASSUME Init
             PROVE  IInv
  OBVIOUS
<1>1. Typed
  <2>1. /\ queue \in [Tracks -> Seq(Packets)]
        /\ abort_request \subseteq Tracks /\ StreamIdx \subseteq Tracks
    <3>1. <<FlushPkt(0)>> \in Seq(Packets)
      BY PacketTypes, ExtractorAssumption
    <3>2. QED
      BY <3>1 DEF Init
  <2>2. ReaderTyped /\ SourceTyped /\ SeekTyped
    BY PacketTypes, ExtractorAssumption
       DEF Init, ReaderTyped, SourceTyped, SeekTyped, Positions
  <2>3. ControlTyped /\ FlagsTyped
    BY DEF Init, ControlTyped, FlagsTyped
  <2>4. QED
    BY <2>1, <2>2, <2>3 DEF Typed, QueueTyped
<1>2. QueueInv
  BY FreshQueues DEF Init, QueueInv, Told, FlushGen, PlaceOf, Closing
<1>3. Budget
  <2>1. Seekers = {}
    BY DEF Init, Seekers, SeekPlaces
  <2>2. Cardinality({}) = 0
    BY FS_EmptySet
  <2>3. QED
    BY <2>1, <2>2, ExtractorAssumption DEF Init, Budget
<1>4. SeekInv
  BY DEF Init, SeekInv, Locked, Wanted, Unserved, FileIsThere, Emptied, Honours, Returned, Asks,
         Calm, Serving
<1>5. QED
  BY <1>1, <1>2, <1>3, <1>4 DEF IInv

\* Every step of the reader, of a source and of stop keeps the invariant.
LEMMA NextIInv == IInv /\ [Next]_vars => IInv'
<1> SUFFICES ASSUME IInv, [Next]_vars
             PROVE  IInv'
  OBVIOUS
<1>1. CASE readerEntry
  BY <1>1, Starts, Loop, FileSeeks, FlushesAudio, FlushesVideo, ClearsSeek, PutsVideoEos,
     PutsAudioEos, TestsEnd, ReadsFrame, PutsData, AfterFailure, AbortsAudio, ClosesAudio,
     AbortsVideo, ClosesVideo
     DEF readerEntry
<1>2. ASSUME NEW s \in Tracks, Read(s) \/ SourceSteps(s)
      PROVE  IInv'
  BY <1>2, SourceReads, SeekBegins, SeekEmptiesAudio, SeekEmptiesVideo, SeekRequests, SourceTakes,
     SourceReturns
     DEF SourceSteps
<1>3. CASE (\E s \in Tracks \cup {"extractor"} : Stop(s)) \/ StopReaderThread \/ Join
  BY <1>3, Stops
<1>4. CASE UNCHANGED vars
  <2>1. /\ UNCHANGED <<rpc, rpkt, filePos, fileGen, queue, abort_request, StreamIdx, spc, seeking>>
        /\ UNCHANGED <<waitKeyPkt, mNeedStartKey, mFirstKeyPktTimestamp, pkt, want, mSeekReq>>
        /\ UNCHANGED <<mSeekPos, mEOF2, reqGen, overlap, lost, mAbortRequest, EOSReceived>>
        /\ UNCHANGED <<mExtractorLock, ctl, stopped, failed>>
    BY <1>4 DEF vars, rvars, qvars, svars, seekvars
  <2>2. Typed'
    BY <2>1 DEF IInv, Typed, ReaderTyped, Closing, QueueTyped, SourceTyped, SeekTyped, ControlTyped,
                FlagsTyped
  <2>3. QueueInv'
    BY <2>1 DEF IInv, QueueInv, Told, FlushGen, Closing
  <2>4. Budget' /\ Locked'
    BY <2>1, BudgetKept DEF IInv, SeekInv, Locked, Asks
  <2>5. SeekInv'
    BY <2>1, <2>4, SeekUntouched DEF svars
  <2>6. QED
    BY <2>2, <2>3, <2>4, <2>5 DEF IInv
<1>5. QED
  BY <1>1, <1>2, <1>3, <1>4 DEF Next

\* The invariant holds in every state.
LEMMA Invariance == Spec => []IInv
<1>1. QED
  BY InitIInv, NextIInv, PTL DEF Spec

-----------------------------------------------------------------------------
(* What follows.                                                             *)

\* The types: no generation passes the bound, no position leaves the file.
THEOREM TypeCorrect == Spec => []TypeOK
<1>1. IInv => TypeOK
  <2> SUFFICES ASSUME Typed
               PROVE  TypeOK
    BY DEF IInv
  <2>1. rpc \in {"start", "loop", "seek", "flushA", "flushV", "clear", "eosV", "eosA",
                 "eosTest", "read", "put", "wait", "closeA", "waitA", "closeV", "waitV", "dead"}
    BY DEF Typed, ReaderTyped, Closing
  <2>2. QED
    BY <2>1 DEF TypeOK, Typed, ReaderTyped, QueueTyped, SourceTyped, SeekTyped,
               ControlTyped, FlagsTyped
<1>2. QED
  BY Invariance, <1>1, PTL

\* A reader that left readerEntry has aborted the queue of every track, so that
\* packet_queue_get returns to a source that comes later (stream_component_close).
THEOREM DeadReaderHasTold == Spec => []NobodyWaitsForDeadReader
<1>1. IInv => NobodyWaitsForDeadReader
  BY ExtractorAssumption
     DEF IInv, Typed, QueueTyped, QueueInv, Told, NobodyWaitsForDeadReader
<1>2. QED
  BY Invariance, <1>1, PTL

\* The data behind a flush packet of packet_queue_put is of that packet's seek.
THEOREM FlushPacketsSeparate == Spec => []FlushSeparates
<1>1. IInv => FlushSeparates
  <2> SUFFICES ASSUME IInv, NEW t \in Tracks
               PROVE  \A i, j \in DOMAIN queue[t] :
                        i < j /\ queue[t][i].kind = "flush" /\ queue[t][j].kind = "data"
                          => queue[t][j].gen = queue[t][i].gen
    BY DEF FlushSeparates
  <2>1. Separate(queue[t]) /\ DOMAIN queue[t] = 1..Len(queue[t])
    BY DEF IInv, QueueInv, Typed, QueueTyped
  <2>2. QED
    BY <2>1 DEF Separate
<1>2. QED
  BY Invariance, <1>1, PTL

\* A seeking read of FFMpegSource::read returns a packet of its seek, and no
\* request is cleared unserved, as long as one source seeks at a time.
THEOREM SeeksAreHonoured == Spec => []SeekIsHonoured
<1>1. IInv => SeekIsHonoured
  BY DEF IInv, Typed, FlagsTyped, SeekInv, Returned, Calm, SeekIsHonoured
<1>2. QED
  BY Invariance, <1>1, PTL
=============================================================================
