------------------------------ MODULE RtspServer ------------------------------
(***************************************************************************)
(* LocalRtspServer (rtsp_server.py), fed by RtpReceiver (rtp_receiver.py). *)
(*                                                                         *)
(* One server lives as long as the integration; go2rtc and Home Assistant's*)
(* stream worker connect to it, stay connected from one call to the next,  *)
(* are kicked, and come back.  Three tasks broadcast to whoever is         *)
(* registered: video packets with rewritten headers, audio packets or      *)
(* silence, and sender reports.  A new call resets the queues and rebases  *)
(* the video clock, never its counters.                                    *)
(*                                                                         *)
(* The coordinator's calls come in any order, and the receiver of an       *)
(* earlier call may still deliver packets when the next call has started:  *)
(* async_stop_video gives up the session before it stops it.               *)
(* UDP transport and the microphone's backchannel are left out.            *)
(***************************************************************************)
EXTENDS Integers, Sequences, FiniteSets, Functions

CONSTANTS
  Conns,          \* TCP connections; each is used once
  None,           \* Python's None
  TsMod,          \* an RTP timestamp is a number below this (2^32)
  NumMod,         \* a sequence number is a number below this (2^16)
  VideoRate, AudioRate,  \* ticks of the two clocks per second (90000, 8000)
  Discontinuity,  \* _AUDIO_DISCONTINUITY_S, in audio frames
  QueueSize,      \* maxsize of rtp_queue and of audio_queue
  Starts,         \* device timestamps a call may start from
  Steps,          \* moves of the device's clock from packet to packet, modulo TsMod
  MaxCalls, MaxResets,   \* bounds: calls, and resets by calls and renewals
  MaxVideo, MaxAudio,    \* bounds: packets the receivers deliver
  MaxTicks,       \* bound: times the clock moves on its own
  MaxEvents       \* bound: all of these but the calls, together

Half == TsMod \div 2  \* 0x80000000

ASSUME ConstantsAssumption ==
  /\ None \notin Conns \cup Nat
  /\ TsMod \in Nat /\ NumMod \in Nat /\ Half > 0 /\ NumMod > 1
  /\ VideoRate \in Nat /\ AudioRate \in Nat /\ AudioRate > 0
  /\ Discontinuity \in Nat \ {0} /\ QueueSize \in Nat
  /\ Starts \cup Steps \subseteq 0 .. TsMod - 1
  /\ {MaxCalls, MaxResets, MaxVideo, MaxAudio, MaxTicks, MaxEvents} \subseteq Nat

VARIABLES
  \* the server
  serving,   \* "up", then the step stop() has reached
  feeds,     \* the feed tasks that run
  active,    \* _active_clients, each of which comes from a PLAY of its own
  rtpQueue,  \* rtp_queue: device timestamp and call of each packet
  ready,     \* _ready_event
  reporting, \* _rtcp_sr_loop is past its only wait for _first_media_event
  \* its clocks
  videoSeq, audioSeq,  \* _video_seq, _audio_seq
  videoTs,   \* _video_ts_out
  offset,    \* _video_ts_offset
  lastDevice,\* _last_device_ts
  rebase,    \* _video_ts_rebase_pending
  audioTs,   \* _audio_ts
  lastAudio, \* _last_audio_send_ts
  silent,    \* periods since the last audio packet, None before the first
  packets,   \* _video_pkt_count and _audio_pkt_count, as packets # 0
  \* the connections
  conn,      \* where _handle_client is
  closing,   \* connections whose writer is closing
  tracks,    \* which tracks a connection has set up
  \* the calls
  calls,     \* how many calls there were
  resets,    \* how often the server was reset
  device,    \* the device's clock in each call
  \* bounds and history
  videos, audios, ticks,  \* packets sent by the receivers, payloads played, moves of the clock
  seen,      \* last video packet a client received
  heard,     \* last audio packet a client received
  primed,    \* the reset after which a client last got the parameter sets
  lastCall   \* the call of the last translated packet, None after a reset

serverVars == <<serving, feeds, active, ready, reporting>>
videoClock == <<videoTs, offset, lastDevice, rebase>>
audioClock == <<audioTs, lastAudio, silent>>
connVars == <<conn, closing, tracks>>
callVars == <<calls, resets, device>>
bounds == <<videos, audios, ticks>>
history == <<seen, heard, primed, lastCall>>
vars == <<serverVars, rtpQueue, videoSeq, audioSeq, videoClock, audioClock, packets,
          connVars, callVars, bounds, history>>

Tracks == {"video", "audio"}
Feeds == {"video", "audio", "report"}
Running == serving = "up"
Stamps == 0 .. TsMod - 1
WithinBound == videos + audios + ticks + resets < MaxEvents
Packet == [seq : 0 .. NumMod - 1, ts : Stamps]

ServerTypes ==
  /\ serving \in {"up", "cancelling", "closing", "down"}
  /\ feeds \subseteq Feeds /\ active \subseteq Conns /\ IsFiniteSet(active)
  /\ ready \in BOOLEAN /\ reporting \in BOOLEAN /\ packets \subseteq Tracks
  /\ conn \in [Conns -> {"none", "request", "streaming", "closed"}]
  /\ closing \subseteq Conns /\ tracks \in [Conns -> SUBSET Tracks]

ClockTypes ==
  /\ videoSeq \in 0 .. NumMod - 1 /\ audioSeq \in 0 .. NumMod - 1
  /\ videoTs \in Stamps /\ offset \in Stamps /\ lastDevice \in Stamps \cup {None}
  /\ rebase \in BOOLEAN /\ audioTs \in Stamps /\ lastAudio \in Stamps
  /\ silent \in Nat \cup {None}

CallTypes ==
  /\ rtpQueue \in Seq([call : 1 .. MaxCalls, ts : Stamps])
  /\ calls \in 0 .. MaxCalls /\ resets \in 0 .. MaxResets
  /\ device \in [1 .. MaxCalls -> Stamps]
  /\ videos \in 0 .. MaxVideo /\ audios \in 0 .. MaxAudio /\ ticks \in 0 .. MaxTicks

HistoryTypes ==
  /\ seen \in [Conns -> Packet \cup {None}] /\ heard \in [Conns -> Packet \cup {None}]
  /\ primed \in [Conns -> 0 .. MaxResets] /\ lastCall \in 1 .. MaxCalls \cup {None}

TypeOK == ServerTypes /\ ClockTypes /\ CallTypes /\ HistoryTypes

\* start(): sockets, server and feed tasks.
Init ==
  /\ serving = "up" /\ feeds = Feeds /\ active = {}
  /\ rtpQueue = <<>> /\ ready = FALSE /\ reporting = FALSE
  /\ videoSeq = 0 /\ audioSeq = 0
  /\ videoTs = 0 /\ offset = 0 /\ lastDevice = None /\ rebase = FALSE
  /\ audioTs = 0 /\ lastAudio = 0 /\ silent = None /\ packets = {}
  /\ conn = [c \in Conns |-> "none"] /\ closing = {} /\ tracks = [c \in Conns |-> {}]
  /\ calls = 0 /\ resets = 0 /\ device = [k \in 1 .. MaxCalls |-> 0]
  /\ videos = 0 /\ audios = 0 /\ ticks = 0
  /\ seen = [c \in Conns |-> None] /\ heard = [c \in Conns |-> None]
  /\ primed = [c \in Conns |-> 0] /\ lastCall = None
-----------------------------------------------------------------------------
(* Writing to clients *)

\* The registered clients with a track.
With(track) == {c \in active : track \in tracks[c]}

\* _broadcast_rtp and _broadcast_rtcp drop the clients whose writer is closing.
DropDead(track) == active' = active \ (With(track) \cap closing)

\* What a client has received of a track after packet p is broadcast on it.
Received(last, track, p) ==
  [c \in Conns |-> IF c \in With(track) \ closing THEN p ELSE last[c]]

\* _prime_client_with_parameter_sets for each of some clients in turn: SPS and PPS take
\* two sequence numbers of their own at the current video time.  The list has an order;
\* here the clients take their turns in any.
Prime(some, ts, since) ==
  LET clients == {c \in some : "video" \in tracks[c]}
      n == Cardinality(clients)
  IN /\ videoSeq' = (videoSeq + 2 * n) % NumMod
     /\ \E turn \in Bijection(clients, 1 .. n) :
          seen' = [c \in Conns |->
            IF c \in clients \ closing
            THEN [seq |-> (videoSeq + 2 * turn[c] - 1) % NumMod, ts |-> ts]
            ELSE seen[c]]
     /\ primed' = [c \in Conns |-> IF c \in clients THEN since ELSE primed[c]]
-----------------------------------------------------------------------------
(* Connections: _handle_client *)

\* A client connects and sets up the tracks it wants, both or only audio; OPTIONS,
\* DESCRIBE and SETUP change nothing else.  After stop() has begun the handler finds
\* _running false and closes.
Setup(c, wanted) ==
  /\ conn[c] = "none" /\ serving \in {"up", "cancelling"}
  /\ tracks' = [tracks EXCEPT ![c] = wanted]
  /\ IF Running
     THEN conn' = [conn EXCEPT ![c] = "request"] /\ UNCHANGED closing
     ELSE conn' = [conn EXCEPT ![c] = "closed"] /\ closing' = closing \cup {c}
  /\ UNCHANGED <<serverVars, rtpQueue, videoSeq, audioSeq, videoClock, audioClock, packets,
                 callVars, bounds, history>>

\* Mutant: a client is registered without a look at _running.
Play_AfterStop(c) ==
  /\ conn[c] = "request"
  /\ Prime({c}, videoTs, resets)
  /\ active' = active \cup {c}
  /\ conn' = [conn EXCEPT ![c] = "streaming"]
  /\ UNCHANGED <<serving, feeds, ready, reporting, rtpQueue, audioSeq, videoClock, audioClock,
                 packets, closing, tracks, callVars, bounds, heard, lastCall>>

\* PLAY, which follows a SETUP, registers and primes the client, then reads its
\* stream.  A PLAY that was on its way when stop() began leaves again at once:
\* _read_client_stream finds _running false.
Play(c) ==
  /\ conn[c] = "request"
  /\ Prime({c}, videoTs, resets)
  /\ IF Running
     THEN /\ active' = active \cup {c}
          /\ conn' = [conn EXCEPT ![c] = "streaming"]
          /\ UNCHANGED closing
     ELSE /\ conn' = [conn EXCEPT ![c] = "closed"] /\ closing' = closing \cup {c}
          /\ UNCHANGED active
  /\ UNCHANGED <<serving, feeds, ready, reporting, rtpQueue, audioSeq, videoClock, audioClock,
                 packets, tracks, callVars, bounds, heard, lastCall>>

\* The handler ends: TEARDOWN, end of stream, an error, or, in the request phase,
\* 30 s without a request.  While it streams, such a time-out only makes it look at
\* _running again, so only then does stop() end it.
HandlerEnds(c) ==
  /\ conn[c] \in {"request", "streaming"}
  /\ conn' = [conn EXCEPT ![c] = "closed"]
  /\ closing' = closing \cup {c}
  /\ active' = active \ {c}
  /\ UNCHANGED <<serving, feeds, ready, reporting, rtpQueue, videoSeq, audioSeq, videoClock,
                 audioClock, packets, tracks, callVars, bounds, history>>

\* The peer resets the connection; the handler does not know yet.
PeerLost(c) ==
  /\ conn[c] = "streaming" /\ c \notin closing
  /\ closing' = closing \cup {c}
  /\ UNCHANGED <<serverVars, rtpQueue, videoSeq, audioSeq, videoClock, audioClock, packets,
                 conn, tracks, callVars, bounds, history>>
-----------------------------------------------------------------------------
(* What the coordinator and the video session call *)

\* The audio clock in ticks of the video clock.
AudioClock90k == ((audioTs * VideoRate) \div AudioRate) % TsMod

\* Mutant: clients that stayed connected do not get the parameter sets again.
Reset_NotPrimed ==
  /\ resets < MaxResets /\ WithinBound /\ resets' = resets + 1
  /\ rtpQueue' = <<>> /\ rebase' = TRUE /\ packets' = {} /\ lastCall' = None
  /\ videoTs' = IF AudioClock90k > videoTs THEN AudioClock90k ELSE videoTs
  /\ UNCHANGED <<serverVars, videoSeq, audioSeq, offset, lastDevice, audioClock, connVars,
                 seen, heard, primed>>

\* Stale media goes, the video clock catches up with the audio clock, the next
\* packet rebases it; connected clients get the parameter sets again.  The counters
\* of packets start over, the sequence numbers never do.  (Clearing
\* _first_media_event has no effect: its only reader waits for it once.)
Reset ==
  /\ resets < MaxResets /\ WithinBound /\ resets' = resets + 1
  /\ rtpQueue' = <<>>
  /\ videoTs' = IF AudioClock90k > videoTs THEN AudioClock90k ELSE videoTs
  /\ rebase' = TRUE
  /\ packets' = {}
  /\ Prime(active, videoTs', resets')
  /\ lastCall' = None
  /\ UNCHANGED <<serverVars, audioSeq, offset, lastDevice, audioClock, connVars, heard>>

\* start() and start_inbound() reset the server and attach a receiver of their own.
NewCall ==
  /\ Running /\ calls < MaxCalls
  /\ calls' = calls + 1
  /\ \E ts \in Starts : device' = [device EXCEPT ![calls'] = ts]
  /\ Reset
  /\ UNCHANGED bounds

\* The renewal of a call resets the server and keeps the receiver; the device may
\* start its clock again.
Renewal ==
  /\ Running /\ calls > 0
  /\ \E ts \in Starts \cup {device[calls]} : device' = [device EXCEPT ![calls] = ts]
  /\ Reset
  /\ UNCHANGED <<calls, bounds>>

\* mark_ready() when a session is published.
MarkReady ==
  /\ Running /\ ~ready /\ calls > 0
  /\ ready' = TRUE
  /\ UNCHANGED <<serving, feeds, active, reporting, rtpQueue, videoSeq, audioSeq, videoClock,
                 audioClock, packets, connVars, callVars, bounds, history>>

\* mark_not_ready() and disconnect_clients() when one ends, or when a slow stop is
\* done only after the next was published.
DisconnectClients ==
  /\ active' = {}
  /\ closing' = closing \cup active

SessionEnds ==
  /\ Running /\ calls > 0
  /\ ready' = FALSE
  /\ DisconnectClients
  /\ UNCHANGED <<serving, feeds, reporting, rtpQueue, videoSeq, audioSeq, videoClock, audioClock,
                 packets, conn, tracks, callVars, bounds, history>>

\* stop() forgets the clients, cancels the feed tasks one after the other (one may
\* end by itself before), closes the listening socket and waits for the handlers
\* that are left.
StopBegins ==
  /\ Running
  /\ serving' = "cancelling" /\ active' = {}
  /\ UNCHANGED <<feeds, ready, reporting, rtpQueue, videoSeq, audioSeq, videoClock, audioClock,
                 packets, connVars, callVars, bounds, history>>

StopCancels ==
  /\ serving = "cancelling"
  /\ \/ /\ \E f \in feeds : feeds' = feeds \ {f}
        /\ UNCHANGED serving
     \/ feeds = {} /\ serving' = "closing" /\ UNCHANGED feeds
  /\ UNCHANGED <<active, ready, reporting, rtpQueue, videoSeq, audioSeq, videoClock, audioClock,
                 packets, connVars, callVars, bounds, history>>

StopReturns ==
  /\ serving = "closing"
  /\ \A c \in Conns : conn[c] \in {"none", "closed"}
  /\ serving' = "down"
  /\ UNCHANGED <<feeds, active, ready, reporting, rtpQueue, videoSeq, audioSeq, videoClock,
                 audioClock, packets, connVars, callVars, bounds, history>>
-----------------------------------------------------------------------------
(* The receivers and the clock *)

\* A video packet of call k: the next fragment of the same frame, a later frame, or
\* one that was overtaken.  The receiver of an earlier call may still run.  A full
\* queue drops the packet.
DeviceVideo(k, d) ==
  /\ Running /\ k \in 1 .. calls /\ videos < MaxVideo /\ WithinBound
  /\ videos' = videos + 1
  /\ device' = [device EXCEPT ![k] = (@ + d) % TsMod]
  /\ rtpQueue' = IF Len(rtpQueue) < QueueSize
                 THEN Append(rtpQueue, [call |-> k, ts |-> device'[k]]) ELSE rtpQueue
  /\ UNCHANGED <<serverVars, videoSeq, audioSeq, videoClock, audioClock, packets,
                 connVars, calls, resets, audios, ticks, history>>

\* A period of 20 ms passes, or a pause, since the last packet of the device.
Tick ==
  /\ Running /\ ticks < MaxTicks /\ WithinBound /\ silent # None
  /\ ticks' = ticks + 1
  /\ \E d \in {1, Discontinuity} : silent' = silent + d
  /\ UNCHANGED <<serverVars, rtpQueue, videoSeq, audioSeq, videoClock, audioTs, lastAudio,
                 packets, connVars, callVars, videos, audios, history>>
-----------------------------------------------------------------------------
(* The feed tasks *)

\* A task whose server has stopped ends after the packet it was waiting for.
FeedGoesOn(f) == feeds' = IF Running THEN feeds ELSE feeds \ {f}

\* Mutant: a packet that goes back is not rebased.
Translate_NoRebase(ts) ==
  /\ offset' = IF lastDevice = None \/ rebase THEN (videoTs + 1 - ts) % TsMod ELSE offset
  /\ videoTs' = (ts + offset') % TsMod
  /\ lastDevice' = ts /\ rebase' = FALSE

\* Mutant: the request to rebase is not taken back.
Translate_RebaseStays(ts) ==
  /\ offset' = IF lastDevice = None \/ rebase \/ (ts - lastDevice) % TsMod > Half
               THEN (videoTs + 1 - ts) % TsMod ELSE offset
  /\ videoTs' = (ts + offset') % TsMod
  /\ lastDevice' = ts /\ UNCHANGED rebase

\* _translate_video_ts
Translate(ts) ==
  LET forward == (ts - lastDevice) % TsMod
      fresh == lastDevice = None \/ rebase \/ forward > Half
  IN /\ offset' = IF fresh THEN (videoTs + 1 - ts) % TsMod ELSE offset
     /\ videoTs' = (ts + offset') % TsMod
     /\ lastDevice' = ts
     /\ rebase' = FALSE

\* _video_rtp_passthrough_loop
VideoFeed ==
  /\ "video" \in feeds /\ rtpQueue # <<>>
  /\ rtpQueue' = Tail(rtpQueue)
  /\ Translate(Head(rtpQueue).ts)
  /\ videoSeq' = (videoSeq + 1) % NumMod
  /\ seen' = Received(seen, "video", [seq |-> videoSeq, ts |-> videoTs'])
  /\ DropDead("video") /\ reporting' = TRUE
  /\ packets' = packets \cup {"video"}
  /\ lastCall' = Head(rtpQueue).call
  /\ FeedGoesOn("video")
  /\ UNCHANGED <<serving, ready, audioSeq, audioClock, connVars, callVars, bounds,
                 heard, primed>>

\* Mutant: a pause is noticed but the time that passed is not added.
Resumed_Stale == IF silent # None /\ silent >= Discontinuity THEN lastAudio ELSE audioTs

\* A long pause moves the clock by the time that has passed.
Resumed == IF silent # None /\ silent >= Discontinuity THEN (lastAudio + silent) % TsMod ELSE audioTs

\* _audio_feed_loop: a payload a receiver has queued, or silence between calls when
\* nothing came for 20 ms.  Which payload it is makes no difference, so audio_queue
\* is not kept.
AudioFeed ==
  /\ "audio" \in feeds
  /\ \/ calls > 0 /\ audios < MaxAudio /\ WithinBound /\ audios' = audios + 1
     \/ silent # 0 /\ ~ready /\ active # {} /\ UNCHANGED audios
  /\ audioSeq' = (audioSeq + 1) % NumMod
  /\ lastAudio' = Resumed /\ audioTs' = (Resumed + 1) % TsMod /\ silent' = 0
  /\ heard' = Received(heard, "audio", [seq |-> audioSeq, ts |-> Resumed])
  /\ DropDead("audio") /\ reporting' = TRUE
  /\ packets' = packets \cup {"audio"}
  /\ FeedGoesOn("audio")
  /\ UNCHANGED <<serving, ready, rtpQueue, videoSeq, videoClock, connVars, callVars, videos,
                 ticks, seen, primed, lastCall>>

\* _rtcp_sr_loop after its first wait: a report per track to every client.
ReportFeed ==
  /\ "report" \in feeds /\ reporting /\ active # {}
  /\ active' = active \ {c \in closing : tracks[c] # {}}
  /\ FeedGoesOn("report")
  /\ UNCHANGED <<serving, ready, reporting, rtpQueue, videoSeq, audioSeq, videoClock, audioClock,
                 packets, connVars, callVars, bounds, seen, heard, primed, lastCall>>
-----------------------------------------------------------------------------
ConnStep(c) ==
  \/ Play(c) \/ HandlerEnds(c) \/ PeerLost(c)
  \/ \E wanted \in {Tracks, {"audio"}} : Setup(c, wanted)

CallStep ==
  \/ NewCall \/ Renewal \/ MarkReady \/ SessionEnds
  \/ \E k \in 1 .. calls, d \in Steps : DeviceVideo(k, d)

StopStep == StopBegins \/ StopCancels \/ StopReturns

Next ==
  \/ \E c \in Conns : ConnStep(c)
  \/ CallStep \/ StopStep
  \/ VideoFeed \/ AudioFeed \/ ReportFeed
  \/ Tick

Spec == Init /\ [][Next]_vars
-----------------------------------------------------------------------------
(* Properties *)

\* Ahead(x, y, n): modulo n, x comes after y.
Ahead(x, y, n) == (x - y) % n \in 1 .. n \div 2

\* The audio clock is ahead of the video clock by half the range at most: 2^31 ticks, the
\* 6.6 hours a client may hear silence or speech while no video comes.
ClocksNear == AudioClock90k - videoTs <= Half

\* What a client that stays connected sees of the video track does not go back, over any
\* number of calls, restarts of the device's clock, packets out of order and packets of two
\* calls mixed: sequence numbers advance, timestamps do not retreat.  One step is excepted
\* from the latter, a reset while the audio clock is further ahead than ClocksNear: it does
\* send the client back, as ResetForward below shows.
VideoForward ==
  [][\A c \in Conns : seen'[c] # seen[c] /\ seen[c] # None
       => /\ Ahead(seen'[c].seq, seen[c].seq, NumMod)
          /\ ClocksNear \/ resets' = resets
               => seen'[c].ts = seen[c].ts \/ Ahead(seen'[c].ts, seen[c].ts, TsMod)]_vars

\* So does the audio track, over silence, calls and pauses, as long as no pause exceeds half
\* the range of its clock (74 h; the bounds allow none, the proof assumes it by name).
AudioForward ==
  [][\A c \in Conns : heard'[c] # heard[c] /\ heard[c] # None
       => /\ Ahead(heard'[c].seq, heard[c].seq, NumMod)
          /\ Ahead(heard'[c].ts, heard[c].ts, TsMod)]_vars

\* A client gets the parameter sets before the first video of each call, whether it
\* has just come or stayed connected since an earlier call.
PrimedFirst ==
  [][\A c \in Conns : seen'[c] # seen[c] => primed'[c] = resets']_vars

\* From one packet of a call to the next the video clock moves as the device's
\* clock does, unless the device went back or the server was reset in between.
PaceKept ==
  [][lastCall # None /\ lastCall' = lastCall /\ rtpQueue # <<>> /\ rtpQueue' = Tail(rtpQueue)
       => LET moved == (Head(rtpQueue).ts - lastDevice) % TsMod
          IN moved <= Half => (videoTs' - videoTs) % TsMod = moved]_vars

\* A client whose stream is open is registered, nobody else is, and nobody is when the
\* server has stopped, whatever disconnect_clients, the broadcasts and the handlers
\* removed before.
StreamsServed ==
  /\ active \subseteq {c \in Conns : conn[c] = "streaming"}
  /\ IF Running
     THEN {c \in Conns : conn[c] = "streaming"} \ closing \subseteq active
     ELSE active = {}
-----------------------------------------------------------------------------
(* What comments of the source say and the code does not keep *)

\* "NEVER resets RTP sequence/timestamp counters ... any backwards jump causes a
\* Timestamp discontinuity error" (reset()): what a reset sends to a client that
\* stayed connected does not lie behind what it sent before.  The clocks are compared
\* as numbers where _translate_video_ts compares them modulo 2^32, so a reset goes back
\* when the audio clock is more than 2^31 ticks ahead: states the run reaches.
ResetForward ==
  [][\A c \in Conns : resets' # resets /\ seen'[c] # seen[c] /\ seen[c] # None
       => seen'[c].ts = seen[c].ts \/ Ahead(seen'[c].ts, seen[c].ts, TsMod)]_vars

\* "An SR advertising pkt_count=0 with rtp_ts=0 misleads ffmpeg's demuxer"
\* (_send_initial_sr_to_client): no report is sent of a stream that sent nothing.
NoEmptyReport ==
  "report" \in feeds /\ reporting
    => \A track \in Tracks \ packets : With(track) \subseteq closing
=============================================================================
