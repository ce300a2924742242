------------------------------ MODULE RtpReceiver ------------------------------
(***************************************************************************)
(* RtpReceiver (rtp_receiver.py): the media of one call.                   *)
(*                                                                         *)
(* Packets come by UDP or, routed by the session, by TCP; fragments of a   *)
(* NAL unit are lost, repeated and reordered on the way.  They are put     *)
(* together again and queued for the decode task, which hands JPEG frames  *)
(* to whoever waits for one.  In the other direction the sender task turns *)
(* the bursts of the microphone's backchannel into one frame per tick.     *)
(* stop() takes the tasks down one after the other, while packets still    *)
(* arrive and callers still wait.                                          *)
(*                                                                         *)
(* What RtspServer receives (the pass-through and the audio queue) is      *)
(* modelled there.  A task that was cancelled ends at its next step and    *)
(* does nothing more, as asyncio has it: the result of an executor job is  *)
(* then dropped.                                                           *)
(***************************************************************************)
EXTENDS Integers, Sequences, FiniteSets

CONSTANTS
  Nals,         \* fragmented NAL units; each has an RTP timestamp of its own
  Parts,        \* fragments of a NAL unit
  Waiters,      \* calls of get_jpeg_frame
  Senders,      \* tasks that start_audio_sender may create
  None,         \* Python's None
  Passthrough,  \* an RTSP server's rtp_queue is attached
  QueueSize,    \* maxsize of _nal_queue
  MaxErrors,    \* _MAX_CONSECUTIVE_ERRORS
  Frame,        \* units of microphone audio in a frame (160 bytes)
  Cap, Keep,    \* units above which the buffer is cut, and what it is cut to
  MicSize,      \* maxsize of backchannel_queue
  Bursts,       \* units that a packet of the backchannel may hold
  Bounds        \* bounds: what may happen in a behaviour, one record for each kind of behaviour

ASSUME ConstantsAssumption ==
  /\ None \notin Nals \cup Senders \cup {"keepalive", "decode"} /\ None \notin Nat
  /\ Senders \cap {"keepalive", "decode"} = {}
  /\ Passthrough \in BOOLEAN
  /\ {Parts, QueueSize, MaxErrors, Frame, Cap, Keep, MicSize} \subseteq Nat \ {0}
  /\ Parts > 1 /\ Keep <= Cap /\ Cap % Frame = 0
  /\ Bursts \subseteq Nat \ {0}
  /\ Bounds \subseteq [packets : Nat, fragments : BOOLEAN, media : BOOLEAN, frames : Nat,
                       calls : Nat, spoken : Nat, ticks : Nat, senders : Nat]

VARIABLES
  running,   \* _running
  open,      \* the UDP transport is open
  stopping,  \* where stop() is: "no", the task it waits for, "done"
  pc,        \* where each task is
  cancelled, \* tasks that were cancelled
  sender,    \* _audio_sender_task
  \* reassembly
  fua,       \* _current_fua_nal, as the fragments it was made of
  fuaTs,     \* _current_fua_ts, as the NAL unit whose timestamp it is
  queued,    \* length of _nal_queue
  firstVideo,\* _first_video_nal_event
  tcpLead,   \* _tcp_media_packet_count - _udp_media_packet_count
  \* frames
  errors,    \* consecutive_errors
  latest,    \* _latest_frame, as the number of the frame, or None
  event,     \* _frame_event
  waiter,    \* where each call of get_jpeg_frame is
  got,       \* what it returned
  \* the microphone
  attached,  \* _backchannel_queue is set
  mic,       \* backchannel_queue: the first unit of each packet, units numbered as spoken
  tx,        \* tx_buf of each sender
  \* bounds and history
  bound,     \* the member of Bounds that holds in this behaviour
  packets, frames, spoken, ticks,  \* packets received, frames decoded, units spoken, sender ticks
  clean,     \* the NAL unit of which the last fragments were parts 1 to upto, in order
  handed,    \* the last reassembled NAL unit handed to the queue
  since,     \* frames decoded when a waiter called
  spokeAt,   \* the tick since which a sender could have seen each unit
  said       \* units sent

taskVars == <<running, open, stopping, pc, cancelled, sender>>
nalVars == <<fua, fuaTs, queued, firstVideo, tcpLead, packets, clean, handed>>
frameVars == <<errors, latest, event, waiter, got, frames, since>>
micVars == <<attached, mic, tx, spoken, ticks, spokeAt, said>>
vars == <<taskVars, nalVars, frameVars, micVars, bound>>

Tasks == {"keepalive", "decode"} \cup Senders
Fragments == [nal : Nals, part : 1 .. Parts]
Live(t) == pc[t] \notin {"off", "ended"}
Whole(n) == [ts |-> n, parts |-> [i \in 1 .. Parts |-> [nal |-> n, part |-> i]]]

TypeOK ==
  /\ bound \in Bounds
  /\ running \in BOOLEAN /\ open \in BOOLEAN
  /\ stopping \in {"no", "keepalive", "decode", "sender", "done"}
  /\ pc \in [Tasks -> {"off", "loading", "ready", "busy", "ended"}]
  /\ cancelled \subseteq Tasks /\ sender \in Senders \cup {None}
  /\ fua \in Seq(Fragments) /\ fuaTs \in Nals \cup {None}
  /\ queued \in 0 .. QueueSize /\ firstVideo \in BOOLEAN /\ tcpLead \in -bound.packets .. bound.packets
  /\ errors \in 0 .. MaxErrors /\ latest \in 1 .. bound.frames \cup {None} /\ event \in BOOLEAN
  /\ waiter \in [Waiters -> {"idle", "waiting", "woken", "returned", "timed out"}]
  /\ got \in [Waiters -> 1 .. bound.frames \cup {None}]
  /\ attached \in BOOLEAN /\ mic \in Seq(1 .. bound.spoken) /\ Len(mic) <= MicSize
  /\ tx \in [Senders -> Seq(1 .. bound.spoken)] /\ \A s \in Senders : Len(tx[s]) < Cap
  /\ packets \in 0 .. bound.packets /\ frames \in 0 .. bound.frames
  /\ spoken \in 0 .. bound.spoken /\ ticks \in 0 .. bound.ticks
  /\ clean \in [nal : Nals \cup {None}, upto : 0 .. Parts]
  /\ since \in [Waiters -> 0 .. bound.frames]
  /\ Len(spokeAt) = spoken /\ said \in Seq(1 .. bound.spoken)

\* start_control() and start_keepalive(), which the session calls in one go.
Init ==
  /\ bound \in Bounds
  /\ running = TRUE /\ open = TRUE /\ stopping = "no"
  /\ pc = [t \in Tasks |-> IF t = "keepalive" THEN "ready" ELSE "off"]
  /\ cancelled = {} /\ sender = None
  /\ fua = <<>> /\ fuaTs = None /\ queued = 0 /\ firstVideo = FALSE /\ tcpLead = 0
  /\ errors = 0 /\ latest = None /\ event = FALSE
  /\ waiter = [w \in Waiters |-> "idle"] /\ got = [w \in Waiters |-> None]
  /\ attached = FALSE /\ mic = <<>> /\ tx = [s \in Senders |-> <<>>]
  /\ packets = 0 /\ frames = 0 /\ spoken = 0 /\ ticks = 0
  /\ clean = [nal |-> None, upto |-> 0] /\ handed = None
  /\ since = [w \in Waiters |-> 0] /\ spokeAt = <<>> /\ said = <<>>
-----------------------------------------------------------------------------
(* Packets: receive_tcp_rtp, _on_udp_packet, _process_rtp *)

\* A packet of the device reaches the receiver by TCP or by UDP.
Arrives(tcp) ==
  /\ IF tcp THEN running ELSE open
  /\ packets < bound.packets
  /\ packets' = packets + 1
  /\ tcpLead' = IF tcp THEN tcpLead + 1 ELSE tcpLead - 1

\* _queue_nal drops what does not fit; either way video has been seen.
QueueNal ==
  /\ queued' = IF queued < QueueSize THEN queued + 1 ELSE queued
  /\ firstVideo' = TRUE

\* The fragment last received, as part of a run of fragments in order.
Follows(f) ==
  clean' = IF f.part = 1 THEN [nal |-> f.nal, upto |-> 1]
           ELSE IF clean = [nal |-> f.nal, upto |-> f.part - 1]
           THEN [nal |-> f.nal, upto |-> f.part]
           ELSE [nal |-> None, upto |-> 0]

\* Mutant: a start fragment does not clear what an unfinished NAL unit left behind.
Reassembled_Keeps(f) ==
  IF f.part = 1 THEN [ts |-> f.nal, parts |-> Append(fua, f)]
  ELSE IF fua # <<>> THEN [ts |-> fuaTs, parts |-> Append(fua, f)]
  ELSE [ts |-> fuaTs, parts |-> fua]

\* _process_fua: a start fragment begins a new NAL unit, any other continues what
\* there is, whichever NAL unit it belongs to.
Reassembled(f) ==
  IF f.part = 1 THEN [ts |-> f.nal, parts |-> <<f>>]
  ELSE IF fua # <<>> THEN [ts |-> fuaTs, parts |-> Append(fua, f)]
  ELSE [ts |-> fuaTs, parts |-> fua]

\* A fragment of a NAL unit.  The one with the end bit hands it to the queue.
Fragment(tcp, f) ==
  LET item == Reassembled(f) IN
  /\ bound.fragments
  /\ Arrives(tcp)
  /\ Follows(f)
  /\ fuaTs' = item.ts
  /\ IF f.part = Parts /\ item.parts # <<>>
     THEN fua' = <<>> /\ handed' = item /\ QueueNal
     ELSE /\ fua' = item.parts /\ firstVideo' = (firstVideo \/ Passthrough)
          /\ UNCHANGED <<queued, handed>>
  /\ UNCHANGED <<bound, taskVars, frameVars, micVars>>

\* A NAL unit of one packet: parameter sets, small slices.
SingleNal(tcp) ==
  /\ Arrives(tcp) /\ QueueNal
  /\ UNCHANGED <<bound, fua, fuaTs, clean, handed, taskVars, frameVars, micVars>>

\* G.711 audio, which goes to the RTSP server only.
AudioPacket(tcp) ==
  /\ Arrives(tcp)
  /\ UNCHANGED <<bound, fua, fuaTs, queued, firstVideo, clean, handed, taskVars, frameVars, micVars>>
-----------------------------------------------------------------------------
(* Decoding: start_media, _decode_loop *)

\* A task goes on, unless it was cancelled; then CancelledError ends it.
Step(t, from, to) ==
  /\ pc[t] = from /\ t \notin cancelled
  /\ pc' = [pc EXCEPT ![t] = to]

\* The task reaches its while self._running.
Loop(t, from) == Step(t, from, IF running THEN "ready" ELSE "ended")

\* The keepalive loop, which sends and sleeps, always ends like this.
TaskCancelled(t) ==
  /\ t \in cancelled /\ Live(t)
  /\ pc' = [pc EXCEPT ![t] = "ended"]
  /\ UNCHANGED <<bound, running, open, stopping, cancelled, sender, nalVars, frameVars, micVars>>

\* start_media(), of a start that has not failed.
StartMedia ==
  /\ pc["decode"] = "off" /\ stopping = "no" /\ bound.media
  /\ pc' = [pc EXCEPT !["decode"] = "loading"]
  /\ UNCHANGED <<bound, running, open, stopping, cancelled, sender, nalVars, frameVars, micVars>>

\* PyAV is loaded in a thread.
CodecLoaded ==
  /\ Loop("decode", "loading")
  /\ UNCHANGED <<bound, running, open, stopping, cancelled, sender, nalVars, frameVars, micVars>>

\* There is no PyAV.
CodecMissing ==
  /\ Step("decode", "loading", "ended")
  /\ UNCHANGED <<bound, running, open, stopping, cancelled, sender, nalVars, frameVars, micVars>>

\* The task takes a NAL unit and gives it to a thread.
Decodes ==
  /\ queued > 0
  /\ Step("decode", "ready", "busy")
  /\ queued' = queued - 1
  /\ UNCHANGED <<bound, running, open, stopping, cancelled, sender, fua, fuaTs, firstVideo, tcpLead,
                 packets, clean, handed, frameVars, micVars>>

\* 2 s without a NAL unit: the task looks at _running again.
DecodeIdles ==
  /\ ~running /\ Loop("decode", "ready")
  /\ UNCHANGED <<bound, running, open, stopping, cancelled, sender, nalVars, frameVars, micVars>>

\* The thread returns n frames: the last one stays, the event wakes every waiter.
FramesDecoded(n) ==
  /\ frames + n <= bound.frames
  /\ Loop("decode", "busy")
  /\ errors' = 0
  /\ IF n = 0 THEN UNCHANGED <<frames, latest, event, waiter>>
     ELSE /\ frames' = frames + n /\ latest' = frames + n /\ event' = TRUE
          /\ waiter' = [w \in Waiters |-> IF waiter[w] = "waiting" THEN "woken" ELSE waiter[w]]
  /\ UNCHANGED <<bound, running, open, stopping, cancelled, sender, nalVars, micVars, got, since>>

\* Invalid data counts as no error; too many other errors in a row end the task.
DecodeFails ==
  /\ errors' = errors + 1
  /\ IF errors' = MaxErrors THEN Step("decode", "busy", "ended") ELSE Loop("decode", "busy")
  /\ UNCHANGED <<bound, running, open, stopping, cancelled, sender, nalVars, micVars,
                 latest, event, waiter, got, frames, since>>
-----------------------------------------------------------------------------
(* get_jpeg_frame, with the time-out its callers put on it *)

\* Mutant: a frame that is there already is returned at once.
GetFrame_Cached(w) ==
  /\ waiter[w] = "idle" /\ Cardinality({x \in Waiters : waiter[x] # "idle"}) < bound.calls
  /\ waiter' = [waiter EXCEPT ![w] = IF event THEN "woken" ELSE "waiting"]
  /\ since' = [since EXCEPT ![w] = frames]
  /\ UNCHANGED <<bound, event, errors, latest, got, frames, taskVars, nalVars, micVars>>

\* The event is cleared, then awaited.
GetFrame(w) ==
  /\ waiter[w] = "idle" /\ Cardinality({x \in Waiters : waiter[x] # "idle"}) < bound.calls
  /\ event' = FALSE
  /\ waiter' = [waiter EXCEPT ![w] = "waiting"]
  /\ since' = [since EXCEPT ![w] = frames]
  /\ UNCHANGED <<bound, errors, latest, got, frames, taskVars, nalVars, micVars>>

FrameReturned(w) ==
  /\ waiter[w] = "woken"
  /\ waiter' = [waiter EXCEPT ![w] = "returned"]
  /\ got' = [got EXCEPT ![w] = latest]
  /\ UNCHANGED <<bound, errors, latest, event, frames, since, taskVars, nalVars, micVars>>

\* camera.py then takes latest_frame, coordinator.py none.
FrameTimesOut(w) ==
  /\ waiter[w] = "waiting"
  /\ waiter' = [waiter EXCEPT ![w] = "timed out"]
  /\ UNCHANGED <<bound, errors, latest, event, got, frames, since, taskVars, nalVars, micVars>>
-----------------------------------------------------------------------------
(* The microphone: attach_backchannel_queue, start_audio_sender, _audio_send_loop *)

AttachBackchannel ==
  /\ ~attached /\ stopping = "no"
  /\ attached' = TRUE
  /\ spokeAt' = [i \in 1 .. spoken |-> ticks]
  /\ UNCHANGED <<bound, mic, tx, spoken, ticks, said, taskVars, nalVars, frameVars>>

\* The RTSP server queues a packet of n units; a full queue loses its oldest packet.
Speak(n) ==
  /\ spoken + n <= bound.spoken
  /\ spoken' = spoken + n
  /\ spokeAt' = spokeAt \o [i \in 1 .. n |-> ticks]
  /\ mic' = Append(IF Len(mic) = MicSize THEN Tail(mic) ELSE mic, spoken + 1)
  /\ UNCHANGED <<bound, attached, tx, ticks, said, taskVars, nalVars, frameVars>>

\* Mutant: nobody looks whether a sender runs.
StartAudioSender_Again(s) ==
  /\ pc[s] = "off" /\ stopping = "no" /\ Cardinality({x \in Senders : pc[x] # "off"}) < bound.senders
  /\ sender' = s
  /\ pc' = [pc EXCEPT ![s] = "ready"]
  /\ UNCHANGED <<bound, running, open, stopping, cancelled, nalVars, frameVars, micVars>>

\* One sender at a time.  An answer finds the receiver only before stop() is called:
\* the session lets go of it first.
StartAudioSender(s) ==
  /\ pc[s] = "off" /\ stopping = "no" /\ Cardinality({x \in Senders : pc[x] # "off"}) < bound.senders
  /\ ~(sender # None /\ Live(sender))
  /\ sender' = s
  /\ pc' = [pc EXCEPT ![s] = "ready"]
  /\ UNCHANGED <<bound, running, open, stopping, cancelled, nalVars, frameVars, micVars>>

\* The units in the queue: packets leave it at the front only, so they are the last ones
\* spoken.
FirstInMic == IF mic = <<>> THEN spoken + 1 ELSE Head(mic)
MicUnits == [i \in 1 .. spoken + 1 - FirstInMic |-> FirstInMic + i - 1]

\* Mutant: the buffer is never cut.
Drained_Uncut(s) == IF attached THEN tx[s] \o MicUnits ELSE tx[s]

\* The buffer with the whole queue, cut when it is too long.
Drained(s) ==
  LET all == tx[s] \o MicUnits
  IN IF ~attached THEN tx[s]
     ELSE IF Len(all) > Cap THEN SubSeq(all, Len(all) - Keep + 1, Len(all))
     ELSE all

\* One frame each tick, of microphone audio if there is enough and of silence if not.
\* It takes the transport that brought more packets; the TCP send is awaited and may
\* fail, which loses the frame.
SendFrame(s) ==
  LET buffer == Drained(s)
      n == IF Len(buffer) >= Frame THEN Frame ELSE 0
  IN /\ running /\ ticks < bound.ticks
     /\ Step(s, "ready", IF tcpLead > 0 THEN "busy" ELSE "ready")
     /\ mic' = IF attached THEN <<>> ELSE mic
     /\ tx' = [tx EXCEPT ![s] = SubSeq(buffer, n + 1, Len(buffer))]
     /\ said' = said \o SubSeq(buffer, 1, n)
     /\ ticks' = ticks + 1
     /\ UNCHANGED <<bound, running, open, stopping, cancelled, sender, nalVars, frameVars,
                    attached, spoken, spokeAt>>

\* The TCP send returned or raised.
FrameSent(s) ==
  /\ Step(s, "busy", "ready")
  /\ UNCHANGED <<bound, running, open, stopping, cancelled, sender, nalVars, frameVars, micVars>>

SenderEnds(s) ==
  /\ ~running /\ Loop(s, "ready")
  /\ UNCHANGED <<bound, running, open, stopping, cancelled, sender, nalVars, frameVars, micVars>>
-----------------------------------------------------------------------------
(* stop() *)

\* The tasks in the order stop() takes them.
Order == <<"keepalive", "decode", "sender">>
TaskOf(step) == IF step = "sender" THEN sender ELSE step
Waits(i) == TaskOf(Order[i]) # None /\ Live(TaskOf(Order[i]))

\* Mutant: the tasks are not waited for.
StopFrom_Unawaited(i) ==
  /\ open' = FALSE /\ latest' = None /\ stopping' = "done"
  /\ UNCHANGED cancelled

\* Cancel the next task that runs and wait for it; after the last one close the
\* socket and forget the frame.
StopFrom(i) ==
  IF \E j \in i .. 3 : Waits(j)
  THEN \E j \in i .. 3 :
         /\ Waits(j) /\ \A k \in i .. j - 1 : ~Waits(k)
         /\ stopping' = Order[j]
         /\ cancelled' = cancelled \cup {TaskOf(Order[j])}
         /\ UNCHANGED <<open, latest>>
  ELSE /\ open' = FALSE /\ latest' = None /\ stopping' = "done"
       /\ UNCHANGED cancelled

Stop ==
  /\ stopping = "no"
  /\ running' = FALSE
  /\ StopFrom(1)
  /\ UNCHANGED <<bound, pc, sender, nalVars, micVars, errors, event, waiter, got, frames, since>>

\* The task has ended, or 2 s have passed.
StopGoesOn ==
  /\ \E i \in 1 .. 3 : stopping = Order[i] /\ StopFrom(i + 1)
  /\ UNCHANGED <<bound, running, pc, sender, nalVars, micVars, errors, event, waiter, got, frames, since>>
-----------------------------------------------------------------------------
Next ==
  \/ \E tcp \in BOOLEAN, f \in Fragments : Fragment(tcp, f)
  \/ \E tcp \in BOOLEAN : SingleNal(tcp) \/ AudioPacket(tcp)
  \/ \E t \in Tasks : TaskCancelled(t)
  \/ StartMedia \/ CodecLoaded \/ CodecMissing \/ Decodes \/ DecodeIdles
  \/ \E n \in 0 .. 2 : FramesDecoded(n)
  \/ DecodeFails
  \/ \E w \in Waiters : GetFrame(w) \/ FrameReturned(w) \/ FrameTimesOut(w)
  \/ AttachBackchannel
  \/ \E n \in Bursts : Speak(n)
  \/ \E s \in Senders : StartAudioSender(s) \/ SendFrame(s) \/ FrameSent(s) \/ SenderEnds(s)
  \/ Stop \/ StopGoesOn

Spec == Init /\ [][Next]_vars
-----------------------------------------------------------------------------
(* Properties *)

\* A NAL unit whose fragments arrive in order is handed on exactly as it was sent,
\* under its own timestamp, whatever was lost, repeated or mixed up before it
\* (_process_fua).
HealsAtNextStart == clean.upto = Parts => handed = Whole(clean.nal)

\* get_jpeg_frame never returns a frame from before the call, and nothing only once the
\* receiver is being stopped, however many callers clear the event.
FrameIsNew ==
  \A w \in Waiters : waiter[w] = "returned" =>
    IF got[w] = None THEN stopping # "no" ELSE got[w] > since[w]

\* After stop() there is no frame and none appears, the socket is closed and no task
\* goes on, although packets, decoded frames and audio arrived while it waited for one
\* task after the other, at most 2 s each.
QuietAfterStop ==
  stopping = "done" =>
    /\ ~open /\ ~running /\ latest = None
    /\ \A t \in Tasks : Live(t) => t \in cancelled

\* What is said, buffered and queued for the device is in the order it was spoken,
\* nothing twice, however bursts, cuts and repeated answers fall (one sender drains
\* the queue).
MicInOrder ==
  LET line == said \o (IF sender = None THEN <<>> ELSE tx[sender]) \o MicUnits
  IN \A i, j \in DOMAIN line : i < j => line[i] < line[j]

\* Once a frame's worth is buffered every unit in it was queued less than Cap \div Frame
\* ticks ago: bursts cannot build up a delay (the cut of tx_buf).
TalkLatency ==
  \A s \in Senders : Len(tx[s]) >= Frame =>
    \A i \in DOMAIN tx[s] : ticks - spokeAt[tx[s][i]] < Cap \div Frame

(* What comments and docstrings say and the code does not do *)

\* "Wait until the first H.264 NAL has been queued" (wait_for_first_video): with the
\* pass-through any fragment sets the event.
FirstVideoIsNal == firstVideo => handed # None \/ queued > 0 \/ frames > 0 \/ pc["decode"] = "busy"

\* "bound talk latency to ~800ms": less than a frame waits for the next words, however
\* long that takes.
TalkNeverLate ==
  \A s \in Senders : \A i \in DOMAIN tx[s] : ticks - spokeAt[tx[s][i]] < Cap \div Frame
=============================================================================
