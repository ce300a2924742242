---------------------------- MODULE VideoSession ----------------------------
(***************************************************************************)
(* One VideoCallSession from the inside (video_call.py): start() or        *)
(* start_inbound(), the monitor of the CTPP channel with the renewal of    *)
(* the call, the answer sequence, Answer and door presses, the time-out    *)
(* and stop(), all tasks of one event loop that share _ctpp_lock, the call *)
(* counter, the hand-off queue of an answer and the attributes that        *)
(* _cleanup takes away.  A task runs from one await to the next; cancelling*)
(* it ends it at the await it is suspended in.  The device answers,        *)
(* renews, repeats and opens its RTPC channel as it likes.                 *)
(***************************************************************************)
EXTENDS Naturals, Sequences, FiniteSets, SequencesExt

CONSTANTS
  Answers, Doors, Stops,  \* presses of the buttons and calls of stop()
  None,
  Kinds,      \* "outbound" for start(), "inbound" for start_inbound()
  Top,        \* the high half of a counter is a number below this (2^16)
  Firsts,     \* high half of the counter an inbound call starts from
  MaxFrames,  \* bound: frames the device sends while the session is active
  MaxOpens,   \* bound: RTPC channels the device opens
  MaxDrops    \* bound: losses of the connection

Timer == "timer"
Own == {"start", "monitor", "sequence", Timer}
Tasks == Own \cup Answers \cup Doors \cup Stops

ASSUME ConstantsAssumption ==
  /\ Answers \cap Doors = {} /\ (Answers \cup Doors) \cap Stops = {}
  /\ (Answers \cup Doors \cup Stops) \cap Own = {}
  /\ None \notin Tasks /\ Kinds \subseteq {"outbound", "inbound"}
  /\ Top \in Nat /\ Top > 1 /\ Firsts \subseteq 0 .. Top - 1
  /\ {MaxFrames, MaxOpens, MaxDrops} \subseteq Nat

VARIABLES
  \* the session's attributes
  active,   \* _active
  set,      \* which of _timeout_task, _tcp_task, _ctpp_task, _rtp_receiver are not None
  inbound,  \* _inbound_device_rtpc is not None
  rtpcId,   \* _device_rtpc_req_id is not 0
  handoff,  \* _answer_handoff: the answer whose queue it is, or None
  counter,  \* _call_counter: the call it counts in and its high half
  lock,     \* who holds _ctpp_lock
  owns,     \* _owns_ctpp
  \* its tasks and resources
  kind,     \* which of the two starts was called
  pc,       \* the await each task is suspended in
  alive,    \* the tasks of start() that run: "timer", "tcp", "ctpp"
  queue,    \* the hand-off queue of each answer
  waitsOn,  \* the answer whose queue an answer is waiting on
  acked,    \* which frames an answer has acknowledged
  receiver, \* the RtpReceiver
  audio,    \* its audio sender runs
  channels, \* the session's channel names in the client's registry
  opened,   \* placeholders the device has opened
  \* the device and the coordinator
  linked,   \* the TCP connection is up
  frames,   \* frames on the CTPP channel that the monitor has not read
  heard,    \* call and counter of the last message with a counter
  accepted, \* the device was told that the call is answered
  told,     \* callbacks made: "call_end", "timeout"
  sent, opens, drops  \* counters for the bounds

attributes == <<active, set, inbound, rtpcId, handoff, counter, lock, owns>>
answerVars == <<queue, waitsOn, acked>>
resources == <<alive, receiver, audio, channels, opened>>
device == <<heard, accepted>>
bounds == <<sent, opens, drops>>
vars == <<attributes, kind, pc, answerVars, resources, linked, frames, device, told, bounds>>

Frames == {"end", "link", "peer", "alive"}  \* CALL_END, 0x000A, 0x000E, keepalive
Names == {"CTPP", "CSPB", "UDPM", "RTPC", "RTPC2", "RTPC_DEVICE", "RTPC_DEVICE_REEST"}
Placeholders == {"RTPC_DEVICE", "RTPC_DEVICE_REEST"}
Starting == {"opening", "calling", "control", "exchanging", "linking"}
Renewing == {"reset", "recall", "relink"}
Waits == <<"timer", "tcp", "ctpp", "receiver">>  \* the awaits of _cleanup, in order
Places ==
  {"idle", "gate", "read", "lock", "between", "sending", "drain", "acking", "rtpc", "armed",
   "done", "failed", "crashed", "cancelled"} \cup Starting \cup Renewing \cup Range(Waits)
Counter == [call : Nat, high : Nat]

TypeOK ==
  /\ active \in BOOLEAN /\ set \subseteq Range(Waits) /\ inbound \in BOOLEAN /\ rtpcId \in BOOLEAN
  /\ handoff \in Answers \cup {None} /\ counter \in Counter
  /\ lock \in (Tasks \ Stops) \cup {None} /\ owns \in BOOLEAN
  /\ kind \in Kinds /\ pc \in [Tasks -> Places] /\ alive \subseteq {"timer", "tcp", "ctpp"}
  /\ queue \in [Answers -> Seq(Frames)] /\ waitsOn \in [Answers -> Answers \cup {None}]
  /\ acked \in [Answers -> SUBSET {"link", "peer"}]
  /\ receiver \in {"none", "up", "stopping", "stopped"} /\ audio \in BOOLEAN
  /\ channels \subseteq Names /\ opened \subseteq Placeholders
  /\ linked \in BOOLEAN /\ frames \in Seq(Frames) /\ heard \in Counter
  /\ heard.high < Top /\ accepted \in BOOLEAN /\ told \subseteq {"call_end", "timeout"}
  /\ sent \in 0 .. MaxFrames /\ opens \in 0 .. MaxOpens /\ drops \in 0 .. MaxDrops

\* The session owns CTPP unless it finds it in the registry.
Init ==
  /\ active = FALSE /\ set = {} /\ inbound = FALSE /\ rtpcId = FALSE
  /\ handoff = None /\ counter = [call |-> 0, high |-> 0] /\ lock = None
  /\ owns \in BOOLEAN /\ kind \in Kinds /\ (kind = "inbound" => ~owns)
  /\ pc = [t \in Tasks |-> "idle"] /\ alive = {}
  /\ queue = [a \in Answers |-> <<>>] /\ waitsOn = [a \in Answers |-> None]
  /\ acked = [a \in Answers |-> {}]
  /\ receiver = "none" /\ audio = FALSE /\ channels = {} /\ opened = {}
  /\ linked = TRUE /\ frames = <<>> /\ heard = [call |-> 0, high |-> 0]
  /\ accepted = FALSE /\ told = {} /\ sent = 0 /\ opens = 0 /\ drops = 0
-----------------------------------------------------------------------------
(* _cleanup *)

\* What the i-th await of _cleanup is for is still there.
Present(i) == Waits[i] \in set /\ (Waits[i] = "receiver" \/ Waits[i] \in alive)

\* Mutant: the timer that cleans up itself is ended by its own cancellation.
Cancel_Self(k, i) ==
  LET victim == CASE Waits[i] = "timer" -> {Timer}
                  [] Waits[i] = "ctpp" -> {"monitor"}
                  [] OTHER -> {}
  IN /\ pc' = [t \in Tasks |-> IF t \in victim THEN "cancelled"
                               ELSE IF t = k THEN Waits[i] ELSE pc[t]]
     /\ alive' = alive \ {Waits[i]}
     /\ lock' = IF lock \in victim THEN None ELSE lock

\* The task behind the i-th await is cancelled.  The timer that cleans up itself
\* suppresses its own cancellation.
Cancel(k, i) ==
  LET victim == CASE Waits[i] = "timer" -> {Timer} \ {k}
                  [] Waits[i] = "ctpp" -> {"monitor"}
                  [] OTHER -> {}
  IN /\ pc' = [t \in Tasks |-> IF t = k THEN Waits[i]
                               ELSE IF t \in victim THEN "cancelled" ELSE pc[t]]
     /\ alive' = IF Waits[i] = "timer" /\ k = Timer THEN alive ELSE alive \ {Waits[i]}
     /\ lock' = IF lock \in victim THEN None ELSE lock

\* The names _cleanup takes to be the coordinator's.
Shared == IF owns THEN {} ELSE {"CTPP", "CSPB"}

\* Mutant: the name of the renewed call's placeholder is not among the removed ones.
CleanupEnds_Keeps(k) ==
  /\ channels' = channels \cap (Shared \cup {"RTPC_DEVICE_REEST"})
  /\ pc' = [pc EXCEPT ![k] = IF k = "start" THEN "failed" ELSE "done"]
  /\ IF k = Timer THEN alive' = alive \ {"timer"} /\ told' = told \cup {"timeout"}
                  ELSE UNCHANGED <<alive, told>>
  /\ UNCHANGED lock

\* The session's names leave the registry; the time-out then reports.
CleanupEnds(k) ==
  /\ channels' = channels \cap Shared
  /\ pc' = [pc EXCEPT ![k] = IF k = "start" THEN "failed" ELSE "done"]
  /\ IF k = Timer THEN alive' = alive \ {"timer"} /\ told' = told \cup {"timeout"}
                  ELSE UNCHANGED <<alive, told>>
  /\ UNCHANGED lock

\* From behind its i-th await _cleanup goes on to the next one it needs: the
\* attribute is cleared before the task or the receiver behind it is ended.
CleanupFrom(k, i) ==
  LET left == {j \in i + 1 .. Len(Waits) : Present(j)}
      next == CHOOSE j \in left : \A m \in left : j <= m
  IN IF left = {}
     THEN set' = set \ {Waits[j] : j \in i + 1 .. Len(Waits)} /\ CleanupEnds(k)
     ELSE /\ set' = set \ {Waits[j] : j \in i + 1 .. next}
          /\ Cancel(k, next)
          /\ UNCHANGED <<channels, told>>

ReceiverStops(k) == receiver' = IF pc'[k] = "receiver" THEN "stopping" ELSE receiver

CleanupBegins(k) ==
  /\ active' = FALSE /\ inbound' = FALSE /\ handoff' = None
  /\ CleanupFrom(k, 0) /\ ReceiverStops(k)
  /\ UNCHANGED <<rtpcId, counter, owns, kind, answerVars, audio, opened, linked, frames, device,
                 bounds>>

\* The awaited task has ended, or 2 s are over.
CleanupGoesOn(k) ==
  \E i \in DOMAIN Waits :
    /\ pc[k] = Waits[i]
    /\ CleanupFrom(k, i)
    /\ IF Waits[i] = "receiver" THEN receiver' = "stopped" /\ audio' = FALSE
                                ELSE ReceiverStops(k) /\ UNCHANGED audio
    /\ UNCHANGED <<active, inbound, rtpcId, handoff, counter, owns, kind, answerVars, opened,
                   linked, frames, device, bounds>>
-----------------------------------------------------------------------------
(* start() and start_inbound() *)

Stage(from, to) == pc["start"] = from /\ pc' = [pc EXCEPT !["start"] = to]
UnchangedByStart ==
  /\ UNCHANGED <<active, rtpcId, handoff, counter, lock, owns, kind, answerVars, alive, audio, opened,
                 linked, frames, device, told, bounds>>

\* An outbound call opens CTPP and CSPB if CTPP is not there, and CSPB alone if only that
\* is missing: the coordinator opened CTPP and failed at CSPB (_open_ctpp_channels).
StartBegins ==
  /\ kind = "outbound" /\ Stage("idle", "opening")
  /\ channels' \in IF owns THEN {{"CTPP", "CSPB"}} ELSE {{}, {"CSPB"}}
  /\ UNCHANGED <<set, inbound, receiver>> /\ UnchangedByStart

\* An inbound one finds CTPP and registers the device's RTPC channel first.
InboundBegins ==
  /\ kind = "inbound" /\ Stage("idle", "calling")
  /\ channels' = {"RTPC_DEVICE", "RTPC", "UDPM"}
  /\ inbound' = TRUE
  /\ UNCHANGED <<set, receiver>> /\ UnchangedByStart

\* The placeholder is registered before the call init is sent, then UDPM is opened.
StartCalls ==
  /\ Stage("opening", "calling") /\ linked
  /\ channels' = channels \cup {"RTPC_DEVICE", "UDPM"}
  /\ UNCHANGED <<set, inbound, receiver>> /\ UnchangedByStart

\* UDPM is open; the receiver's socket is being opened.
StartControls ==
  /\ Stage("calling", "control") /\ linked
  /\ UNCHANGED <<set, inbound, channels, receiver>> /\ UnchangedByStart

StartExchanges ==
  /\ Stage("control", "exchanging")
  /\ receiver' = "up" /\ set' = set \cup {"receiver"}
  /\ UNCHANGED <<inbound, channels>> /\ UnchangedByStart

\* The exchange is over, RTPC and RTPC2 are opened; then an outbound start waits for
\* the device's RTPC channel, an inbound one for the repeat of its video configuration.
StartLinks ==
  /\ Stage("exchanging", "linking") /\ linked
  /\ channels' = channels \cup {"RTPC", "RTPC2"}
  /\ UNCHANGED <<set, inbound, receiver>> /\ UnchangedByStart

\* The media tasks and the monitor run, the readiness gate begins; n is the counter.
GoesLive(n) ==
  /\ pc' = [pc EXCEPT !["start"] = "gate", !["monitor"] = "read"]
  /\ counter' = [call |-> 1, high |-> n] /\ heard' = counter'
  /\ active' = TRUE
  /\ set' = set \cup {"tcp", "ctpp"} /\ alive' = {"tcp", "ctpp"}
  /\ UNCHANGED <<inbound, rtpcId, handoff, lock, owns, kind, answerVars, receiver, audio, channels,
                 opened, linked, frames, accepted, told, bounds>>

\* An outbound call needs the device's RTPC channel.
StartLive ==
  /\ kind = "outbound" /\ pc["start"] = "linking" /\ linked
  /\ "RTPC_DEVICE" \in opened
  /\ GoesLive(1)

\* An inbound call goes on with the counter that the ring's timestamp gave it.
InboundLive ==
  /\ kind = "inbound" /\ pc["start"] = "linking" /\ linked
  /\ \E n \in Firsts : GoesLive(n)

\* The timer is started.
TimerStarts(sequence) ==
  /\ pc["start"] = "gate"
  /\ pc' = [pc EXCEPT !["start"] = "done", !["sequence"] = sequence, ![Timer] = "armed"]
  /\ set' = set \cup {"timer"} /\ alive' = alive \cup {"timer"}
  /\ UNCHANGED <<active, inbound, rtpcId, handoff, counter, lock, owns, kind, answerVars, receiver,
                 audio, channels, opened, linked, frames, device, told, bounds>>

\* The first video has come, or 6 s are over.  Only with video does an outbound call
\* send its answer sequence, from a task nobody keeps.
StartReturns == kind = "outbound" /\ \E next \in {"idle", "lock"} : TimerStarts(next)

InboundReturns == kind = "inbound" /\ TimerStarts("idle")

\* A channel does not open in time, the device's RTPC does not come, a send fails.
StartFails ==
  /\ pc["start"] \in Starting
  /\ CleanupBegins("start")

\* A start in a background task is cancelled with its config entry; CancelledError is
\* no Exception, so nothing is cleaned up.
StartCancelled ==
  /\ pc["start"] \in Starting \cup {"gate"}
  /\ pc' = [pc EXCEPT !["start"] = "cancelled"]
  /\ UNCHANGED <<attributes, kind, answerVars, resources, linked, frames, device, told, bounds>>
-----------------------------------------------------------------------------
(* stop() and _auto_timeout_loop *)

\* The coordinator stops what it has published, so not before start() has returned.
StopBegins(s) ==
  /\ pc[s] = "idle" /\ pc["start"] = "done"
  /\ CleanupBegins(s)

TimerFires ==
  /\ pc[Timer] = "armed"
  /\ CleanupBegins(Timer)
-----------------------------------------------------------------------------
(* Messages with the shared counter *)

Reaches(n) == linked /\ n < Top

\* The device hears counter' if the message can be encoded and sent.
Hears == heard' = IF Reaches(counter'.high) THEN counter' ELSE heard

\* Whoever finds _ctpp_lock free takes it without an await.
Free == lock = None
-----------------------------------------------------------------------------
(* _ctpp_monitor_loop and _inline_reestablish *)

Monitor(from, to) == pc["monitor"] = from /\ pc' = [pc EXCEPT !["monitor"] = to]
UnchangedByMonitor ==
  UNCHANGED <<set, inbound, rtpcId, handoff, owns, kind, waitsOn, acked, receiver, audio, linked,
              accepted, bounds>>

\* CALL_END starts a renewal; any other frame goes to the answer that drains, or is
\* acknowledged.
MonitorReads ==
  /\ pc["monitor"] = "read" /\ active /\ frames # <<>>
  /\ frames' = Tail(frames)
  /\ LET f == Head(frames)
     IN \/ /\ f = "end"
           /\ pc' = [pc EXCEPT !["monitor"] = IF Free THEN "reset" ELSE "lock"]
           /\ lock' = IF Free THEN "monitor" ELSE lock
           /\ UNCHANGED queue
        \/ /\ f # "end" /\ handoff # None
           /\ queue' = [queue EXCEPT ![handoff] = Append(@, f)]
           /\ UNCHANGED <<pc, lock>>
        \/ /\ f # "end" /\ handoff = None /\ linked
           /\ UNCHANGED <<pc, lock, queue>>
  /\ UNCHANGED <<active, counter, alive, channels, opened, heard, told>> /\ UnchangedByMonitor

\* The loop ends when the session is no longer active, and when an acknowledgement
\* cannot be sent: then nobody is told.
MonitorLeaves ==
  /\ Monitor("read", "done") /\ alive' = alive \ {"ctpp"}
  /\ \/ ~active /\ UNCHANGED frames
     \/ /\ active /\ ~linked /\ handoff = None
        /\ frames # <<>> /\ Head(frames) # "end" /\ frames' = Tail(frames)
  /\ UNCHANGED <<active, counter, lock, queue, channels, opened, heard, told>> /\ UnchangedByMonitor

MonitorLocks ==
  /\ Monitor("lock", "reset") /\ Free /\ lock' = "monitor"
  /\ UNCHANGED <<active, counter, queue, alive, channels, opened, frames, heard, told>>
  /\ UnchangedByMonitor

\* After the new registration: the placeholder of the renewed call and the call init,
\* with which the device counts afresh.
MonitorRecalls ==
  /\ Monitor("reset", "recall") /\ linked
  /\ channels' = channels \cup {"RTPC_DEVICE_REEST"}
  /\ opened' = opened \ {"RTPC_DEVICE_REEST"}
  /\ heard' = [call |-> heard.call + 1, high |-> 0]
  /\ UNCHANGED <<active, counter, lock, queue, alive, frames, told>> /\ UnchangedByMonitor

\* The codec exchange reads whatever frames are there.
MonitorRelinks ==
  /\ Monitor("recall", "relink") /\ linked
  /\ \E n \in 0 .. Len(frames) : frames' = SubSeq(frames, n + 1, Len(frames))
  /\ UNCHANGED <<active, counter, lock, queue, alive, channels, opened, heard, told>>
  /\ UnchangedByMonitor

\* Mutant: a renewed session counts as active again.
MonitorRenewed_Revives ==
  /\ Monitor("relink", "read") /\ linked
  /\ heard' = [heard EXCEPT !.high = 1] /\ counter' = heard'
  /\ lock' = None /\ active' = TRUE
  /\ UNCHANGED <<queue, alive, channels, opened, frames, told>> /\ UnchangedByMonitor

\* The device's RTPC channel has come or not: the renewal sends its last messages and
\* stores the counter.
MonitorRenewed ==
  /\ Monitor("relink", "read") /\ linked
  /\ heard' = [heard EXCEPT !.high = 1] /\ counter' = heard'
  /\ lock' = None
  /\ UNCHANGED <<active, queue, alive, channels, opened, frames, told>> /\ UnchangedByMonitor

\* A renewal fails: the session is over and the coordinator is told.
MonitorGivesUp ==
  /\ pc["monitor"] \in Renewing
  /\ pc' = [pc EXCEPT !["monitor"] = "done"] /\ alive' = alive \ {"ctpp"}
  /\ lock' = None /\ active' = FALSE /\ told' = told \cup {"call_end"}
  /\ UNCHANGED <<counter, queue, channels, opened, frames, heard>> /\ UnchangedByMonitor
-----------------------------------------------------------------------------
(* async_open_door_on_ctpp and _send_answer_sequence *)

UnchangedBySender ==
  UNCHANGED <<active, set, inbound, rtpcId, handoff, owns, kind, answerVars, resources, linked,
              frames, accepted, told, bounds>>

\* The counter is not kept below 2^32: past it the message cannot be encoded, then and
\* at every later press.
SendsNext(t) ==
  /\ counter' = [counter EXCEPT !.high = @ + 1] /\ Hears
  /\ IF Reaches(counter'.high)
     THEN lock' = t /\ pc' = [pc EXCEPT ![t] = "sending"]
     ELSE lock' = None /\ pc' = [pc EXCEPT ![t] = "failed"]

\* Mutant: a door press does not wait for the lock.
DoorPress_Unlocked(d) ==
  /\ pc[d] = "idle" /\ active /\ pc["start"] = "done"
  /\ counter' = [counter EXCEPT !.high = @ + 1] /\ Hears
  /\ pc' = [pc EXCEPT ![d] = "done"]
  /\ UNCHANGED lock /\ UnchangedBySender

DoorPress(d) ==
  /\ pc[d] = "idle" /\ active /\ pc["start"] = "done"
  /\ IF Free THEN SendsNext(d)
             ELSE pc' = [pc EXCEPT ![d] = "lock"] /\ UNCHANGED <<counter, heard, lock>>
  /\ UnchangedBySender

SenderLocks(t) ==
  /\ pc[t] = "lock" /\ Free /\ SendsNext(t)
  /\ UnchangedBySender

SenderReturns(t) ==
  /\ pc[t] = "sending" /\ pc' = [pc EXCEPT ![t] = "done"] /\ lock' = None
  /\ UNCHANGED <<counter, heard>> /\ UnchangedBySender
-----------------------------------------------------------------------------
(* answer_inbound *)

UnchangedByAnswer ==
  UNCHANGED <<active, set, inbound, owns, kind, alive, receiver, channels, opened, linked, frames,
              told, bounds>>
UnchangedByDrain == UNCHANGED <<counter, lock, heard, accepted, queue>> /\ UnchangedByAnswer

\* The masked counter and the peer message; a send that fails leaves by the finally.
SendsPeer(a) ==
  /\ counter' = [counter EXCEPT !.high = (@ + 1) % Top] /\ Hears
  /\ IF linked THEN lock' = a /\ pc' = [pc EXCEPT ![a] = "between"] /\ handoff' = a
               ELSE lock' = None /\ pc' = [pc EXCEPT ![a] = "failed"] /\ handoff' = None

\* An active session that was not answered; the hand-off queue comes before the lock.
AnswerPress(a) ==
  /\ pc[a] = "idle" /\ pc["start"] = "done"
  /\ active /\ "receiver" \in set /\ ~rtpcId
  /\ queue' = [queue EXCEPT ![a] = <<>>]
  /\ IF Free THEN SendsPeer(a)
             ELSE /\ pc' = [pc EXCEPT ![a] = "lock"] /\ handoff' = a
                  /\ UNCHANGED <<counter, heard, lock>>
  /\ UNCHANGED <<rtpcId, accepted, waitsOn, acked, audio>> /\ UnchangedByAnswer

AnswerLocks(a) ==
  /\ pc[a] = "lock" /\ Free
  /\ counter' = [counter EXCEPT !.high = (@ + 1) % Top] /\ Hears
  /\ IF linked THEN lock' = a /\ pc' = [pc EXCEPT ![a] = "between"] /\ UNCHANGED handoff
               ELSE lock' = None /\ pc' = [pc EXCEPT ![a] = "failed"] /\ handoff' = None
  /\ UNCHANGED <<rtpcId, accepted, queue, waitsOn, acked, audio>> /\ UnchangedByAnswer

AnswerAccepts(a) ==
  /\ pc[a] = "between"
  /\ counter' = [counter EXCEPT !.high = (@ + 1) % Top] /\ Hears
  /\ accepted' = (accepted \/ linked)
  /\ IF linked THEN pc' = [pc EXCEPT ![a] = "sending"] /\ UNCHANGED <<lock, handoff>>
               ELSE lock' = None /\ pc' = [pc EXCEPT ![a] = "failed"] /\ handoff' = None
  /\ UNCHANGED <<rtpcId, queue, waitsOn, acked, audio>> /\ UnchangedByAnswer

\* Mutant: the receiver is not looked at again.
Finishes_Blind(a, id) ==
  /\ rtpcId' = id /\ audio' = (audio \/ id)
  /\ pc' = [pc EXCEPT ![a] = "done"]

\* The device's RTPC channel is known or given up: audio starts if there still is a
\* receiver.
Finishes(a, id) ==
  /\ rtpcId' = id /\ audio' = (audio \/ (id /\ "receiver" \in set))
  /\ pc' = [pc EXCEPT ![a] = "done"]

\* Behind the drain loop the hand-off ends, then the device's RTPC channel is awaited.
LeavesLoop(a) ==
  /\ handoff' = None /\ UNCHANGED waitsOn
  /\ IF inbound /\ "RTPC_DEVICE" \notin opened
     THEN pc' = [pc EXCEPT ![a] = "rtpc"] /\ UNCHANGED <<rtpcId, audio>>
     ELSE Finishes(a, rtpcId \/ inbound)

\* The loop reads the attribute each time round; where another answer or a cleanup has
\* put None there it raises AttributeError.
Loops(a, done) ==
  IF done = {"link", "peer"} THEN LeavesLoop(a)
  ELSE /\ IF handoff = None
          THEN pc' = [pc EXCEPT ![a] = "crashed"] /\ UNCHANGED waitsOn
          ELSE pc' = [pc EXCEPT ![a] = "drain"] /\ waitsOn' = [waitsOn EXCEPT ![a] = handoff]
       /\ UNCHANGED <<handoff, rtpcId, audio>>

AnswerDrains(a) ==
  /\ pc[a] = "sending" /\ lock' = None /\ Loops(a, acked[a])
  /\ UNCHANGED <<counter, heard, accepted, queue, acked>> /\ UnchangedByAnswer

\* A frame from the queue it waits on: link and peer are acknowledged, a keepalive is
\* dropped.
AnswerTakes(a) ==
  /\ pc[a] = "drain" /\ queue[waitsOn[a]] # <<>>
  /\ queue' = [queue EXCEPT ![waitsOn[a]] = Tail(@)]
  /\ LET f == Head(queue[waitsOn[a]])
     IN \/ f = "alive" /\ Loops(a, acked[a]) /\ UNCHANGED acked
        \/ /\ f # "alive" /\ linked
           /\ acked' = [acked EXCEPT ![a] = @ \cup {f}]
           /\ pc' = [pc EXCEPT ![a] = "acking"]
           /\ UNCHANGED <<handoff, rtpcId, audio, waitsOn>>
        \/ /\ f # "alive" /\ ~linked
           /\ pc' = [pc EXCEPT ![a] = "failed"] /\ handoff' = None
           /\ UNCHANGED <<acked, rtpcId, audio, waitsOn>>
  /\ UNCHANGED <<counter, lock, heard, accepted>> /\ UnchangedByAnswer

AnswerAcked(a) ==
  /\ pc[a] = "acking" /\ Loops(a, acked[a])
  /\ UNCHANGED acked /\ UnchangedByDrain

\* Mutant: the loop has no deadline.
AnswerTimesOut_Never(a) ==
  /\ pc[a] = "drain" /\ acked[a] = {"link", "peer"} /\ LeavesLoop(a)
  /\ UNCHANGED acked /\ UnchangedByDrain

AnswerTimesOut(a) ==
  /\ pc[a] = "drain" /\ LeavesLoop(a)
  /\ UNCHANGED acked /\ UnchangedByDrain

\* The channel has opened; the attribute is read again, and a cleanup may have taken
\* it.  Or 5 s are over.
AnswerHasRtpc(a) ==
  /\ pc[a] = "rtpc"
  /\ \/ "RTPC_DEVICE" \in opened /\ inbound /\ Finishes(a, TRUE)
     \/ /\ "RTPC_DEVICE" \in opened /\ ~inbound
        /\ pc' = [pc EXCEPT ![a] = "crashed"] /\ UNCHANGED <<rtpcId, audio>>
     \/ Finishes(a, rtpcId)
  /\ UNCHANGED <<handoff, waitsOn, acked>> /\ UnchangedByDrain
-----------------------------------------------------------------------------
(* The device and the connection *)

UnchangedByDevice ==
  UNCHANGED <<attributes, kind, pc, answerVars, alive, receiver, audio, channels, device, told>>

DeviceSends ==
  /\ linked /\ sent < MaxFrames /\ "ctpp" \in alive
  /\ \E f \in Frames : frames' = Append(frames, f)
  /\ sent' = sent + 1
  /\ UNCHANGED <<opened, linked, opens, drops>> /\ UnchangedByDevice

\* Its RTPC channel goes to the placeholder that was registered first.
DeviceOpensRtpc ==
  /\ linked /\ opens < MaxOpens
  /\ LET waiting == (Placeholders \cap channels) \ opened
     IN /\ waiting # {}
        /\ opened' = opened \cup {IF "RTPC_DEVICE" \in waiting THEN "RTPC_DEVICE"
                                  ELSE "RTPC_DEVICE_REEST"}
  /\ opens' = opens + 1
  /\ UNCHANGED <<frames, linked, sent, drops>> /\ UnchangedByDevice

ConnectionDrops ==
  /\ linked /\ drops < MaxDrops
  /\ linked' = FALSE /\ drops' = drops + 1
  /\ UNCHANGED <<frames, opened, sent, opens>> /\ UnchangedByDevice
-----------------------------------------------------------------------------
StartStep ==
  \/ StartBegins \/ InboundBegins \/ StartCalls \/ StartControls \/ StartExchanges \/ StartLinks
  \/ StartLive \/ InboundLive \/ StartReturns \/ InboundReturns \/ StartFails

MonitorStep ==
  \/ MonitorReads \/ MonitorLeaves \/ MonitorLocks \/ MonitorRecalls \/ MonitorRelinks
  \/ MonitorRenewed \/ MonitorGivesUp

AnswerStep(a) ==
  \/ AnswerLocks(a) \/ AnswerAccepts(a) \/ AnswerDrains(a) \/ AnswerTakes(a) \/ AnswerAcked(a)
  \/ AnswerTimesOut(a) \/ AnswerHasRtpc(a)

Senders == Doors \cup {"sequence"}
SenderStep(t) == SenderLocks(t) \/ SenderReturns(t)
Cleaners == {"start", Timer} \cup Stops

Presses ==
  \/ \E a \in Answers : AnswerPress(a)
  \/ \E d \in Doors : DoorPress(d)
  \/ \E s \in Stops : StopBegins(s)

Environment == StartCancelled \/ DeviceSends \/ DeviceOpensRtpc \/ ConnectionDrops

Next ==
  \/ StartStep \/ MonitorStep \/ TimerFires \/ Presses \/ Environment
  \/ \E a \in Answers : AnswerStep(a)
  \/ \E t \in Senders : SenderStep(t)
  \/ \E k \in Cleaners : CleanupGoesOn(k)

Spec == Init /\ [][Next]_vars

\* The event loop resumes every task whose wait is over, and every wait but that for
\* the lock has a limit; the readers of a loop that goes on reading are not obliged.
Fairness ==
  /\ WF_vars(StartStep) /\ WF_vars(MonitorStep) /\ WF_vars(TimerFires)
  /\ \A a \in Answers : WF_vars(AnswerStep(a))
  /\ \A t \in Senders : WF_vars(SenderStep(t))
  /\ \A k \in Cleaners : WF_vars(CleanupGoesOn(k))

FairSpec == Spec /\ Fairness
-----------------------------------------------------------------------------
(* Properties *)

Cleaning == \E k \in Cleaners : pc[k] \in Range(Waits)
CleanedUp == pc["start"] = "failed" \/ "timeout" \in told \/ \E s \in Stops : pc[s] = "done"

\* Once every cleanup that began is over nothing of the session is left: no task, no
\* media, no audio, no attribute that leads to one, whichever of a failed start, the
\* timer, a stop or two of them cleaned up, and whatever an answer or a renewal was doing.
\* Of the channels it registered only a CSPB stays that it opened beside a CTPP it did not
\* own (OwnChannelsClosed below); a session that owns CTPP leaves none.
NothingLeft ==
  CleanedUp /\ ~Cleaning
    => /\ set = {} /\ alive = {} /\ pc["monitor"] # "read"
       /\ channels \subseteq (IF owns THEN {} ELSE {"CSPB"})
       /\ receiver \in {"none", "stopped"} /\ ~audio

\* The microphone is open only after the device was told that the call is answered,
\* and no longer than the receiver runs.
AudioAnswered == audio => accepted /\ receiver \in {"up", "stopping"}

\* While the session is active every message with the shared counter reaches the device
\* in the call it counts in and follows the one before, in whatever order renewals,
\* answers, doors and the answer sequence take turns.
CountersFollow ==
  [][active /\ counter' # counter /\ counter'.call = counter.call /\ heard' # heard
       => /\ heard'.call = heard.call
          /\ (heard'.high - heard.high) % Top \in 1 .. Top \div 2]_vars

\* What the coordinator builds on (SessionLife).
Phase ==
  CASE pc["start"] = "idle" -> "none"
    [] pc["start"] \in Starting -> "negotiating"
    [] pc["start"] = "cancelled" /\ pc["monitor"] = "idle" -> "negotiating"
    [] OTHER -> IF ~active THEN "ended"
                ELSE IF pc["monitor"] \in Renewing THEN "renewing" ELSE "active"
TimerState ==
  CASE pc[Timer] = "armed" -> "armed"
    [] pc[Timer] \in Range(Waits) -> "cleaning"
    [] OTHER -> "off"

Life == INSTANCE SessionLife WITH phase <- Phase, timer <- TimerState, told <- told

\* The session lives the life Coordinator gives it: it is never revived, its timer never
\* armed again, and the coordinator is told of each kind of end at most once.
LifeImplemented == Life!Spec

\* A session that was published ends, with everything it has but such a CSPB, without
\* anybody's help.
SessionEnds ==
  pc["start"] = "done"
    ~> set = {} /\ alive = {} /\ channels \subseteq (IF owns THEN {} ELSE {"CSPB"})

\* Every press returns, whoever holds the lock, drains the frames or cleans up.
PressesReturn ==
  \A t \in Answers \cup Senders \cup Stops :
    pc[t] # "idle" ~> pc[t] \in {"idle", "done", "failed", "crashed"}
-----------------------------------------------------------------------------
(* What comments of the source say and the code does not keep *)

\* "CTPP and CSPB are only removed when this session opened them itself" (_cleanup): what
\* the session opened it removes.  A CSPB that was missing beside the coordinator's CTPP it
\* opened itself, and it stays registered.
OwnChannelsClosed == CleanedUp /\ ~Cleaning => channels = {}

\* "0x0000: keepalive - ACK with bare 0x1800" (_ctpp_monitor_loop): a keepalive is not
\* handed to an answer, which would drop it.
AliveAcked == \A a \in Answers : "alive" \notin Range(queue[a])

\* "return  # already answered" (answer_inbound): a second press while the first one is
\* answering does nothing.  It takes the hand-off over, and the first that ends leaves
\* the other None to wait on.
AnswersEndWell == active => \A a \in Answers : pc[a] # "crashed"

\* "The device ACKs with 0x1800/0x0000 and the relay activates" (async_open_door_on_ctpp):
\* a door press on an active, connected session is sent, whatever the counter is.
DoorsOpen == \A d \in Doors : pc[d] = "failed" => ~active \/ ~linked

\* "Clean up all resources" (_cleanup): nothing is sent for a session that was stopped.
\* A press that waited for the lock meanwhile still sends.
StoppedIsSilent == [][CleanedUp /\ counter'.call = counter.call => heard' = heard]_vars
=============================================================================
