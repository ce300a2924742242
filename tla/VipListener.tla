------------------------------ MODULE VipListener ------------------------------
(***************************************************************************)
(* Who reads the CTPP channel, what it answers and what it reports:        *)
(* VipEventListener (vip_listener.py), the handshake that registers the    *)
(* channel (ctpp.py), the call session's reads, monitor and renewal        *)
(* (video_call.py), and the coordinator that hands the channel from one to *)
(* the other and keeps the timestamp the answers derive from.              *)
(*                                                                         *)
(* The device repeats a press until it is answered and asks, from time to  *)
(* time, for a pair of ACKs that renews the registration; the pair counts  *)
(* only with the timestamp of the last init it got on the channel.  An     *)
(* init's timestamp is its number here.                                    *)
(*                                                                         *)
(* One reader is modelled at a time; the orders in which coroutines take   *)
(* and leave the channel are Coordinator's.                                *)
(***************************************************************************)
EXTENDS Integers, Sequences

CONSTANTS
  Presses,     \* what visitors do: records with a kind, each a timestamp of its own
  None,        \* Python's None
  DedupWindow, \* _dedup_window
  RepeatFor,   \* the device repeats a press for less than this
  MaxConnections, MaxInits, MaxFrames, MaxQueue, MaxTime  \* bounds

VARIABLES
  \* the connection and the device
  up,          \* the connection can be written to
  connections, \* connections so far
  ctppOpen,    \* the client's registry has an open CTPP channel
  registered,  \* the last init the device got on this channel, None before
  inits,       \* inits so far
  queue,       \* the channel's response_queue
  unanswered,  \* presses that got no valid answer
  pressed,     \* presses made
  frames,      \* frames the device sent
  since,       \* when a press was made
  \* the coordinator
  initTs,      \* _ctpp_init_ts
  recent,      \* presses in _recent_rings
  \* the reader
  reader,      \* which coroutine reads, and where it is
  replies,     \* in a handshake: replies read
  frame,       \* the listener: the frame whose answer is being sent
  ackTs,       \* the listener: the timestamp of its renewal ACKs
  fired,       \* the listener: _last_fired
  \* history
  now,
  reportedAt,  \* when a press was last reported
  byReader,    \* presses the reader of now has reported
  cut,         \* presses a reader held when it was stopped or the send of its answer failed
  opened,      \* the handshake of this connection succeeded
  renewed,     \* a call was renewed on this connection
  pair,        \* the timestamp of the pair of renewal ACKs this step has sent, or None
  said         \* the press this step has reported, or None

device == <<connections, inits, unanswered, pressed, frames, since>>
link == <<up, ctppOpen, registered>>
listenerVars == <<ackTs, fired>>
events == <<recent, reportedAt>>
outcome == <<opened, renewed>>
vars == <<device, link, queue, initTs, reader, replies, frame, listenerVars, now, events, byReader,
          cut, outcome, pair, said>>

Types == {"ring", "door_opened"}
Requests == {[kind |-> k] : k \in {"renewal", "idle", "callEnd"}}
Frames == Presses \cup Requests

ASSUME ConstantsAssumption ==
  /\ None \notin Nat \cup Frames
  /\ \A p \in Presses : p.kind \in {"init", "alerting", "door"}
  /\ {DedupWindow, RepeatFor, MaxConnections, MaxInits, MaxFrames, MaxQueue, MaxTime} \subseteq Nat
  /\ 0 < DedupWindow /\ RepeatFor <= DedupWindow

Stages ==
  {"nobody", "opening", "reading", "acking", "confirming",
   "call", "inbound", "monitor", "forwarding", "renewing", "ended"}
Listening == reader \in {"reading", "acking", "confirming"}

LinkTypes ==
  /\ up \in BOOLEAN /\ ctppOpen \in BOOLEAN /\ opened \in BOOLEAN /\ renewed \in BOOLEAN
  /\ connections \in 0 .. MaxConnections /\ inits \in 0 .. MaxInits
  /\ registered \in 1 .. MaxInits \cup {None} /\ initTs \in 0 .. MaxInits

DeviceTypes ==
  /\ queue \in Seq(Frames) /\ frames \in 0 .. MaxFrames
  /\ unanswered \subseteq Presses /\ pressed \subseteq Presses
  /\ since \in [Presses -> 0 .. MaxTime] /\ now \in 0 .. MaxTime

ReaderTypes ==
  /\ reader \in Stages /\ replies \in 0 .. 2
  /\ frame \in Frames \cup {None}
  /\ frame # None <=> reader \in {"acking", "confirming", "forwarding"}
  /\ reader = "forwarding" => frame \in Presses
  /\ reader = "opening" => registered # None
  /\ ackTs \in 0 .. MaxInits /\ pair \in 0 .. MaxInits \cup {None}
  /\ cut \subseteq Presses

EventTypes ==
  /\ recent \subseteq Presses /\ byReader \subseteq Presses
  /\ fired \in [Types -> 0 .. MaxTime \cup {None}]
  /\ reportedAt \in [Presses -> 0 .. MaxTime \cup {None}]
  /\ said \in Presses \cup {None}

TypeOK == LinkTypes /\ DeviceTypes /\ ReaderTypes /\ EventTypes

Init ==
  /\ up = FALSE /\ connections = 0 /\ ctppOpen = FALSE /\ registered = None /\ inits = 0
  /\ queue = <<>> /\ unanswered = {} /\ pressed = {} /\ frames = 0
  /\ since = [p \in Presses |-> 0]
  /\ initTs = 0 /\ recent = {}
  /\ reader = "nobody" /\ replies = 0 /\ frame = None
  /\ ackTs = 0 /\ fired = [t \in Types |-> None]
  /\ now = 0 /\ reportedAt = [p \in Presses |-> None]
  /\ byReader = {} /\ cut = {} /\ opened = FALSE /\ renewed = FALSE
  /\ pair = None /\ said = None
-----------------------------------------------------------------------------
(* Reporting *)

Report(p) ==
  /\ reportedAt' = [reportedAt EXCEPT ![p] = now]
  /\ byReader' = byReader \cup {p} /\ said' = p

\* A step that sends no pair and reports nothing.
Quiet == pair' = None /\ said' = None

Silent == said' = None /\ UNCHANGED <<events, fired, byReader>>

\* Mutant: _last_fired is not written.
Fire_Again(type, p) ==
  IF fired[type] # None /\ now - fired[type] < DedupWindow
  THEN Silent
  ELSE Report(p) /\ UNCHANGED <<fired, recent>>

\* _fire_event: one event of a type within the window.
Fire(type, p) ==
  IF fired[type] # None /\ now - fired[type] < DedupWindow
  THEN Silent
  ELSE Report(p) /\ fired' = [fired EXCEPT ![type] = now] /\ UNCHANGED recent

\* _on_inbound_ring and _on_ring_during_video: one event per press.  (The event of an
\* inbound ring follows when its video is ready or has failed.)
RingOnce(p) ==
  IF p \in recent
  THEN Silent
  ELSE Report(p) /\ recent' = recent \cup {p} /\ UNCHANGED fired

\* _handle_vip_event.  (What an idle frame means for a missed call is Coordinator's.)
Handle(f) ==
  CASE f.kind = "init" -> RingOnce(f)
    [] f.kind = "alerting" -> Fire("ring", f)
    [] f.kind = "door" -> Fire("door_opened", f)
    [] OTHER -> Silent
-----------------------------------------------------------------------------
(* The registration of the channel *)

\* The coroutine that reads is stopped; a press whose answer it was sending is lost.
Stopped == cut' = cut \cup ({frame} \cap Presses) /\ frame' = None /\ replies' = 0

\* VipEventListener(...) and start()
NewListener(ts) ==
  /\ reader' = "reading"
  /\ ackTs' = ts
  /\ fired' = [t \in Types |-> None] /\ byReader' = {}

\* _reconnect, and the connect of async_setup: a session and a listener are stopped.
Connect ==
  /\ ~up /\ connections < MaxConnections
  /\ connections' = connections + 1
  /\ up' = TRUE /\ ctppOpen' = FALSE /\ registered' = None /\ queue' = <<>>
  /\ reader' = "nobody" /\ Stopped
  /\ opened' = FALSE /\ renewed' = FALSE
  /\ Quiet
  /\ UNCHANGED <<inits, unanswered, pressed, frames, since, initTs, listenerVars, now, events, byReader>>

\* _open_ctpp_channels: CTPP and CSPB are opened and the init is sent; the opening of
\* CSPB may fail, and CTPP stays in the registry.
OpenCtpp ==
  /\ up /\ connections > 0 /\ ~ctppOpen /\ reader = "nobody"
  /\ ctppOpen' = TRUE
  /\ \/ /\ inits < MaxInits /\ inits' = inits + 1
        /\ registered' = inits' /\ reader' = "opening" /\ replies' = 0
     \/ UNCHANGED <<inits, registered, reader, replies>>
  /\ Quiet
  /\ UNCHANGED <<up, connections, unanswered, pressed, frames, since, queue, initTs, frame,
                 listenerVars, now, events, byReader, cut, outcome>>

\* read_response_ctpp takes two frames, whatever they are, or waits in vain.
ReadReply ==
  /\ reader \in {"opening", "renewing"} /\ replies < 2
  /\ replies' = replies + 1
  /\ queue' = IF queue = <<>> THEN queue ELSE Tail(queue)
  /\ Quiet
  /\ UNCHANGED <<device, link, initTs, reader, frame, listenerVars, now, events, byReader, cut,
                 outcome>>

\* Mutant: the coordinator does not keep the timestamp of the handshake.
Registers_Forgets ==
  /\ reader = "opening" /\ replies = 2
  /\ IF up
     THEN /\ pair' = registered /\ opened' = TRUE
          /\ NewListener(registered)
     ELSE reader' = "nobody" /\ pair' = None /\ UNCHANGED <<opened, listenerVars, byReader>>
  /\ said' = None /\ replies' = 0
  /\ UNCHANGED <<device, link, queue, initTs, frame, now, events, cut, renewed>>

\* The handshake of a new connection ends with the pair of ACKs; the coordinator keeps
\* its timestamp and starts a listener with it.
Registers ==
  /\ reader = "opening" /\ replies = 2
  /\ IF up
     THEN /\ pair' = registered /\ initTs' = registered /\ opened' = TRUE
          /\ NewListener(registered)
     ELSE reader' = "nobody" /\ pair' = None /\ UNCHANGED <<initTs, opened, listenerVars, byReader>>
  /\ said' = None /\ replies' = 0
  /\ UNCHANGED <<device, link, queue, frame, now, events, cut, renewed>>
-----------------------------------------------------------------------------
(* The listener *)

\* _process_message: a frame is answered before it is handled.  A call init is not
\* answered (the call that follows does), an opened door never is.  The answer is
\* written at once; the coroutine is suspended while the send buffer is full.
ListenerReads ==
  /\ reader = "reading" /\ queue # <<>>
  /\ queue' = Tail(queue)
  /\ LET f == Head(queue) IN
     IF up /\ f.kind \in {"renewal", "alerting", "idle", "callEnd"}
     THEN /\ reader' = "acking" /\ frame' = f
          /\ unanswered' = unanswered \ {f}
          /\ Silent
     ELSE Handle(f) /\ UNCHANGED <<reader, frame, unanswered>>
  /\ pair' = None
  /\ UNCHANGED <<link, connections, inits, pressed, frames, since, initTs, replies, ackTs, now,
                 cut, outcome>>

\* Mutant: a frame is not handled when the connection was lost while it was answered.
ListenerAcked_DropsOnLoss ==
  /\ reader = "acking"
  /\ IF frame.kind = "renewal" /\ up
     THEN pair' = ackTs /\ reader' = "confirming" /\ Silent /\ UNCHANGED frame
     ELSE /\ IF up THEN Handle(frame) ELSE Silent
          /\ reader' = "reading" /\ frame' = None /\ pair' = None
  /\ UNCHANGED <<device, link, queue, initTs, replies, ackTs, now, cut, outcome>>

\* The send has returned: the second ACK of a renewal, if the connection still stands,
\* or the frame is handled.
ListenerAcked ==
  /\ reader = "acking"
  /\ IF frame.kind = "renewal"
     THEN /\ IF up THEN pair' = ackTs /\ reader' = "confirming" /\ UNCHANGED frame
                   ELSE reader' = "reading" /\ frame' = None /\ pair' = None
          /\ Silent
     ELSE Handle(frame) /\ reader' = "reading" /\ frame' = None /\ pair' = None
  /\ UNCHANGED <<device, link, queue, initTs, replies, ackTs, now, cut, outcome>>

ListenerConfirmed ==
  /\ reader = "confirming"
  /\ reader' = "reading" /\ frame' = None
  /\ Quiet
  /\ UNCHANGED <<device, link, queue, initTs, replies, listenerVars, now, events, byReader, cut,
                 outcome>>
-----------------------------------------------------------------------------
(* The call session *)

\* async_start_video and async_start_inbound_video, the task of a call init that was
\* reported, cancel the listener; the session takes the open channel over.  (A call that
\* finds none opens and closes one of its own: it is left out.)
CallStarts ==
  /\ Listening \/ (reader = "nobody" /\ ctppOpen)
  /\ \/ reader' = "call"
     \/ Listening /\ (\E p \in recent : p.kind = "init") /\ reader' = "inbound"
  /\ byReader' = {} /\ Stopped
  /\ Quiet
  /\ UNCHANGED <<device, link, queue, initTs, listenerVars, now, events, outcome>>

\* The signalling of a call, or of its renewal, reads frames in line and drops what it
\* does not wait for; start_inbound() answers a renewal.
CallReads ==
  /\ reader \in {"call", "inbound"} /\ queue # <<>>
  /\ queue' = Tail(queue)
  /\ \/ pair' = None
     \/ reader = "inbound" /\ up /\ Head(queue).kind = "renewal" /\ pair' = initTs
  /\ said' = None
  /\ UNCHANGED <<device, link, initTs, reader, replies, frame, listenerVars, now, events,
                 byReader, cut, outcome>>

MonitorStarts ==
  /\ reader \in {"call", "inbound"}
  /\ reader' = "monitor"
  /\ Quiet
  /\ UNCHANGED <<device, link, queue, initTs, replies, frame, listenerVars, now, events,
                 byReader, cut, outcome>>

\* _ctpp_monitor_loop: a call init is forwarded, other frames are answered with a
\* timestamp of their own, an alerting one is then forwarded, and a call end renews
\* the call.  When a send fails the loop ends, and the session reads no more.
MonitorReads ==
  /\ reader = "monitor" /\ queue # <<>>
  /\ queue' = Tail(queue)
  /\ LET f == Head(queue) IN
     \/ f.kind = "init" /\ RingOnce(f) /\ UNCHANGED <<reader, frame, unanswered>>
     \/ /\ f.kind \in {"renewal", "idle", "door", "alerting"} /\ Silent
        /\ reader' = IF ~up THEN "ended" ELSE IF f.kind = "alerting" THEN "forwarding" ELSE reader
        /\ IF up /\ f.kind = "alerting"
           THEN frame' = f /\ unanswered' = unanswered \ {f}
           ELSE UNCHANGED <<frame, unanswered>>
     \/ /\ f.kind = "callEnd" /\ ~up /\ Silent
        /\ reader' = "ended" /\ UNCHANGED <<frame, unanswered>>
  /\ pair' = None
  /\ UNCHANGED <<link, connections, inits, pressed, frames, since, initTs, replies, ackTs, now,
                 cut, outcome>>

\* The send has returned and the press is forwarded; or the connection was lost, the send
\* raises, and the loop, which unlike the listener has no guard of its own around it, ends
\* with the press answered and not reported.
MonitorForwards ==
  /\ reader = "forwarding"
  /\ \/ RingOnce(frame) /\ reader' = "monitor" /\ UNCHANGED cut
     \/ ~up /\ Silent /\ reader' = "ended" /\ cut' = cut \cup {frame}
  /\ frame' = None /\ pair' = None
  /\ UNCHANGED <<device, link, queue, initTs, replies, ackTs, now, outcome>>

\* _inline_reestablish answers the call end and sends an init of its own on the channel.
CallRenewed ==
  /\ reader = "monitor" /\ queue # <<>> /\ Head(queue).kind = "callEnd" /\ up
  /\ queue' = Tail(queue)
  /\ inits < MaxInits /\ inits' = inits + 1
  /\ registered' = inits' /\ renewed' = TRUE
  /\ reader' = "renewing" /\ replies' = 0
  /\ Quiet
  /\ UNCHANGED <<up, ctppOpen, connections, unanswered, pressed, frames, since, initTs, frame,
                 listenerVars, now, events, byReader, cut, opened>>

\* The handshake of a renewal ends with a pair of ACKs too; the signalling goes on.
RenewalRegisters ==
  /\ reader = "renewing" /\ replies = 2
  /\ reader' = "call"
  /\ pair' = IF up THEN registered ELSE None
  /\ said' = None /\ replies' = 0
  /\ UNCHANGED <<device, link, queue, initTs, frame, listenerVars, now, events,
                 byReader, cut, outcome>>

\* async_stop_video: the session is stopped and _ensure_vip_listener starts a listener
\* with the timestamp the coordinator has.
SessionEnds ==
  /\ reader \in {"call", "inbound", "monitor", "forwarding", "renewing", "ended"}
  /\ NewListener(initTs) /\ Stopped
  /\ Quiet
  /\ UNCHANGED <<device, link, queue, initTs, now, events, outcome>>
-----------------------------------------------------------------------------
(* The device, the network and the clock *)

Receives(f) ==
  /\ up /\ ctppOpen /\ Len(queue) < MaxQueue
  /\ queue' = Append(queue, f)
  /\ frames < MaxFrames /\ frames' = frames + 1

\* A visitor presses, or the device repeats what was not answered.
Press(p) ==
  /\ Receives(p)
  /\ \/ /\ p \notin pressed /\ pressed' = pressed \cup {p}
        /\ since' = [since EXCEPT ![p] = now] /\ unanswered' = unanswered \cup {p}
     \/ /\ p \in unanswered /\ now - since[p] < RepeatFor
        /\ UNCHANGED <<pressed, since, unanswered>>
  /\ Quiet
  /\ UNCHANGED <<link, connections, inits, initTs, reader, replies, frame,
                 listenerVars, now, events, byReader, cut, outcome>>

Request(f) ==
  /\ Receives(f)
  /\ f.kind = "renewal" => registered # None
  /\ f.kind = "callEnd" => reader \in {"call", "inbound", "monitor"}
  /\ Quiet
  /\ UNCHANGED <<link, connections, inits, unanswered, pressed, since, initTs, reader, replies,
                 frame, listenerVars, now, events, byReader, cut, outcome>>

Lost ==
  /\ up /\ up' = FALSE
  /\ Quiet
  /\ UNCHANGED <<device, ctppOpen, registered, queue, initTs, reader, replies, frame,
                 listenerVars, now, events, byReader, cut, outcome>>

\* Time passes; a listener has caught up by then.
Tick ==
  /\ now < MaxTime /\ now' = now + 1
  /\ Listening => reader = "reading" /\ queue = <<>>
  /\ Quiet
  /\ UNCHANGED <<device, link, queue, initTs, reader, replies, frame, listenerVars, events,
                 byReader, cut, outcome>>
-----------------------------------------------------------------------------
Registration == Connect \/ OpenCtpp \/ ReadReply \/ Registers
Listener == ListenerReads \/ ListenerAcked \/ ListenerConfirmed
Call ==
  \/ CallStarts \/ CallReads \/ MonitorStarts \/ MonitorReads \/ MonitorForwards
  \/ CallRenewed \/ RenewalRegisters \/ SessionEnds
Device == (\E p \in Presses : Press(p)) \/ (\E f \in Requests : Request(f)) \/ Lost

Next == Registration \/ Listener \/ Call \/ Device \/ Tick

Spec == Init /\ [][Next]_vars
-----------------------------------------------------------------------------
(* Properties *)

\* What AnswersMatch rests on: a handshake is only under way on a connection that has
\* none behind it, and until a call is renewed the coordinator and a listener hold the
\* timestamp of the init the device got.
RegistrationInv ==
  /\ opened \/ reader = "opening" => ctppOpen /\ registered # None
  /\ reader = "opening" => ~opened
  /\ opened /\ ~renewed => initTs = registered /\ (Listening => ackTs = registered)

\* The pair of ACKs that renews the registration, whichever coroutine sends it, carries
\* the timestamp of the init the device got last on this channel, through reconnects,
\* failed handshakes on other connections and any number of calls.  It is claimed of a
\* connection whose handshake succeeded and whose calls were not renewed.
AnswersMatch ==
  [][pair' # None /\ opened' /\ ~renewed => pair' = registered]_vars

\* A ring the device was told we have seen is reported: by the reader that answered it,
\* or as a ring reported within the window before it was made.  Two readers are excepted:
\* one that was stopped while it answered, and a session's monitor whose connection was
\* lost while it did (MidCallRingsFire below).  A listener reports the ring all the same.
AnsweredIsReported ==
  \A p \in Presses \ (unanswered \cup cut) :
    p \in pressed /\ p.kind = "alerting" /\ frame # p
    => \E q \in Presses : /\ q.kind = "alerting" /\ reportedAt[q] # None
                          /\ reportedAt[q] > since[p] - DedupWindow

\* Repeats of a press are reported once by each reader; a call init once by all of them
\* together, also when the channel changes hands between two repeats.
OncePerReader ==
  [][said' # None
       => said' \notin byReader /\ (said'.kind = "init" => reportedAt[said'] = None)]_vars
-----------------------------------------------------------------------------
(* What comments of the source say and the code does not keep *)

\* "Reuses the init_ts stored from the most recent _open_ctpp_channels call so the
\* restarted listener's outgoing ACKs match the counter state the device already has
\* for this CTPP channel" (_ensure_vip_listener): after a call renewal they do not.
RenewalsMatch == [][pair' # None /\ opened' => pair' = registered]_vars

\* "Rings during an active video call fire events" (CHANGELOG.md): a monitor that answered
\* a ring forwards it, unless it is stopped before.  When the connection is lost while the
\* answer is sent, the monitor ends instead.
MidCallRingsFire == [][reader = "forwarding" /\ reader' = "ended" => frame \in recent']_vars

\* "device retransmits of the same ring share ring_ts, so each ring fires at most once"
\* (_forward_ring): the listener reports an alerting frame without noting it in
\* _recent_rings, and a monitor reports its repeat.
RingFiresOnce ==
  [][said' # None /\ said'.kind # "door" => reportedAt[said'] = None]_vars
=============================================================================
