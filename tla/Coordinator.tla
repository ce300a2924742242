---------------------------- MODULE Coordinator ----------------------------
(***************************************************************************)
(* ComelitLocalCoordinator (coordinator.py): the one object that owns the  *)
(* TCP client, the video session slot, the VIP listener and the ring       *)
(* bookkeeping, together with the parts of VideoCallSession, of            *)
(* VipEventListener and of the buttons that call it or are called by it.   *)
(*                                                                         *)
(* Everything runs on one asyncio event loop, so a coroutine is atomic     *)
(* from one await to the next: a task's pc names the await it is           *)
(* suspended at, and one action is the code from that await to the next    *)
(* one.  A coroutine called by another (async_stop_video inside            *)
(* async_start_video, _reconnect inside async_start_video) keeps the       *)
(* caller's task; op says where to return.                                 *)
(***************************************************************************)
EXTENDS Naturals, Sequences, FiniteSets

CONSTANTS
  Tasks,          \* pool of asyncio tasks running coordinator coroutines
  Sessions,       \* pool of VideoCallSession objects
  Listeners,      \* pool of VipEventListener objects
  Clients,        \* pool of IconaBridgeClient objects
  Rings,          \* (entrance_addr, ring_ts) keys the device may ring with
  None,           \* Python's None
  Notifications,  \* CONF_ENABLE_NOTIFICATIONS
  EagerTasks,     \* a background task runs to its first await when it is created
                  \* (Home Assistant's default), instead of at a later turn
  UserOps,        \* the operations the household may ask for in this instance
  Sends,          \* bound: how often the device may transmit each frame
  MaxQueue,       \* bound: frames waiting on a CTPP channel
  MaxDrops        \* bound: unexpected losses of the TCP connection

Idle == "idleFrame"       \* 0x1840/0x0000, call idle or teardown tail
CallEnd == "callEndFrame" \* 0x1840/0x0003, lease over
Frames == Rings \cup {Idle, CallEnd}

ASSUME ConstantsAssumption ==
  /\ None \notin Tasks \cup Sessions \cup Listeners \cup Clients \cup Rings
  /\ {Idle, CallEnd} \cap Rings = {}
  /\ Clients # {}
  /\ Notifications \in BOOLEAN /\ EagerTasks \in BOOLEAN
  /\ Sends \in [Frames -> Nat] /\ MaxQueue \in Nat /\ MaxDrops \in Nat

VARIABLES
  \* the tasks
  pc,          \* the await a task is suspended at, "idle" when it is finished
  op,          \* the outermost coroutine the task runs
  sess,        \* its local `session`
  ring,        \* its local `entrance_addr`, `ring_ts`
  conn,        \* its local `client` (in _reconnect)
  \* the video session slot
  lock,        \* holder of _video_start_lock
  session,     \* _video_session
  ready,       \* _video_ready_event
  rtspReady,   \* the RTSP server's mark_ready / mark_not_ready
  stopped,     \* _video_stopped_by_user
  \* the VideoCallSession objects
  phase,       \* signalling phase of a session
  timer,       \* its _timeout_task
  on,          \* its _client
  owns,        \* sessions whose _owns_ctpp is set
  \* the VIP listener
  listener,    \* _vip_listener
  running,     \* listeners whose task has not been cancelled
  attached,    \* the client a listener reads from
  \* the connection
  client,      \* _client
  connected,   \* clients whose TCP connection is up
  ctppOpen,    \* clients with an open channel registered as "CTPP"
  media,       \* whose RTPC and UDPM channels a client has registered
  ctpp,        \* the response queue of a client's CTPP channel
  \* ring bookkeeping
  recent,      \* keys of _recent_rings
  lastRing,    \* the ring _last_ring_mono was set for, None when absent or old
  answered,    \* _inbound_answered
  pending,     \* _pending_inbound_ring
  \* the device
  sent,        \* transmissions of each frame so far
  drops,       \* connections lost so far
  \* history, read by properties only
  announced,   \* "ring" events fired for a ring
  missed,      \* "missed_call" events fired for a ring
  accepted     \* rings whose call was accepted and whose Answer returned

taskVars == <<pc, op, sess, ring, conn>>
slotVars == <<lock, session, ready, rtspReady, stopped>>
sessionVars == <<phase, timer, on, owns>>
listenerVars == <<listener, running, attached>>
linkVars == <<client, connected, ctppOpen, media, ctpp>>
ringVars == <<recent, lastRing, answered, pending>>
deviceVars == <<sent, drops>>
history == <<announced, missed, accepted>>
vars == <<taskVars, slotVars, sessionVars, listenerVars, linkVars, ringVars,
          deviceVars, history>>

Starts == {"start", "restart", "inbound"}
Ops == Starts \cup {"none", "stop", "answer", "door", "reconnect"}
StopPCs == {"stopCallbacks", "stopCleanup", "stopNotify"}
ReconnectPCs == {"rSession", "rListener", "rConnect", "rOpen", "rInit"}
NegotiationPCs == {"pausing", "negotiating", "gate", "failing"}
PCs == {"idle", "begin", "notify", "answering", "draining", "doorOpen",
        "doorRead2", "doorRead1", "doorDelay"}
         \cup StopPCs \cup ReconnectPCs \cup NegotiationPCs
Phases == {"none", "negotiating", "active", "renewing", "ended"}

TaskTypes ==
  /\ pc \in [Tasks -> PCs] /\ op \in [Tasks -> Ops]
  /\ sess \in [Tasks -> Sessions \cup {None}]
  /\ ring \in [Tasks -> Rings \cup {None}]
  /\ conn \in [Tasks -> Clients \cup {None}]
SlotTypes ==
  /\ lock \in Tasks \cup {None} /\ session \in Sessions \cup {None}
  /\ ready \in BOOLEAN /\ rtspReady \in BOOLEAN /\ stopped \in BOOLEAN
SessionTypes ==
  /\ phase \in [Sessions -> Phases]
  /\ timer \in [Sessions -> {"off", "armed", "cleaning"}]
  /\ on \in [Sessions -> Clients \cup {None}]
  /\ owns \in SUBSET Sessions
ListenerTypes ==
  /\ listener \in Listeners \cup {None} /\ running \in SUBSET Listeners
  /\ attached \in [Listeners -> Clients \cup {None}]
LinkTypes ==
  /\ client \in Clients \cup {None}
  /\ connected \in SUBSET Clients /\ ctppOpen \in SUBSET Clients
  /\ media \in [Clients -> Sessions \cup {None}]
  /\ ctpp \in [Clients -> Seq(Frames)]
RingTypes ==
  /\ recent \in SUBSET Rings /\ lastRing \in Rings \cup {None}
  /\ answered \in BOOLEAN /\ pending \in Rings \cup {None}
DeviceTypes == sent \in [Frames -> Nat] /\ drops \in Nat
HistoryTypes ==
  /\ announced \in [Rings -> Nat] /\ missed \in [Rings -> Nat]
  /\ accepted \in SUBSET Rings

TypeOK ==
  /\ TaskTypes /\ SlotTypes /\ SessionTypes /\ ListenerTypes
  /\ LinkTypes /\ RingTypes /\ DeviceTypes /\ HistoryTypes
-----------------------------------------------------------------------------
(* Tasks *)

Set(t, o, p, s, r) ==
  /\ op' = [op EXCEPT ![t] = o] /\ pc' = [pc EXCEPT ![t] = p]
  /\ sess' = [sess EXCEPT ![t] = s] /\ ring' = [ring EXCEPT ![t] = r]
  /\ conn' = [conn EXCEPT ![t] = None]

Goto(t, p) ==
  pc' = [pc EXCEPT ![t] = p] /\ UNCHANGED <<op, sess, ring, conn>>

\* The coroutine returns or raises; nothing of the task remains.
Finish(t) == Set(t, "none", "idle", None, None)

\* config_entry.async_create_background_task.
Spawn(o, r) == \E u \in Tasks : pc[u] = "idle" /\ Set(u, o, "begin", None, r)

\* Nothing runs between the creation of an eager task and its first await.
Settled == EagerTasks => \A t \in Tasks : pc[t] # "begin"

\* The loop may resume a task suspended at one of the awaits ps.
Awaits(t, ps) == Settled /\ pc[t] \in ps

\* A background task starts.
Begins(t, o) == pc[t] = "begin" /\ op[t] = o

(* VideoCallSession *)

Active(s) == s # None /\ phase[s] \in {"active", "renewing"}

\* An object nothing refers to any more stands for a new one.
FreeSession(s) ==
  /\ phase[s] \in {"none", "ended"} /\ timer[s] = "off" /\ session # s
  /\ \A t \in Tasks : sess[t] # s

\* _cleanup up to its first await.
CleanupStarts(s) ==
  /\ phase' = [phase EXCEPT ![s] = "ended"]
  /\ timer' = [timer EXCEPT ![s] = IF @ = "armed" THEN "off" ELSE @]
  /\ UNCHANGED <<on, owns>>

\* The end of _cleanup: the session's channels leave the client's registry,
\* by name, so whoever registered those names last loses them.
MediaLeft(s) == [c \in Clients |-> IF c = on[s] THEN None ELSE media[c]]
CtppLeft(s) == IF s \in owns THEN ctppOpen \ {on[s]} ELSE ctppOpen
RemoveChannels(s) ==
  /\ media' = MediaLeft(s) /\ ctppOpen' = CtppLeft(s)
  /\ UNCHANGED <<client, connected, ctpp>>

(* VipEventListener *)

\* The listener object a `VipEventListener(...)` call returns, once started.
StartListener(c) ==
  \E l \in Listeners \ (running \cup {listener}) :
    /\ listener' = l
    /\ running' = running \cup {l}
    /\ attached' = [attached EXCEPT ![l] = c]

\* stop_task up to its await: a cancelled listener processes nothing more.
CancelListener ==
  /\ running' = running \ {listener}
  /\ attached' = [l \in Listeners |-> IF l = listener THEN None ELSE attached[l]]
  /\ UNCHANGED listener

\* Mutant: a listener that is already there is not noticed.
EnsureVipListener_Again(open) ==
  IF client = None \/ ~Notifications \/ client \notin open
  THEN UNCHANGED listenerVars
  ELSE StartListener(client)

\* _ensure_vip_listener; start() raises when the client is not among those
\* with an open CTPP channel, and the caller only logs it.
EnsureVipListener(open) ==
  IF listener # None \/ client = None \/ ~Notifications \/ client \notin open
  THEN UNCHANGED listenerVars
  ELSE StartListener(client)

(* Events *)

MissedCall(r) == missed' = [missed EXCEPT ![r] = @ + 1]
AnnounceRing(r) == announced' = [announced EXCEPT ![r] = @ + 1]
-----------------------------------------------------------------------------
(* async_stop_video *)

\* Mutant: the slot is cleared only after the callbacks and session.stop().
TakeSession_Late(t, o) ==
  /\ session # None
  /\ UNCHANGED <<session, ready, pending, missed>>
  /\ Set(t, o, "stopCallbacks", session, ring[t])

\* Mutant: the ready event stays set.
TakeSession_ReadyStays(t, o) ==
  /\ session # None
  /\ session' = None /\ UNCHANGED ready
  /\ pending' = None
  /\ IF pending # None /\ ~answered THEN MissedCall(pending) ELSE UNCHANGED missed
  /\ Set(t, o, "stopCallbacks", session, ring[t])

\* From the call to the first await: the slot is cleared at once, and the
\* pending inbound call is reported missed unless it was answered.
TakeSession(t, o) ==
  /\ session # None
  /\ session' = None /\ ready' = FALSE
  /\ pending' = None
  /\ IF pending # None /\ ~answered THEN MissedCall(pending) ELSE UNCHANGED missed
  /\ Set(t, o, "stopCallbacks", session, ring[t])

\* The stop callbacks have returned: session.stop() begins.
StopCleanup(t) ==
  /\ Awaits(t, {"stopCallbacks"})
  /\ CleanupStarts(sess[t])
  /\ Goto(t, "stopCleanup")
  /\ UNCHANGED <<slotVars, listenerVars, linkVars, ringVars, deviceVars, history>>

\* Mutant: PLAY is not blocked again.
StopReleases_PlayStays(t) ==
  /\ Awaits(t, {"stopCleanup"})
  /\ RemoveChannels(sess[t])
  /\ IF lock = None THEN EnsureVipListener(CtppLeft(sess[t])) ELSE UNCHANGED listenerVars
  /\ Goto(t, "stopNotify")
  /\ UNCHANGED <<slotVars, sessionVars, ringVars, deviceVars, history>>

StopReleases(t) ==
  /\ Awaits(t, {"stopCleanup"})
  /\ RemoveChannels(sess[t])
  /\ rtspReady' = FALSE
  /\ IF lock = None THEN EnsureVipListener(CtppLeft(sess[t])) ELSE UNCHANGED listenerVars
  /\ Goto(t, "stopNotify")
  /\ UNCHANGED <<lock, session, ready, stopped, sessionVars, ringVars,
                 deviceVars, history>>

StopReturns(t) ==
  /\ Awaits(t, {"stopNotify"}) /\ op[t] \in Ops \ Starts
  /\ Finish(t)
  /\ UNCHANGED <<slotVars, sessionVars, listenerVars, linkVars, ringVars,
                 deviceVars, history>>

\* A call of async_stop_video on its own.
StopVideo(t) ==
  /\ \/ /\ TakeSession(t, "stop")
        /\ UNCHANGED <<recent, lastRing, answered>>
     \/ /\ session = None
        /\ Finish(t)
        /\ UNCHANGED <<session, ready, ringVars, missed>>
  /\ UNCHANGED <<lock, rtspReady, sessionVars, listenerVars, linkVars,
                 deviceVars, announced, accepted>>

\* ComelitStopVideoButton.async_press.
UserStop(t) ==
  /\ Awaits(t, {"idle"}) /\ "stop" \in UserOps
  /\ stopped' = TRUE
  /\ StopVideo(t)

\* ComelitIntercomCamera.async_will_remove_from_hass.
CameraRemoved(t) ==
  /\ Awaits(t, {"idle"}) /\ "remove" \in UserOps
  /\ session # None
  /\ StopVideo(t)
  /\ UNCHANGED stopped
-----------------------------------------------------------------------------
(* async_start_video and async_start_inbound_video: after async_stop_video  *)

\* VideoCallSession(self._client, ...) and the first steps of start() or
\* start_inbound().  They raise at once without a client, and start_inbound()
\* without an open CTPP channel; start() then opens one of its own.
CreateSession(t, o) ==
  LET doomed == client = None \/ (o = "inbound" /\ client \notin ctppOpen)
  IN \E s \in Sessions :
       /\ FreeSession(s)
       /\ phase' = [phase EXCEPT ![s] = IF doomed THEN "ended" ELSE "negotiating"]
       /\ on' = [on EXCEPT ![s] = client]
       /\ owns' = IF doomed \/ client \in ctppOpen THEN owns \ {s} ELSE owns \cup {s}
       /\ media' = IF doomed THEN media ELSE [media EXCEPT ![client] = s]
       /\ Set(t, o, IF doomed THEN "failing" ELSE "negotiating", s, ring[t])
       /\ UNCHANGED <<timer, client, connected, ctppOpen, ctpp>>

\* async_stop_video has returned: pause the listener, then create the session.
PauseOrCreate(t, o) ==
  \/ /\ listener # None
     /\ CancelListener
     /\ Set(t, o, "pausing", None, ring[t])
     /\ UNCHANGED <<sessionVars, linkVars>>
  \/ /\ listener = None
     /\ CreateSession(t, o)
     /\ UNCHANGED listenerVars

\* The part of both start coroutines that runs under the lock, from
\* `_video_stopped_by_user = False` to the next await.
LockedStart(t, o) ==
  /\ stopped' = FALSE
  /\ \/ /\ TakeSession(t, o)
        /\ UNCHANGED <<sessionVars, listenerVars, linkVars, recent, lastRing, answered>>
     \/ /\ session = None
        /\ PauseOrCreate(t, o)
        /\ UNCHANGED <<session, ready, ringVars, missed>>

StopReturnsToStart(t) ==
  /\ Awaits(t, {"stopNotify"}) /\ op[t] \in Starts
  /\ PauseOrCreate(t, op[t])
  /\ UNCHANGED <<slotVars, ringVars, deviceVars, history>>

ListenerPaused(t) ==
  /\ Awaits(t, {"pausing"})
  /\ listener' = None
  /\ CreateSession(t, op[t])
  /\ UNCHANGED <<slotVars, running, attached, ringVars, deviceVars, history>>

\* The media path is up: the monitor task starts, start() still waits for the
\* first video.  An outbound start needs the device's RTPC channel, which
\* arrives only while the session's own placeholder is registered.
NegotiationSucceeds(t) ==
  LET s == sess[t] IN
  /\ Awaits(t, {"negotiating"})
  /\ on[s] \in connected
  /\ op[t] = "inbound" \/ media[on[s]] = s
  /\ phase' = [phase EXCEPT ![s] = "active"]
  /\ ctppOpen' = IF s \in owns THEN ctppOpen \cup {on[s]} ELSE ctppOpen
  /\ Goto(t, "gate")
  /\ UNCHANGED <<slotVars, timer, on, owns, listenerVars, client, connected,
                 media, ctpp, ringVars, deviceVars, history>>

\* A channel open or a response times out, or a send fails: start() cleans up.
NegotiationFails(t) ==
  /\ Awaits(t, {"negotiating"})
  /\ CleanupStarts(sess[t])
  /\ Goto(t, "failing")
  /\ UNCHANGED <<slotVars, listenerVars, linkVars, ringVars, deviceVars, history>>

\* Mutant: the except branch reports no missed call.
StartFails_Silent(t) ==
  /\ Awaits(t, {"failing"})
  /\ RemoveChannels(sess[t])
  /\ EnsureVipListener(CtppLeft(sess[t]))
  /\ lock' = None
  /\ Finish(t)
  /\ UNCHANGED <<session, ready, rtspReady, stopped, sessionVars, ringVars,
                 deviceVars, history>>

\* Mutant: the except branch leaves the listener off.
StartFails_Deaf(t) ==
  /\ Awaits(t, {"failing"})
  /\ RemoveChannels(sess[t])
  /\ IF op[t] = "inbound"
     THEN MissedCall(ring[t]) /\ lastRing' = None
     ELSE UNCHANGED <<missed, lastRing>>
  /\ lock' = None
  /\ Finish(t)
  /\ UNCHANGED <<session, ready, rtspReady, stopped, sessionVars, listenerVars,
                 recent, answered, pending, deviceVars, announced, accepted>>

\* The `except` branch: the listener comes back and the lock is released; an
\* inbound start reports its ring missed.
StartFails(t) ==
  /\ Awaits(t, {"failing"})
  /\ RemoveChannels(sess[t])
  /\ EnsureVipListener(CtppLeft(sess[t]))
  /\ IF op[t] = "inbound"
     THEN MissedCall(ring[t]) /\ lastRing' = None
     ELSE UNCHANGED <<missed, lastRing>>
  /\ lock' = None
  /\ Finish(t)
  /\ UNCHANGED <<session, ready, rtspReady, stopped, sessionVars, recent,
                 answered, pending, deviceVars, announced, accepted>>

\* Mutant: the session is published before start() has completed.
Publish_Early(t) ==
  /\ Awaits(t, {"negotiating", "gate"})
  /\ timer' = [timer EXCEPT ![sess[t]] = "armed"]
  /\ session' = sess[t] /\ ready' = TRUE /\ rtspReady' = TRUE
  /\ Goto(t, "notify")
  /\ UNCHANGED <<lock, stopped, phase, on, owns, listenerVars, linkVars,
                 ringVars, deviceVars, history>>

\* start() returns, having armed the auto-timeout; the session is published.
Publish(t) ==
  /\ Awaits(t, {"gate"})
  /\ timer' = [timer EXCEPT ![sess[t]] = "armed"]
  /\ session' = sess[t] /\ ready' = TRUE /\ rtspReady' = TRUE
  /\ Goto(t, "notify")
  /\ UNCHANGED <<lock, stopped, phase, on, owns, listenerVars, linkVars,
                 ringVars, deviceVars, history>>

StartReturns(t) ==
  /\ Awaits(t, {"notify"}) /\ op[t] \in {"start", "restart"}
  /\ lock' = None
  /\ Finish(t)
  /\ UNCHANGED <<session, ready, rtspReady, stopped, sessionVars, listenerVars,
                 linkVars, ringVars, deviceVars, history>>

\* After the state callbacks and the snapshot wait, the ring is announced.
InboundAnnounces(t) ==
  /\ Awaits(t, {"notify"}) /\ op[t] \in {"inbound"}
  /\ pending' = ring[t]
  /\ AnnounceRing(ring[t])
  /\ lock' = None
  /\ Finish(t)
  /\ UNCHANGED <<session, ready, rtspReady, stopped, sessionVars, listenerVars,
                 linkVars, recent, lastRing, answered, deviceVars, missed, accepted>>
-----------------------------------------------------------------------------
(* _reconnect *)

FreeClient(c) ==
  /\ c # client /\ c \notin connected
  /\ \A s \in Sessions : on[s] = c => FreeSession(s)
  /\ \A l \in running : attached[l] # c
  /\ \A u \in Tasks : conn[u] # c

\* From `old_client = self._client` to the connect(); s is the session whose
\* channels were just removed, if any.
Dial(t, o, mediaLeft, open) ==
  \E c \in Clients :
    /\ FreeClient(c)
    /\ client' = None
    /\ connected' = connected \ {client}
    /\ ctppOpen' = open \ {client}
    /\ media' = [d \in Clients |-> IF d = client THEN None ELSE mediaLeft[d]]
    /\ op' = [op EXCEPT ![t] = o] /\ pc' = [pc EXCEPT ![t] = "rConnect"]
    /\ conn' = [conn EXCEPT ![t] = c]
    /\ sess' = [sess EXCEPT ![t] = None] /\ ring' = [ring EXCEPT ![t] = None]
    /\ UNCHANGED ctpp

\* `if self._vip_listener: await stop()`, and on to the next await.
DropListener(t, o, mediaLeft, open) ==
  \/ /\ listener # None
     /\ CancelListener
     /\ Set(t, o, "rListener", None, None)
     /\ media' = mediaLeft /\ ctppOpen' = open
     /\ UNCHANGED <<client, connected, ctpp>>
  \/ /\ listener = None
     /\ Dial(t, o, mediaLeft, open)
     /\ UNCHANGED listenerVars

ReconnectBegins(t, o) ==
  \/ /\ session # None
     /\ CleanupStarts(session)
     /\ Set(t, o, "rSession", session, None)
     /\ UNCHANGED <<listenerVars, linkVars>>
  \/ /\ session = None
     /\ DropListener(t, o, media, ctppOpen)
     /\ UNCHANGED sessionVars

ReconnectDropsSession(t) ==
  /\ Awaits(t, {"rSession"})
  /\ session' = None /\ ready' = FALSE /\ rtspReady' = FALSE
  /\ DropListener(t, op[t], MediaLeft(sess[t]), CtppLeft(sess[t]))
  /\ UNCHANGED <<lock, stopped, sessionVars, ringVars, deviceVars, history>>

ReconnectDropsListener(t) ==
  /\ Awaits(t, {"rListener"})
  /\ listener' = None
  /\ Dial(t, op[t], media, ctppOpen)
  /\ UNCHANGED <<slotVars, sessionVars, running, attached, ringVars,
                 deviceVars, history>>

\* connect, authenticate, get_device_config or register_push raises; the new
\* client is disconnected and self._client stays as it is.
ReconnectFails(t) ==
  /\ Awaits(t, {"rConnect"})
  /\ lock' = IF lock = t THEN None ELSE lock
  /\ Finish(t)
  /\ UNCHANGED <<session, ready, rtspReady, stopped, sessionVars, listenerVars,
                 linkVars, ringVars, deviceVars, history>>

\* The end of _reconnect: the refresh is over, or async_start_video goes on.
ReconnectReturns(t) ==
  \/ /\ op[t] = "reconnect"
     /\ Finish(t)
     /\ UNCHANGED <<slotVars, sessionVars, listenerVars, linkVars, ringVars, missed>>
  \/ /\ op[t] \in Starts
     /\ LockedStart(t, op[t])
     /\ UNCHANGED <<lock, rtspReady>>

\* The new connection is authenticated, configured and registered.
ReconnectConnects(t) ==
  LET c == conn[t] IN
  /\ Awaits(t, {"rConnect"})
  /\ client' = c /\ connected' = connected \cup {c}
  /\ ctppOpen' = ctppOpen \ {c}
  /\ media' = [media EXCEPT ![c] = None] /\ ctpp' = [ctpp EXCEPT ![c] = <<>>]
  /\ Goto(t, "rOpen")
  /\ UNCHANGED <<slotVars, sessionVars, listenerVars, ringVars, deviceVars, history>>

ReconnectOpensCtpp(t) ==
  /\ Awaits(t, {"rOpen"}) /\ Notifications
  /\ conn[t] \in connected
  /\ ctppOpen' = ctppOpen \cup {conn[t]}
  /\ Goto(t, "rInit")
  /\ UNCHANGED <<slotVars, sessionVars, listenerVars, client, connected, media,
                 ctpp, ringVars, deviceVars, history>>

\* Notifications are off, or opening and initialising the CTPP channel failed,
\* which is only logged.
ReconnectWithoutListener(t) ==
  /\ Awaits(t, {"rOpen", "rInit"})
  /\ ReconnectReturns(t)
  /\ UNCHANGED <<deviceVars, announced, accepted>>

\* The listener starts and self._vip_listener is overwritten.  A start that
\* reconnected finds the slot empty (nobody else can publish under its lock)
\* and pauses the new listener at once.
ReconnectStartsListener(t) ==
  /\ Awaits(t, {"rInit"})
  /\ conn[t] \in ctppOpen
  /\ \/ /\ op[t] = "reconnect"
        /\ StartListener(conn[t])
        /\ Finish(t)
        /\ UNCHANGED stopped
     \/ /\ op[t] \in Starts
        /\ \E l \in Listeners \ (running \cup {listener}) : listener' = l
        /\ stopped' = FALSE
        /\ Set(t, op[t], "pausing", None, None)
        /\ UNCHANGED <<running, attached>>
  /\ UNCHANGED <<lock, session, ready, rtspReady, sessionVars, linkVars,
                 ringVars, deviceVars, history>>

\* _async_update_data finds the connection down; refreshes are serialised.
HealthCheck(t) ==
  /\ Awaits(t, {"idle"})
  /\ client \notin connected
  /\ \A u \in Tasks : op[u] # "reconnect"
  /\ ReconnectBegins(t, "reconnect")
  /\ UNCHANGED <<slotVars, ringVars, deviceVars, history>>
-----------------------------------------------------------------------------
(* The start coroutines *)

\* async_start_video, when it is not turned down.
StartVideo(t, o) ==
  /\ lock = None /\ client # None
  /\ ~(stopped /\ o = "restart")
  /\ lock' = t
  /\ \/ client \in connected /\ LockedStart(t, o)
     \/ /\ client \notin connected
        /\ ReconnectBegins(t, o)
        /\ UNCHANGED <<session, ready, stopped, ringVars, missed>>
  /\ UNCHANGED <<rtspReady, deviceVars, announced, accepted>>

\* ComelitStartVideoButton.async_press.
UserStart(t) ==
  Awaits(t, {"idle"}) /\ "start" \in UserOps /\ StartVideo(t, "start")

\* _auto_restart_video, with RTSP clients watching or without.
RestartWatched(t) ==
  Begins(t, "restart") /\ StartVideo(t, "restart")

RestartRefused(t) ==
  /\ Begins(t, "restart")
  /\ lock # None \/ client = None \/ stopped
  /\ Finish(t)
  /\ UNCHANGED <<slotVars, sessionVars, listenerVars, linkVars, ringVars,
                 deviceVars, history>>

RestartUnwatched(t) ==
  Begins(t, "restart") /\ StopVideo(t) /\ UNCHANGED stopped

\* Mutant: a ring starts its video without looking at the lock.
InboundBegins_Unlocked(t) ==
  /\ Begins(t, "inbound")
  /\ client # None
  /\ lock' = t
  /\ LockedStart(t, "inbound")
  /\ UNCHANGED <<rtspReady, deviceVars, announced, accepted>>

\* async_start_inbound_video.
InboundBegins(t) ==
  /\ Begins(t, "inbound")
  /\ lock = None /\ client # None
  /\ lock' = t
  /\ LockedStart(t, "inbound")
  /\ UNCHANGED <<rtspReady, deviceVars, announced, accepted>>

\* A start is under way (or there is no client): the ring is skipped.
InboundSkipped(t) ==
  /\ Begins(t, "inbound")
  /\ lock # None \/ client = None
  /\ Finish(t)
  /\ UNCHANGED <<slotVars, sessionVars, listenerVars, linkVars, ringVars,
                 deviceVars, history>>
-----------------------------------------------------------------------------
(* Readers of the CTPP queue *)

HeadOf(c, f) == c # None /\ ctpp[c] # <<>> /\ f = Head(ctpp[c])

Consume(c) ==
  /\ ctpp' = [ctpp EXCEPT ![c] = Tail(@)]
  /\ UNCHANGED <<client, connected, ctppOpen, media>>

\* The negotiation of a session, and the CTPP init of a reconnect, read what
\* they wait for and drop everything else.
NegotiationReads(t) ==
  LET c == IF pc[t] = "rInit" THEN conn[t] ELSE on[sess[t]]
  IN /\ Awaits(t, {"negotiating", "rInit"})
     /\ \E f \in Frames : HeadOf(c, f)
     /\ Consume(c)
     /\ UNCHANGED <<taskVars, slotVars, sessionVars, listenerVars, ringVars,
                    deviceVars, history>>

\* _on_inbound_ring.
OnInboundRing(r) ==
  IF r \in recent THEN UNCHANGED <<taskVars, ringVars>>
  ELSE /\ recent' = recent \cup {r}
       /\ lastRing' = r /\ answered' = FALSE
       /\ Spawn("inbound", r)
       /\ UNCHANGED pending

\* Mutant: the monitor does not look the ring up.
OnRingDuringVideo_Again(r) ==
  /\ recent' = recent \cup {r}
  /\ lastRing' = r /\ answered' = FALSE /\ pending' = r
  /\ AnnounceRing(r)

\* _on_ring_during_video.
OnRingDuringVideo(r) ==
  IF r \in recent THEN UNCHANGED <<ringVars, announced>>
  ELSE /\ recent' = recent \cup {r}
       /\ lastRing' = r /\ answered' = FALSE /\ pending' = r
       /\ AnnounceRing(r)

\* _on_call_idle.
OnCallIdle ==
  IF session # None \/ answered \/ lastRing = None
  THEN UNCHANGED <<ringVars, missed>>
  ELSE /\ MissedCall(lastRing) /\ lastRing' = None
       /\ UNCHANGED <<recent, answered, pending>>

\* VipEventListener._process_message.
ListenerReads(l) ==
  /\ Settled /\ l \in running
  /\ \E f \in Frames :
       /\ HeadOf(attached[l], f)
       /\ \/ f \in Rings /\ OnInboundRing(f) /\ UNCHANGED missed
          \/ f = Idle /\ OnCallIdle /\ UNCHANGED taskVars
          \/ f = CallEnd /\ UNCHANGED <<taskVars, ringVars, missed>>
  /\ Consume(attached[l])
  /\ UNCHANGED <<slotVars, sessionVars, listenerVars, deviceVars, announced, accepted>>

\* VideoCallSession._ctpp_monitor_loop.
MonitorReads(s) ==
  /\ Settled /\ phase[s] = "active"
  /\ \E f \in Frames :
       /\ HeadOf(on[s], f)
       /\ \/ f \in Rings /\ OnRingDuringVideo(f) /\ UNCHANGED phase
          \/ f = Idle /\ UNCHANGED <<ringVars, announced, phase>>
          \/ /\ f = CallEnd
             /\ phase' = [phase EXCEPT ![s] = "renewing"]
             /\ UNCHANGED <<ringVars, announced>>
  /\ Consume(on[s])
  /\ UNCHANGED <<taskVars, slotVars, timer, on, owns, listenerVars, deviceVars,
                 missed, accepted>>

\* _inline_reestablish reads replies and drops everything else.
RenewalReads(s) ==
  /\ Settled /\ phase[s] = "renewing"
  /\ \E f \in Frames : HeadOf(on[s], f)
  /\ Consume(on[s])
  /\ UNCHANGED <<taskVars, slotVars, sessionVars, listenerVars, ringVars,
                 deviceVars, history>>

RenewalSucceeds(s) ==
  /\ Settled /\ phase[s] = "renewing" /\ on[s] \in connected
  /\ phase' = [phase EXCEPT ![s] = "active"]
  /\ UNCHANGED <<taskVars, slotVars, timer, on, owns, listenerVars, linkVars,
                 ringVars, deviceVars, history>>

\* _on_video_call_end.
OnVideoCallEnd ==
  IF stopped THEN UNCHANGED taskVars ELSE Spawn("restart", None)

\* The monitor gives up: the session is no longer active, and nothing of it
\* is cleaned up until somebody stops it.
RenewalFails(s) ==
  /\ Settled /\ phase[s] = "renewing"
  /\ phase' = [phase EXCEPT ![s] = "ended"]
  /\ OnVideoCallEnd
  /\ UNCHANGED <<slotVars, timer, on, owns, listenerVars, linkVars, ringVars,
                 deviceVars, history>>

\* _auto_timeout_loop: 120 s are over, the session cleans itself up.  They
\* outlast the callbacks and the 2 s snapshot wait that follow the publication.
TimeoutFires(s) ==
  /\ Settled /\ timer[s] = "armed"
  /\ \A t \in Tasks : pc[t] = "notify" => sess[t] # s
  /\ timer' = [timer EXCEPT ![s] = "cleaning"]
  /\ phase' = [phase EXCEPT ![s] = "ended"]
  /\ UNCHANGED <<taskVars, slotVars, on, owns, listenerVars, linkVars, ringVars,
                 deviceVars, history>>

\* Mutant: the timeout does not call on_call_end.
TimeoutReports_Silent(s) ==
  /\ Settled /\ timer[s] = "cleaning"
  /\ timer' = [timer EXCEPT ![s] = "off"]
  /\ RemoveChannels(s)
  /\ UNCHANGED <<taskVars, slotVars, phase, on, owns, listenerVars, ringVars,
                 deviceVars, history>>

TimeoutReports(s) ==
  /\ Settled /\ timer[s] = "cleaning"
  /\ timer' = [timer EXCEPT ![s] = "off"]
  /\ RemoveChannels(s)
  /\ OnVideoCallEnd
  /\ UNCHANGED <<slotVars, phase, on, owns, listenerVars, ringVars, deviceVars, history>>
-----------------------------------------------------------------------------
(* Answer and door buttons *)

\* async_answer_inbound, up to the peer and call-accepted messages; where no channel is
\* registered as "CTPP", answer_inbound returns without them and the call counts as answered.
UserAnswer(t) ==
  /\ Awaits(t, {"idle"}) /\ "answer" \in UserOps
  /\ Active(session)
  /\ \/ /\ on[session] \in ctppOpen
        /\ Set(t, "answer", "answering", session, None) /\ UNCHANGED ringVars
     \/ /\ on[session] \notin ctppOpen
        /\ answered' = TRUE /\ pending' = None /\ UNCHANGED <<taskVars, recent, lastRing>>
  /\ UNCHANGED <<slotVars, sessionVars, listenerVars, linkVars, deviceVars, history>>

\* The messages go out once the monitor does not hold _ctpp_lock.
AnswerSends(t) ==
  /\ Awaits(t, {"answering"})
  /\ phase[sess[t]] # "renewing"
  /\ on[sess[t]] \in connected
  /\ accepted' = accepted \cup ({pending} \ {None})
  /\ Goto(t, "draining")
  /\ UNCHANGED <<slotVars, sessionVars, listenerVars, linkVars, ringVars,
                 deviceVars, announced, missed>>

AnswerReturns(t) ==
  /\ Awaits(t, {"draining"})
  /\ answered' = TRUE /\ pending' = None
  /\ Finish(t)
  /\ UNCHANGED <<slotVars, sessionVars, listenerVars, linkVars, recent, lastRing,
                 deviceVars, history>>

\* A send raises and the button logs it.
AnswerFails(t) ==
  /\ Awaits(t, {"answering", "draining"})
  /\ on[sess[t]] \notin connected
  /\ Finish(t)
  /\ UNCHANGED <<slotVars, sessionVars, listenerVars, linkVars, ringVars,
                 deviceVars, history>>

\* ComelitDoorButton.async_press: on the video session's CTPP channel, else on
\* the open CTPP channel reading two responses, else on one of its own.
DoorPress(t) ==
  /\ Awaits(t, {"idle"}) /\ "door" \in UserOps /\ client # None
  /\ LET fast == ~Active(session) /\ client \in ctppOpen
     IN /\ op' = [op EXCEPT ![t] = "door"]
        /\ pc' = [pc EXCEPT ![t] = IF fast THEN "doorRead2" ELSE "doorOpen"]
        /\ conn' = [conn EXCEPT ![t] = IF fast THEN client ELSE None]
        /\ UNCHANGED <<sess, ring>>
  /\ UNCHANGED <<slotVars, sessionVars, listenerVars, linkVars, ringVars,
                 deviceVars, history>>

NextDoorPC(t) == IF pc[t] = "doorRead2" THEN "doorRead1" ELSE "doorOpen"

DoorReads(t) ==
  /\ Awaits(t, {"doorRead2", "doorRead1"})
  /\ \E f \in Frames : HeadOf(conn[t], f)
  /\ Consume(conn[t])
  /\ Goto(t, NextDoorPC(t))
  /\ UNCHANGED <<slotVars, sessionVars, listenerVars, ringVars, deviceVars, history>>

DoorReadTimesOut(t) ==
  /\ Awaits(t, {"doorRead2", "doorRead1"})
  /\ Goto(t, NextDoorPC(t))
  /\ UNCHANGED <<slotVars, sessionVars, listenerVars, linkVars, ringVars,
                 deviceVars, history>>

\* The door is open: a running video is to stop in 10 s.
DoorOpened(t) ==
  /\ Awaits(t, {"doorOpen"})
  /\ \/ /\ Active(session)
        /\ stopped' = TRUE
        /\ Set(t, "door", "doorDelay", None, None)
     \/ /\ ~Active(session)
        /\ Finish(t)
        /\ UNCHANGED stopped
  /\ UNCHANGED <<lock, session, ready, rtspReady, sessionVars, listenerVars,
                 linkVars, ringVars, deviceVars, history>>

DoorFails(t) ==
  /\ Awaits(t, {"doorOpen"})
  /\ Finish(t)
  /\ UNCHANGED <<slotVars, sessionVars, listenerVars, linkVars, ringVars,
                 deviceVars, history>>

\* _stop_video_after_delay wakes up.
DoorDelayEnds(t) ==
  /\ Awaits(t, {"doorDelay"})
  /\ \/ Active(session) /\ StopVideo(t) /\ UNCHANGED stopped
     \/ /\ ~Active(session)
        /\ Finish(t)
        /\ UNCHANGED <<slotVars, sessionVars, listenerVars, linkVars, ringVars,
                       deviceVars, history>>
-----------------------------------------------------------------------------
(* The device, the network and the clock *)

DeviceSends(f) ==
  /\ Settled /\ sent[f] < Sends[f]
  /\ \E c \in connected \cap ctppOpen :
       /\ Len(ctpp[c]) < MaxQueue
       /\ f = CallEnd => \E s \in Sessions : on[s] = c /\ phase[s] = "active"
       /\ ctpp' = [ctpp EXCEPT ![c] = Append(@, f)]
  /\ sent' = [sent EXCEPT ![f] = @ + 1]
  /\ UNCHANGED <<taskVars, slotVars, sessionVars, listenerVars, client, connected,
                 ctppOpen, media, ringVars, drops, history>>

\* The receive loop ends: EOF, an error, or 120 s without data.
ConnectionDrops(c) ==
  /\ Settled /\ c \in connected /\ drops < MaxDrops
  /\ connected' = connected \ {c} /\ drops' = drops + 1
  /\ UNCHANGED <<taskVars, slotVars, sessionVars, listenerVars, client, ctppOpen,
                 media, ctpp, ringVars, sent, history>>

\* MISSED_CALL_WINDOW has passed since the last ring.
RingGetsOld ==
  /\ Settled /\ lastRing # None
  /\ lastRing' = None
  /\ UNCHANGED <<taskVars, slotVars, sessionVars, listenerVars, linkVars, recent,
                 answered, pending, deviceVars, history>>
-----------------------------------------------------------------------------
\* The state async_setup leaves, with the CTPP channel and the listener up or,
\* when that failed or notifications are off, without them.
Init ==
  /\ pc = [t \in Tasks |-> "idle"] /\ op = [t \in Tasks |-> "none"]
  /\ sess = [t \in Tasks |-> None] /\ ring = [t \in Tasks |-> None]
  /\ conn = [t \in Tasks |-> None]
  /\ lock = None /\ session = None
  /\ ready = FALSE /\ rtspReady = FALSE /\ stopped = FALSE
  /\ phase = [s \in Sessions |-> "none"] /\ timer = [s \in Sessions |-> "off"]
  /\ on = [s \in Sessions |-> None] /\ owns = {}
  /\ client \in Clients /\ connected = {client}
  /\ \/ /\ Notifications
        /\ ctppOpen = {client}
        /\ listener \in Listeners /\ running = {listener}
        /\ attached = [l \in Listeners |-> IF l = listener THEN client ELSE None]
     \/ /\ ctppOpen = {}
        /\ listener = None /\ running = {}
        /\ attached = [l \in Listeners |-> None]
  /\ media = [c \in Clients |-> None] /\ ctpp = [c \in Clients |-> <<>>]
  /\ recent = {} /\ lastRing = None /\ answered = FALSE /\ pending = None
  /\ sent = [f \in Frames |-> 0] /\ drops = 0
  /\ announced = [r \in Rings |-> 0] /\ missed = [r \in Rings |-> 0]
  /\ accepted = {}

\* Somebody presses a button, or the poll runs.
Request(t) ==
  \/ UserStart(t) \/ UserStop(t) \/ UserAnswer(t) \/ DoorPress(t)
  \/ CameraRemoved(t) \/ HealthCheck(t)

\* A background task runs to its first await.
BeginStep(t) ==
  \/ RestartWatched(t) \/ RestartRefused(t) \/ RestartUnwatched(t)
  \/ InboundBegins(t) \/ InboundSkipped(t)

\* A suspended task goes on.
StopStep(t) == StopCleanup(t) \/ StopReleases(t) \/ StopReturns(t)
StartStep(t) ==
  \/ StopReturnsToStart(t) \/ ListenerPaused(t)
  \/ NegotiationSucceeds(t) \/ NegotiationFails(t) \/ StartFails(t)
  \/ Publish(t) \/ StartReturns(t) \/ InboundAnnounces(t)
ReconnectStep(t) ==
  \/ ReconnectDropsSession(t) \/ ReconnectDropsListener(t)
  \/ ReconnectFails(t) \/ ReconnectConnects(t) \/ ReconnectOpensCtpp(t)
  \/ ReconnectWithoutListener(t) \/ ReconnectStartsListener(t)
ButtonStep(t) ==
  \/ AnswerSends(t) \/ AnswerReturns(t) \/ AnswerFails(t)
  \/ DoorReads(t) \/ DoorReadTimesOut(t) \/ DoorOpened(t) \/ DoorFails(t)
  \/ DoorDelayEnds(t)
TaskStep(t) ==
  \/ StopStep(t) \/ StartStep(t) \/ ReconnectStep(t) \/ ButtonStep(t)
  \/ NegotiationReads(t)

SessionStep(s) ==
  \/ MonitorReads(s) \/ RenewalReads(s) \/ RenewalSucceeds(s) \/ RenewalFails(s)
TimerStep(s) == TimeoutFires(s) \/ TimeoutReports(s)

Environment ==
  \/ \E f \in Frames : DeviceSends(f)
  \/ \E c \in Clients : ConnectionDrops(c)
  \/ RingGetsOld

Next ==
  \/ \E t \in Tasks : BeginStep(t)
  \/ \E t \in Tasks : Request(t) \/ TaskStep(t)
  \/ \E s \in Sessions : SessionStep(s) \/ TimerStep(s)
  \/ \E l \in Listeners : ListenerReads(l)
  \/ Environment

Spec == Init /\ [][Next]_vars

\* The event loop runs every task that can go on, every await the coordinator
\* makes has a timeout, the 120 s timer expires, and the poll keeps coming.
\* The steps that may create a background task are strongly fair because the
\* bound on the pool can disable them for a moment.  Nothing is assumed of the
\* household, the device or the network.
Fairness ==
  /\ \A t \in Tasks : WF_vars(BeginStep(t)) /\ WF_vars(TaskStep(t))
  /\ \A s \in Sessions : SF_vars(SessionStep(s)) /\ SF_vars(TimerStep(s))
  /\ \A l \in Listeners : SF_vars(ListenerReads(l))
  /\ SF_vars(\E t \in Tasks : HealthCheck(t))

FairSpec == Spec /\ Fairness
-----------------------------------------------------------------------------
(* Safety *)

\* A task between acquiring and releasing _video_start_lock.
InLock(t) == op[t] \in Starts /\ pc[t] # "begin"

\* The lock is held by the one task that is inside a start coroutine, whatever
\* that coroutine is suspended at: a stop, a reconnect, the negotiation or the
\* callbacks after it (the `async with self._video_start_lock` blocks).
LockHeldByStart == \A t \in Tasks : InLock(t) <=> lock = t

\* The device can negotiate only one CTPP session at a time (the comment on
\* _video_start_lock): no two sessions are ever in negotiation.
OneNegotiation ==
  \A s, z \in Sessions :
    phase[s] = "negotiating" /\ phase[z] = "negotiating" => s = z

\* "Publish the session ONLY after start() has completed": a session the
\* entities can see is not in negotiation, and no start is still waiting for it.
PublishedOnlyWhenStarted ==
  session # None =>
    /\ phase[session] \notin {"none", "negotiating"}
    /\ \A t \in Tasks : sess[t] = session => pc[t] \notin NegotiationPCs

\* async_stop_video takes the session out of the slot before it awaits, so no
\* two calls of it ever stop the same session. (_reconnect and the timer, which
\* end a session that is still in the slot, are not spoken of.)
StoppedByOneCall ==
  \A t, u \in Tasks :
    t # u /\ pc[t] \in StopPCs /\ pc[u] \in {"stopCallbacks", "stopCleanup"}
      => sess[t] # sess[u] \/ pc[t] = "stopNotify"

\* While no session is published, RTSP PLAY requests are held back, except
\* between a stop's first step and its mark_not_ready: a viewer never gets a
\* 200 OK for a stream without video (mark_ready and mark_not_ready).
PlaysBlockedWithoutSession ==
  rtspReady =>
    session # None \/ \E t \in Tasks : pc[t] \in {"stopCallbacks", "stopCleanup"}

\* A ring is announced at most once however often the device repeats it and
\* whoever reads the repeats: the dedup of _on_inbound_ring and that of
\* _on_ring_during_video share their keys.
RingAnnouncedOnce == \A r \in Rings : announced[r] <= 1

\* On one connection, at most one listener task reads the CTPP channel and it is
\* the one the coordinator will pause: stop_task and _ensure_vip_listener never
\* lose track of a running listener.
OneListener == \A l \in running : l = listener

\* On one connection, a session with a call on the device is published or held
\* by the task that starts or stops it: no start or stop forgets a session whose
\* monitor is still running.
NoOrphanSession ==
  \A s \in Sessions :
    phase[s] \in {"negotiating", "active", "renewing"}
      => session = s \/ \E t \in Tasks : sess[t] = s

\* A session that took the slot is never displaced by another one without being
\* withdrawn, only the holder of the lock publishes, and the ready event follows
\* the slot: the coordinator implements SessionSlot.
Slot == INSTANCE SessionSlot WITH lock <- lock, session <- session, ready <- ready
SlotImplemented == Slot!Spec
-----------------------------------------------------------------------------
(* Why the slot is safe: an inductive invariant *)

\* What a task waits for fits the coroutine it runs, a start that has created its
\* session knows it, and a task that dials holds the new client.
Fits(t) ==
  /\ pc[t] = "idle" => op[t] = "none"
  /\ pc[t] \in NegotiationPCs \cup {"notify"} => op[t] \in Starts
  /\ pc[t] \in {"answering", "draining"} => op[t] = "answer"
  /\ pc[t] \in {"doorOpen", "doorRead2", "doorRead1", "doorDelay"} => op[t] = "door"
  /\ pc[t] \in {"negotiating", "gate", "failing"}
       => sess[t] # None /\ phase[sess[t]] # "none"
  /\ pc[t] = "rConnect" => conn[t] # None

\* Between its stop and its publication, a start finds the slot empty.
SlotEmptyForHolder ==
  \A t \in Tasks :
    InLock(t) /\ pc[t] \notin {"rSession", "notify"} => session = None

\* A session in negotiation belongs to a task that awaits the negotiation.
NegotiatorKnown ==
  \A s \in Sessions : phase[s] = "negotiating"
    => \E t \in Tasks : pc[t] = "negotiating" /\ sess[t] = s

\* The lock, the slot, the ready event and the tasks agree at every await of
\* async_start_video, async_start_inbound_video, async_stop_video and _reconnect.
SlotInv ==
  /\ \A t \in Tasks : Fits(t)
  /\ LockHeldByStart
  /\ SlotEmptyForHolder
  /\ NegotiatorKnown
  /\ ready = (session # None)
  /\ session # None => phase[session] # "none"
-----------------------------------------------------------------------------
(* Liveness *)

\* A doorbell press the coordinator has noted is reported: as a ring event once
\* the video runs, or as a missed call when it cannot be started.
EveryRingReported ==
  \A r \in Rings : r \in recent ~> announced[r] > 0 \/ missed[r] > 0

\* A session that has ended does not stay published: "with no viewers the
\* session ends cleanly" (_auto_restart_video).
DeadSessionLeavesSlot ==
  []<>(session = None \/ Active(session))

\* While the client has a CTPP channel, somebody reads it again after every
\* video: "the VIP listener takes the CTPP channel back" (_auto_restart_video).
ReaderReturns ==
  []<>(client \in ctppOpen => running # {} \/ Active(session))
-----------------------------------------------------------------------------
(* What comments of the source say and the code does not keep *)

\* One unanswered ring is one missed_call: neither async_stop_video nor
\* _on_call_idle reports a ring the other has already reported.
MissedOnce == \A r \in Rings : missed[r] <= 1

\* A ring waiting for the outcome of its call belongs to a running session, whose
\* end will report it: "every session teardown path funnels through this method"
\* (async_stop_video).
PendingNeedsSession == pending # None => session # None

\* A call whose accept has been sent to the device is not reported missed.
AcceptedNotMissed == [][\A r \in accepted : missed'[r] = missed[r]]_vars

\* The VIP listener does not read the channel of a running video: "so it doesn't
\* consume CTPP messages meant for the video session" (async_start_video).
ListenerPausedDuringVideo ==
  Active(session) => \A l \in running : attached[l] # on[session]

\* PLAYs are blocked only "until the next session is ready" (async_stop_video): a
\* published session can be played.
PublishedIsPlayable == session # None => rtspReady

\* An auto-restart does not publish a session once the user has stopped video:
\* "silently dropped if the user has since stopped video" (async_start_video).
RestartDroppedAfterStop ==
  [][\A t \in Tasks :
       pc[t] = "gate" /\ op[t] = "restart" /\ pc'[t] = "notify" => ~stopped]_vars

\* Outside _reconnect the only open connection is the coordinator's own:
\* _reconnect tears the old connection down before it dials.
NoLeakedClient ==
  (\A t \in Tasks : pc[t] \notin ReconnectPCs) => connected \subseteq {client}
=============================================================================
