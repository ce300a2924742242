# Comelit Man: TLA+ models, checks and proofs

This directory models the concurrent core of the Home Assistant integration in
`custom_components/comelit_man`: the coordinator with its one video session, the
TCP client every coroutine shares, the readers of the CTPP channel with what they
answer and report, a video session from the inside, the receiver of its media and the
RTSP server the video goes to; and the set-up, which makes a user on the device and an entry
in Home Assistant. TLC checks small instances; TLAPS proves, for every
instance, nearly all of the safety the runs check: of the session slot and its listener, of
the client's channels, of what is answered and reported, of the receiver, of the server's
clients and clocks, of the device's users; and the life a session leads.

## 1. Inventory

| Part | Source | State it keeps | Operations |
|---|---|---|---|
| coordinator | `coordinator.py` | client, video session, start lock, ready event, `_video_stopped_by_user`, VIP listener, ring bookkeeping (`_recent_rings`, `_last_ring_mono`, `_inbound_answered`, `_pending_inbound_ring`) | start, inbound start, stop, auto-restart, answer, open door, reconnect, health check, shutdown, keepalive |
| client | `client.py`, `channels.py` | channel registry, futures by channel id, connection state, per-channel send lock and response queue | open, close, placeholder, remove, send JSON, send binary, read, receive loop, connect, disconnect |
| video session | `video_call.py` | active flag, signalling phase, three tasks, call counter, `_ctpp_lock`, answer hand-off queue, its channel names in the client | start, start_inbound, answer, door on call, renewal, answer sequence, time-out, stop, cleanup |
| VIP listener | `vip_listener.py` | one task, the renewal timestamp, when each type of event was last fired | start, stop, frame handlers, ACKs |
| buttons, door | `button.py`, `door.py`, `ctpp.py` | none | press handlers, door commands, CTPP handshake |
| RTSP server | `rtsp_server.py` | clients, ready event, sequence numbers and timestamps per track, three feed tasks | start/stop, client sessions, reset, passthrough, audio and silence, RTCP |
| RTP receiver | `rtp_receiver.py` | sockets, NAL reassembly, decode task and last frame, audio sender and its buffer | packets, media, `get_jpeg_frame`, audio sender, stop |
| entities | `event.py`, `lock.py`, `binary_sensor.py`, `sensor.py`, `image.py`, `camera.py` | a flag or a counter each | callbacks of the coordinator |
| set-up | `config_flow.py`, `provisioning.py`, `token.py`, `auth.py` | the config entries; on the device the user table, the codes that wait, the backup | user, DHCP, reauthentication and reconfiguration forms |
| sign-in | `config_reader.py`, `__init__.py` | none that outlives a call | sequential scripts |

How they interact. Everything runs on one asyncio loop. Entities call the
coordinator's coroutines; the coordinator awaits the video session, the listener and
the client; the listener and the session's monitor call back synchronously
(`_on_inbound_ring`, `_on_ring_during_video`, `_on_call_idle`,
`_on_video_call_end`), and these callbacks create background tasks that run the
coordinator's coroutines later. The CTPP channel's queue is shared: the
listener, the session and the door code all read from it, never knowing who else
does. The client's receive loop hands packets to whoever is registered.

What is hard. A coroutine is atomic only from one await to the next: a stop, a
start, a ring, a time-out, a reconnect and an answer overlap at a dozen awaits, and
each looks at state another may have changed. The device repeats, delays and
drops frames; channel answers name neither the request nor the channel; waits time
out while the answer is on its way. `PROJECT.json` lists each such place under
`hazards` with the property that watches it, or the reason none does.

What makes each part correct. The coordinator: one start at a time, one session in the
slot, each ring reported once, each coroutine finishes. The client: an answer, a reply and
a lock belong to the caller that waits for them. The session: a counter in step with the
device's, audio only for an answered call, nothing left when it is over, and it does get
over. The readers of CTPP: what was answered is reported, with the timestamp of the
registration. The receiver: a NAL unit as it was sent, a frame that is new, talk in order
and on time, silence after stop. The RTSP server: clocks that only move forward, for
exactly the clients that play. The set-up: the users the device has keep their slots and
their activations, an entry has a token that works and the device's address.

## 2. Modules

| Module | Role |
|---|---|
| `Coordinator` | `ComelitLocalCoordinator` with the parts of the session, the listener, the buttons and the door code that touch its state; properties; mutants |
| `SessionSlot` | the abstract promise about the published session, the lock and the ready event |
| `CoordinatorProofs` | typing of every step, helper lemmas |
| `CoordinatorSlotProofs` | the inductive invariants of slot, stops, listener and rings, and the theorems |
| `MCCoordinator` | symmetry, view and device behaviour for TLC |
| `ChannelClient` | `IconaBridgeClient` and its channels, arbitrary callers, the device's answers |
| `ChannelClientProofs` | its typing, its inductive invariant, ids, locks and replies |
| `MCChannelClient` | symmetry for TLC |
| `VipListener` | who reads the CTPP channel: the handshake, `VipEventListener`, the call's reads and monitor; ACKs, events and their deduplication |
| `VipListenerProofs` | its typing, the renewal timestamp, answered and reported presses |
| `MCVipListener` | presses and view for TLC |
| `VideoSession` | one `VideoCallSession` from the inside: starts, monitor and renewal, answer, door press, time-out, stop, cleanup |
| `SessionLife` | the abstract life of a session, the one `Coordinator` gives its sessions |
| `VideoSessionProofs` | the audio of an answer, the refinement of `SessionLife`, what a cleanup leaves, the shared counter |
| `MCVideoSession` | symmetry and view for TLC |
| `RtpReceiver` | `RtpReceiver`: reassembly, decode task and waiters, microphone, stop |
| `RtpReceiverProofs` | its invariants of reassembly, frames, stop() and talk |
| `MCRtpReceiver` | kinds of behaviour and symmetry for TLC |
| `RtspServer` | `LocalRtspServer`: TCP clients, feeds, clocks, `reset`, `stop`; the packets of `RtpReceiver` |
| `RtspServerProofs` | its typing, its clients, parameter sets, video and audio clocks |
| `MCRtspServer` | symmetry and view for TLC |
| `DeviceSetup` | the config flow with provisioning, token extraction and authentication: forms, user table, backup, entries |
| `DeviceSetupProofs` | its typing, the monitor's slot, the users' slots and tokens, an entry's host |
| `MCDeviceSetup` | symmetry and view for TLC |

### Coordinator

A *task* of the model is an asyncio task that runs one of the coordinator's
coroutines: `op` is the outermost coroutine, `pc` the await it is suspended at,
`sess`, `ring` and `conn` its locals. An action is the code between two awaits.

| `pc` | suspended at |
|---|---|
| `begin` | a background task that has not run yet |
| `stopCallbacks`, `stopCleanup`, `stopNotify` | in `async_stop_video`: the stop callbacks, `session.stop()`, the state-change callbacks |
| `pausing` | `_vip_listener.stop_task()` |
| `negotiating`, `gate`, `failing` | in `session.start()`/`start_inbound()`: signalling, the wait for the first video, `_cleanup()` of the `except` branch |
| `notify` | the state-change callbacks after publication and, for a ring, the snapshot |
| `rSession`, `rListener`, `rConnect`, `rOpen`, `rInit` | in `_reconnect`: stopping the session, stopping the listener, closing and dialling, opening CTPP, its handshake |
| `answering`, `draining` | in `answer_inbound()`: the `_ctpp_lock`, the drain and the device's RTPC |
| `doorOpen`, `doorRead2`, `doorRead1`, `doorDelay` | door commands, the two reads, the 10 s sleep |

`lock`, `session`, `ready`, `rtspReady`, `stopped`, `listener`, `client`,
`recent`, `lastRing`, `answered` and `pending` are the attributes of the same
meaning. A session object has a `phase` (`active` and `renewing` are `_active`),
a `timer`, the client it was made for and whether it owns CTPP (`owns`). A client has `connected`, the
CTPP entry of its registry (`ctppOpen`), whose media channels are registered
(`media`: removal is by name, so a late cleanup takes the channels of whoever
registered last) and the CTPP queue.

Three kinds of CTPP frame matter to the coordinator: a ring (a member of `Rings`,
its `(entrance_addr, ring_ts)` key), the idle frame and the call-end frame. The
rest of the signalling is one `negotiating` or `renewing` phase that may succeed,
fail, and swallow frames, as `start_inbound()`, `_run_codec_exchange()` and
`ctpp_init_sequence()` do.

`EagerTasks` says whether a background task runs to its first await when it is
created (Home Assistant's default) or later; the runs use both.

### SessionSlot

`lock`, `session` and `ready` only: one holder, only the holder publishes, no
session replaces another one without a withdrawal, and the event that
`stream_source()` waits for is set exactly while a session is published. The
coordinator's variables of the same names are the refinement mapping.

### ChannelClient

`registry` is the dict `_channels` in its insertion order (a replaced key keeps its
place, as in Python). The actions are `open_channel`, `register_placeholder_channel`,
`remove_channel`, `send_json` (its lock, the future per channel id, its time-out,
its cancellation), the receive loop's two dispatch methods, the end of the loop
and `disconnect`. The device answers requests in order, chooses each id once,
may open channels itself and may send JSON nobody asked for (`DevicePushes`): the
receive loop gives JSON to whoever waits under the channel's id and to the push callback only
when nobody does. Callers are arbitrary: any order of calls is allowed, a
superset of what the integration does. `disturbed` and `unsettled` are history
variables: they say in which circumstances a property is claimed. A channel is `unsettled`
once a request on it was given up, or a push met one that was registered.

### VipListener

`Coordinator` decides which coroutine owns the CTPP channel; `VipListener` looks at what
the owner says to the device and to Home Assistant. `reader` is the coroutine that
reads and the await it is at:

| `reader` | code |
|---|---|
| `opening` | `_open_ctpp_channels`: the init is sent, `read_response_ctpp` takes two frames |
| `reading`, `acking`, `confirming` | `VipEventListener._listen_loop`: at `queue.get()`, in the first ACK, in the second ACK of a renewal |
| `call`, `inbound` | the signalling of `start()` (or of a renewed call) and of `start_inbound()` |
| `monitor`, `forwarding` | `_ctpp_monitor_loop`: at its read, in the ACK before `_forward_ring` |
| `ended` | nobody: a monitor's ACK failed and its loop ended, the session goes on without it |
| `renewing` | `_inline_reestablish`: its own init |

A frame that is sent is written at once; what suspends is the wait for the send buffer, so
an ACK is out before the coroutine can be cancelled. `initTs` is `_ctpp_init_ts`,
`ackTs` the listener's `_ack_ts`, `fired` its `_last_fired`, `recent` the keys of
`_recent_rings` (which live 120 s, longer than the device repeats a press). The
device's side is external: it repeats a press until that is answered, for less than
the window, and takes a renewal's pair of ACKs only with the timestamp of the last init
it got. `pair` and `said` are what the step just taken has sent and reported;
`MCVipListener` leaves them out of the view because no step depends on them.
`Tick` waits for a listener that has frames to read: the window is far longer
than the handling of a frame. Renewal timestamps are numbered by init; adding
`0x01010000` maps them one to one. `_last_seen_ts` only chooses log levels and is left out.

### VideoSession

The session of `Coordinator` is a phase; here it is its own tasks. `pc` is the await each
is suspended in:

| `pc` | suspended at |
|---|---|
| `opening`, `calling`, `control`, `exchanging`, `linking` | `start()`/`start_inbound()`: CTPP and CSPB, call init and UDPM, the receiver's socket, the codec exchange, RTPC, RTPC2 and the device's RTPC |
| `gate` | the wait for the first video |
| `armed` | the time-out's sleep |
| `read`, `reset`, `recall`, `relink` | the monitor at its read; in the renewal behind the new registration, the call init, the exchange |
| `lock`, `between`, `sending` | at `_ctpp_lock`; between the two messages of an answer; in the last send under the lock |
| `drain`, `acking`, `rtpc` | `answer_inbound()`: at the hand-off queue, in an ACK, at the device's RTPC channel |
| `timer`, `tcp`, `ctpp`, `receiver` | the awaits of `_cleanup` |

`set` holds the attributes that are not `None`, `alive` the tasks that run: `_cleanup` first
clears an attribute, then cancels the task behind it and waits, so a second cleanup finds
nothing to wait for and overtakes the first. `Cancel` ends a task at its await and
releases the lock it holds; the timer, which calls `_cleanup` itself, has taken its own
attribute and suppresses its own cancellation.

`counter` is `_call_counter`: which call it counts in and its high half. Every message
adds `_CTR_INCR_BYTE4`, one in that half, which wraps at `Top`; a renewal counts a call of
its own and stores where it ended. `heard` is the last number the device got. An inbound
call starts from what the ring's timestamp gives (`Firsts`), so the run begins it one below the
wrap. `channels` are the session's names in the client's registry, those of
`_VIDEO_CHANNEL_NAMES` with the placeholders, `opened` the placeholders the device has opened.
`owns` is `_owns_ctpp`: without it `_cleanup` leaves CTPP and CSPB alone (`Shared`), also a
CSPB that `start()` found missing and opened itself. `told` are the callbacks made. The device sends
the frames an answer waits for (`link`, `peer`), keepalives and call ends in any order.

`SessionLife` is the promise: negotiated once, active or renewing, ended for good; a timer armed at
most once; each callback at most once. `Phase` and `TimerState` are the refinement mapping.

### RtpReceiver

One receiver from `start_control()` and `start_keepalive()` on. `fua` is the NAL unit in
the making as the list of fragments it consists of, `handed` the last one put
together, `clean` a history variable: the fragments that last arrived in order. The
NAL queue is its length. `FramesDecoded` is the return of the executor job with zero to two
frames; `waiter` is where each caller of `get_jpeg_frame` is. On the way to the device
`mic` is the backchannel queue and `tx` the sender's buffer. Speech comes in units numbered as
spoken. A packet in the queue is known by its first unit: packets leave the queue at the front
only, when it overflows or is drained, so what it holds is always the last stretch of what was
spoken (`MicUnits`). The buffer, which is cut in the middle of packets, is kept unit by unit.
`spokeAt` is the tick since which a sender could have seen each. `stopping` is the await of
`stop()`: a task that was cancelled ends at its next step, and `stop()` waits for
that or for 2 s, whichever comes first. Packets arrive at any time, by TCP as long as `_running`
and by UDP as long as the socket is open; `tcpLead` says which transport brought more, as the
sender's choice does.

### RtspServer

`serving` and `feeds` are the life of the server and its tasks; `active` is
`_active_clients`, as a set: a handler leaves its request loop at PLAY, so it registers its
connection once, and the order of the list only decides who is primed first, which the
model leaves open (`Prime`); `conn`, `tracks` and `closing` belong to the client handlers. The
clocks have the names of the attributes; timestamps are numbers modulo `TsMod`
and sequence numbers modulo `NumMod`, so that every comparison the code makes
modulo 2^32 wraps in the runs. `seen` and `heard` are what each client got last on
the two tracks, `primed` the reset after which it got the parameter sets. Each
feed's step is one packet: queue, header rewriting, broadcast and the removal of
clients whose transport is closing. A receiver of the call before may still
deliver when the next call has reset the server, as `async_stop_video` gives a session
up before it stops it.

Left out of `RtspServer`: the UDP transport, the backchannel from the microphone, the text of SDP and
RTSP headers, the NAL fallback (whose queue the integration never fills), the
content of audio packets.

### DeviceSetup

Each submitted form is a coroutine; `pc` is the request it waits for:

| `pc` | suspended at |
|---|---|
| `confirm` | the DHCP form is shown |
| `login`, `listing` | `login()` and the creation of a backup; its list and download |
| `kind`, `name`, `enabled` | the three `_update_field` of `_create_user` |
| `code`, `page` | `create-actcode.html`, `users.html` |
| `redeem` | the activation on the UAUT channel |
| `testing`, `saving` | `connect()` with `authenticate()`; the step that ends the flow |

`table` is the device's user table, a name and a token per slot; a token is named after the
user it was minted for. `pending` are the codes that wait, `archive` the newest backup,
`address` what the router gives the device. `entries` are the config entries by unique id: a
host, or the hardware address. A request may fail at any time (`Fails`), also one to
an address that is no longer the device's; nothing is undone. A form that is shown again is
another member of `Forms`, except that of a discovery, which keeps its host.
Forms overlap as they like, and a backup that is made may still be the one before
(`MakesBackup`), as `docs/PROTOCOL.md:841` reports. `contested` is a history variable: the slots
a form picked although the backup was out of date in them or another form was making
a user there (`Contends`). The reset of an
activation is the device's web page, the only reason of a reauthentication here. The port,
the options form and the reload of an updated entry are left out.

## 3. Runs

Passing runs (`Coordinator*` use `MCCoordinator`):

| Run | Question | Instance |
|---|---|---|
| `coordinator_calls` | do the one-negotiation rule, the slot, the listener, publication and PLAY gating survive presses, rings, renewals, time-outs and restarts in any order? | 3 tasks, 2 sessions, queue of 2, a ring and a call end, start and stop presses, lazy tasks |
| `coordinator_reconnect` | Answer, door and camera removal with a lost connection: is a session stopped once, does the refinement hold? | 2 tasks, 2 clients, 1 loss, a ring, no start or stop press |
| `coordinator_rings` | is a ring announced once, whoever reads its repeat; is every ring reported, does the listener return, does an ended session leave the slot? (the last three liveness) | 2 tasks, 2 rings sent twice each, eager tasks, no user |
| `channel_client_calls` | ids, kinds, callbacks, locks, replies | 2 callers, 3 channels, 2 ids, 2 requests, 1 push, 1 time-out or cancellation |
| `vip_listener` | is an answered press reported, is it reported once by each reader, do renewal ACKs fit the registration? | 1 alerting press, 1 call init, 1 opened door, 3 frames in all, 2 connections, 2 inits, a window of 2 |
| `rtsp_server` | does each track a client sees move forward, at the device's pace, after its parameter sets; are the open streams the ones served? | 2 clients, 2 calls, 2 resets, 2 video and 1 audio packets, device clock near its wrap, timestamps modulo 16, so that the two clocks get further apart than half the range |
| `video_session` | is anything left behind, does the counter stay in step, does audio follow the answer, is `SessionLife` implemented? | both kinds, 2 Answer presses, 1 door press, 1 stop, 1 frame, 1 device channel, 1 loss, counter modulo 8 |
| `video_session_ends` | does every published session end, does every press return? (liveness) | 1 Answer press, 1 stop, the same device |
| `rtp_receiver` | does reassembly heal, is a frame new, is a stopped receiver quiet, is talk in order and on time? | 2 NAL units of 3 fragments in 6 packets; 3 frames, 2 callers; 7 units of speech, 4 ticks, 2 senders; a little of everything |
| `device_setup` | do the device's users keep slot and activation, is the monitor's slot left alone, do entries keep a token that works and the host discovered, whatever fails or overlaps? | 3 forms that overlap, discoveries at any moment, up to 2 phones, 3 slots, backups of any age, 1 change of address, 1 reset |

Why the bounds suffice. Every hazard listed involves at most two overlapping
coroutines and a background task they create, hence three tasks; a session being
stopped and one being started, hence two sessions; a listener being stopped
and one being started. A ring needs a repeat to meet the dedup. One loss of the
connection already meets every await of a start, a stop and an answer. In the client,
three channels are needed for a replaced name, an overlapping open and a
placeholder at once; one push meets a request that is registered, one that waits for the
lock and one that was given up. Counters (`sent`, `drops`, `requests`, `pushes`, `timeouts`) are
bounded in guards by `Sends`, `MaxDrops`, `MaxRequests`, `MaxPushes` and `MaxTimeouts`, the
queue by `MaxQueue`.

In `VipListener` (`MaxFrames`, `MaxConnections`, `MaxInits`, `MaxQueue`, `MaxTime`): three
frames are a press, its repeat and another press, or a call end that renews a call and the
device's renewal after it; two inits are a registration and what makes it stale; time
runs to the end of the window. In `RtspServer`
(`MaxCalls`, `MaxResets`, `MaxVideo`, `MaxAudio`, `MaxTicks`, `QueueSize`): two calls and
two packets are enough for packets of both calls to mix and for one to overtake the other
(`Steps` holds a step back), resets come from calls and renewals, and the clock moves by
one audio frame or by `Discontinuity`. `rtsp_server` makes no claim about how long
`stop()` takes.

In `VideoSession` (`MaxFrames`, `MaxOpens`, `MaxDrops`) one frame from the device is the call
end that renews or the one that an answer drains, and two answers, a door press, a stop and the
timer are the tasks that compete for the lock, the hand-off and the attributes. The numbers
of `CountersFollow` are compared modulo `Top` = 8, more than the messages of one
behaviour. In `RtpReceiver` `Bounds` is a set of records, one for each kind of behaviour, and
the initial state chooses one: six packets are a whole unit behind an unfinished
one; seven units of speech overflow the buffer (`Cap`) and the queue (`MicSize`). The
last record lets packets, a frame, a talk and `stop()` meet.

In `DeviceSetup` (`Last`, `MaxMoves`, `MaxResets`) three forms are one that leaves a user half
made, one that meets it and one that is about the entry, or three that overlap. Up to two
phones are users from the start, so that an entry whose token is reset can be given another
and a phone may be at the monitor's own slot. Two slots beside the monitor's are enough for two
new users side by side, for one beside a phone, and too few for three. Slots that are
contested do occur; what is not claimed of them is in section 5.

`Symmetry` permutes interchangeable objects in runs of invariants only; the liveness
runs use none. `View` identifies states that differ only in objects nothing
refers to any more (in `MCRtspServer` also in absolute sequence numbers, of which only
the distance to the server's counter matters; in `MCVideoSession` in what nobody reads any more and in how a
press that is over has ended; in `MCDeviceSetup` in what a form knew that is over).
`CHECK_DEADLOCK FALSE` because the bounded device and
user may have nothing left to do.

Every property has a mutant in the module (`StartFails_Deaf` and so on, marked
`Mutant:`): the definition with a plausible mistake, under which the run fails.

### Fairness

`FairSpec` assumes of the code only what the loop and the time-outs give: a task that
can go on does go on (weak fairness per task), monitors, renewals, timers and
listeners take their turn (strong, since the bounded task pool can disable
them for a moment when they create a task), and Home Assistant's 30 s poll keeps
coming. Nothing is assumed of the user, the device or the network. Every await
the tasks make is bounded in the source (`asyncio.timeout`, `wait_for`, the 2 s waits
of `_cleanup`), which is why `NegotiationFails`, `DoorReadTimesOut` and the like
are always possible.

`FairSpec` of `VideoSession` is weak fairness of each task. Every wait but that for the lock
has a limit, so a task can always go on; whoever holds the lock is such a task.
`SessionEnds` rests on the timer alone: neither a stop nor the device is obliged to do
anything.

## 4. What is proved

`CoordinatorSlotProofs` proves, for every pool of tasks, sessions, listeners and
clients (one client at least), every set of rings, every bound and both settings
of `Notifications` and `EagerTasks` (`ConstantsAssumption`):

- `TypeCorrect`: `TypeOK` always holds.
- `LockSafe`: the start lock is held by exactly the task inside a start.
- `NegotiationExclusive`: no two sessions negotiate at once.
- `PublicationSafe`: a published session is past its negotiation and no start still
  waits for it.
- `SlotRefined`: the coordinator implements `SessionSlot`.
- `StopsSingle`: no session is stopped by two calls of `async_stop_video`. (`_reconnect` and the
  timer also end a session, while it is still in the slot.)
- `PlaysBlocked`: without a session PLAY is blocked, or a stop is on its way to block it.
- `ListenerSingle`, `SessionsHeld`: until a connection is lost there is one listener, the one
  the coordinator knows, and each session with a call is in the slot or in a task's hands.
- `AnnouncedOnce`: no ring is announced twice.

The argument for the slot. `LockHeldByStart` is not inductive alone, since a task could be at an
await that does not belong to its coroutine, and exclusivity of publication needs to
know that the slot is empty between a start's stop and its publication. `SlotInv`
adds this: what a task waits for fits its coroutine (`Fits`), the holder of
the lock finds the slot empty until it publishes (`SlotEmptyForHolder`), a
negotiating session is some task's (`NegotiatorKnown`), and the ready event follows
the slot. `CoordinatorProofs` proves once per action that the
types are preserved; `CoordinatorSlotProofs` proves once per action that `SlotInv`
is, then the refinement step by step. TypeOK is part of the invariant of the proof.

The other results rest on `SlotInv` and an invariant each. `StopsApart`: whoever stops a session
holds one of its own that is no longer in the slot, since `async_stop_video` empties the slot
before its first await. `PlaysBlockedWithoutSession` is inductive as it stands. `LinkInv` says
of the first connection that nobody reconnects, that while a start pauses the listener nobody
reads, and that a live session is in the slot or at an await of the one task that starts or stops it.
`RingInv`: an announced ring is in `_recent_rings`, and so is the ring of each inbound start,
which is nobody else's and not announced yet. `NextHands` lists once what a step may do to the
sessions that tasks hold.

`ChannelClientProofs` proves all five properties of the client, for any callers, channels, ids and names
(`ConstantsAssumption` of `ChannelClient`): `KindsOwn`, `LocksFreed`, `CallbacksKept`, `RepliesOwn`,
`IdsOwn`, and `TypeCorrect`. One invariant carries them: each name leads to one object and
each id to one channel (`KeysOnce`, `IdsOnce`); who waits for a reply has the channel's lock
and the only future under its id (`LocksHeld`); each request and each answer on the way
is some caller's or was given up (`RepliesAwaited`). For `IdsOwn` the order counts: as
long as nothing in use was removed, the entries of the registry that wait, in their order,
are those of the opens on the way, in theirs (`OrderKept`). Removing a key keeps the
order of the others; the lemmas on sequences say so for `RemoveAt`. `RepliesOwn` says two things: on
a channel where no request was given up and no push met a registered request a caller gets
its own reply (`RepliesRight`); anywhere it gets that, the reply to a request that was
given up, or a push, never a reply somebody else waits for (`OwnReply` in section 5 is what
this leaves out).

`VipListenerProofs` proves, for every set of presses, every window and bound
(`ConstantsAssumption` of `VipListener`): `TypeCorrect`; `RegistrationKept`, the
invariant `RegistrationInv`; and `AnswersRight`, that every pair of renewal ACKs
carries the timestamp of the registration, the listener's, a handshake's or
`start_inbound()`'s. `AnswersMatch` speaks of one step; what it needs of the state is that
the coordinator and a running listener both hold the timestamp of the device's last
init, which in turn survives a reconnect only because a handshake is under way on a
connection that has none behind it. `RegistrationInv` is just that, and it is inductive. Both claims end where a call is renewed: see
`RenewalsMatch` below.

It also proves `AnsweredReported` (`AnsweredIsReported`) and `ReportedOnce` (`OncePerReader`), from
`ReportInv`: what is noted in `_recent_rings` was reported since it was pressed (`NotesTrue`),
nothing is pending that was not pressed (`PressesKnown`), and each press its reader has
reported is one that the reader will recognise, by its key or because the window is not over
(`ReaderRemembers`). `AnsweredIsReported` excepts the frame a reader was answering when it was
stopped, and the one a monitor was answering when it lost the connection: its loop has no guard
around the ACK and ends, where the listener's goes on to report (`MidCallRingsFire` below).
Both rest on `0 < DedupWindow` and `RepeatFor <= DedupWindow`: the source has
10 s, and the device's repeats of a press are all within that.

`RtpReceiverProofs` proves the five properties of the receiver, for any number of fragments,
callers and senders and any sizes of queue, buffer and cut (`ConstantsAssumption` of `RtpReceiver`:
the cut leaves no more than it cuts above, and that is a whole number of frames):

- `Heals`: `HealsAtNextStart`. It speaks of the unit just finished; `UnitInv` adds what the
  unfinished one holds, the fragments that arrived in order (`Prefix`).
- `FramesNew`: `FrameIsNew`. `FrameInv` adds that the frame kept is the last one decoded and that
  a caller who was woken has seen one come in.
- `Quiet`: `QuietAfterStop`. `QuietInv` adds that `stop()` has dealt with every task up to the one
  it waits for, and that no sender runs but the one it knows.
- `TalkOrdered`: `MicInOrder`, and `TalkTimely`: `TalkLatency`, from `TalkInv` beside `QuietInv`.
  `SenderInv`: nobody but the sender has a buffer. `MicInv`: what was sent comes before what is
  buffered and that before what is queued, each in order. `LagInv` is the reason for the latency:
  a unit at place `i` of a buffer that holds a frame has waited `a` ticks with `a * Frame + i <=
  Cap`, since each tick takes a frame from the front (`LagGrows`), a packet is drained at the first
  tick that can see it, and the cut brings every place below `Cap` (`DrainedIs`, `DrainedAge`). The
  invariant says nothing of a buffer with less than a frame, and could not: see `TalkNeverLate`
  below.

`VideoSessionProofs` proves, for any number of presses and stops, every bound and every width
of the counter (`ConstantsAssumption` of `VideoSession`: the tasks have names of their own):

- `AudioRight`: `AudioAnswered`. `AnswerOrder` adds that an answer which has sent both its
  messages was accepted, `CleanupOrder` that a receiver the session still has is running.
- `LifeRefined`: `LifeImplemented`, the session leads the life of `SessionLife`. `StartOrder`
  adds that neither a timer nor a stop comes before `start()` has returned and no monitor
  before it goes live, `CleanupOrder` that a cleanup has ended the activity and that the timer
  is armed exactly while the attribute leads to it, `ToldOnce` that each callback is the end of
  its task. `Cleared` says once what a stretch of `_cleanup` does to the tasks, from whichever
  await and on whoever's behalf; each kind of step is then shown to keep these and to be a
  step of `SessionLife` or none.
- `NothingStays`: `NothingLeft`: nothing of the session is left, except a CSPB it opened while CTPP
  was the coordinator's (`OwnChannelsClosed` below). `LeftInv` says how far each cleanup has come: the attributes
  up to the one it waits for are cleared (`Passed`), a task runs only while its attribute leads
  to it (`TasksKnown`), and a receiver is up only while the session has it or somebody stops it
  (`ReceiverKnown`).
- `CountersRight`: `CountersFollow`. `LockOrder` says that whoever is between two messages holds
  `_ctpp_lock`, so that no answer and no door press meets a renewal; `InStep` that the device
  has heard of every count of the session's call but those whose message could not be encoded,
  which lie past the end of the range, and that it is one call ahead while the renewal goes on. The
  hypothesis `FewPresses` bounds the door presses of one session by half the range, 32766 of
  them. Without it the claim is false: a press past the range moves the counter and
  sends nothing, so after enough of them an answer that masks the counter jumps further than the
  device can tell from a step back (`DoorsOpen` in section 5 is about such presses). The run has
  one press for a range of 8.

`RtspServerProofs` proves, for any connections, any width of timestamps and sequence numbers, any
rates, device clocks and bounds (`ConstantsAssumption` of `RtspServer`): `TypeCorrect`;
`StreamsRight` (`StreamsServed`), which is inductive; `PrimedBefore` (`PrimedFirst`), from
`PrimedInv`: every served client with a video track has had the parameter sets since the last
reset; `PaceRight` (`PaceKept`), from `PaceInv`: between resets the outgoing clock is the device's
moved by the offset, modulo 2^32 (`OffsetKeepsPace`); and `AudioRight` (`AudioForward`), from `AudioInv`:
who is served heard the last packet that was sent. `AudioRight` has a hypothesis,
`ShortPause`: no single pause of the audio is longer than half the range of its clock,
2^31 ticks or 74 h of one call without a packet from the device. Without it modulo
arithmetic has no "forward". The run's pauses are all that short. Last `VideoRight` (`VideoForward`):
`ClockInv` says that between resets the video clock is the device's moved by the offset, `SeenInv` that
what a served client saw last has the time of the video clock and lies behind the next sequence
number by no more than two for each other connection that has played (a PLAY and a turn of a reset
take two numbers each). It has one hypothesis, `FewConns`: the sequence numbers leave room for
the server's connections, 8192 of them with 16 bits; more of them between two packets would make
the next number look like an old one. It holds in the run. `VideoForward` itself excepts one
timestamp, that of a reset which finds the audio clock ahead of the video clock by more than half
the range (`ClocksNear` is false, after 6.6 h without video): the reset does go back, which is
`ResetForward` below. `TsMod` is small enough for the run to reach such resets, so that what comes
after them is checked as well.

`DeviceSetupProofs` proves, for any forms, phones, slots and addresses (`ConstantsAssumption` of
`DeviceSetup`):

- `MonitorSafe`: `MonitorUntouched`. `TargetChosen` is
  inductive: no code waits in slot 0, and no form has it as its target.
- `HostsSafe`: `HostFollows`: `HostsKnown` adds that
  an entry by host keeps the host it is named for, and that a discovery still under way is the
  only one and finds no entry of the device.
- `UsersSafe`: `UsersKept`, `TokensSafe`: `TokensLive`, and `ActivationsOwn`: `OwnActivation`. Nothing is
  assumed of how forms overlap or how old backups are; the claims leave out a slot (for
  `TokensLive` a device) that was contested, picked from a backup that was wrong about it or
  while another form was making a user in it. `SetupInv` says why the rest is safe although
  codes, names and tokens of other forms come and go around it: a form that is making a
  user is alone at its slot, which is free until the form names it (`SlotKnown`); a code waits
  in the slot its form chose and is read by whoever chose the same (`CodesPlaced`), so code and token are
  those of the user the slot is named for (`SlotsOwned`). In a contested slot all
  three are false: see `ActivatedKept` below.

Only model-checked, and why:

- liveness (`EveryRingReported`, `ReaderReturns`, `DeadSessionLeavesSlot`, `SessionEnds`,
  `PressesReturn`): out of the prover's reach.

`TypeOK` is proved in `Coordinator`, `ChannelClient`, `VipListener`, `RtspServer` and `DeviceSetup`;
elsewhere it documents the variables. `OneListener` and `NoOrphanSession` are claimed until a connection
is lost: their run has no loss, the theorems say so in their statement, and with a loss the code
does not keep the first.

## 5. What the models found

Each of these is a run that TLC must find violated; `PROJECT.json` quotes the line of
the source that says otherwise.

| Run | Scenario |
|---|---|
| `missed_twice` | a stop reports the pending ring missed but keeps `_last_ring_mono`; the teardown's idle frame, read by the restarted listener, reports it again |
| `reconfigure_moved` | the device has a new address; the reconfiguration with that address is refused as another device's, and so is any for a discovered entry |

Further statements of the source that the models contradict. Their definitions stand at
the end of the modules; no configuration is kept for them.

| Definition | Scenario |
|---|---|
| `ResetForward` (the run of `rtsp_server` reaches it) | a reset after more than 2^31 ticks without video sends a connected client a timestamp behind the last one (rtsp_server.py:376) |
| `OneEntry` | an entry made by hand has the host as its id, a discovered one the hardware address: one device, two entries (config_flow.py:111 and 134) |
| `OwnReply` | a push, or the late reply to a request that was given up, arrives while the next `send_json` waits on the channel, and is returned as its response (client.py:385) |
| `MidCallRingsFire` | the connection is lost while the monitor's ACK of a mid-call ring is drained: the loop ends with the ring answered and not reported (CHANGELOG.md:46) |
| `OwnChannelsClosed` | CTPP is there and CSPB is not, since the coordinator goes on when opening CSPB fails (coordinator.py:157); the session opens CSPB and leaves it registered (video_call.py:596-597) |
| `ActivatedKept` | the answer to an activation is lost; the form is sent again, its backup is from before (docs/PROTOCOL.md:841), and the activated slot is named anew; so do two forms that overlap and find the same slot free |
| `AcceptedNotMissed` | Answer is pressed and accepted; a stop before the drain ends reports the ring missed |
| `PublishedIsPlayable` | a stop that outlasts the next publication marks the RTSP server not ready: the new session cannot be played |
| `RestartDroppedAfterStop` | Stop pressed while an auto-restart is past its check; the restart publishes anyway |
| `WaiterGetsDeviceChannel` | `RTPC_DEVICE`, never released, takes the channel a renewal waits for under `RTPC_DEVICE_REEST` |
| `NoEmptyReport` | the report loop waits for the first packet once; after a reset it reports streams that have sent nothing |
| `RingFiresOnce` | a monitor forwards an alerting press, its session ends, and the listener, which neither reads nor writes `_recent_rings` for such a press, reports the repeat; the other order does too |
| `PendingNeedsSession` | stop during an inbound start's snapshot wait; the start then sets `_pending_inbound_ring` for a session that is gone (instance of `missed_twice`) |
| `ListenerPausedDuringVideo` | a stop that outlasts the next start finds the lock free and restarts the listener beside the running monitor |
| `NoLeakedClient` | start and health check both reconnect; the later one overwrites `_client`, nobody closes the earlier connection (three clients, one loss) |
| `DeadSessionLeavesSlot` with a door press | the session times out within 10 s of the press: the call-end callback and the delayed stop both do nothing, and the ended session stays published |
| `ReaderReturns` with start and stop presses | a stop that ends while the start it interrupted still runs its callbacks finds the lock held and leaves the listener off; nobody reads CTPP until the next video ends |
| `RenewalsMatch` | a call is renewed with an init of its own; the listener restarted afterwards answers the device's renewals with the timestamp of the init before |
| `AliveAcked` | a keepalive during an answer goes to the hand-off queue, where the answer drops it unacknowledged |
| `AnswersEndWell` | Answer pressed twice: the second press takes the hand-off over, the first that ends clears it, the other waits on `None` and raises `AttributeError` |
| `DoorsOpen` | a door press and the answer sequence do not mask the counter: past 2^32 the message cannot be encoded, and no later press can either |
| `StoppedIsSilent` | a press that waits for the lock of a renewal sends once a stop has cancelled that renewal |
| `FirstVideoIsNal` | with the pass-through any fragment, whole unit or not, opens the readiness gate |
| `TalkNeverLate` | less than a frame of speech stays in the buffer until more is said |
| `OwnId` | the answer to an open that timed out completes the next open of the same name (one caller, two channels) |

## 6. Not modelled, and the plan

Not modelled: byte layouts (`protocol.py`), parsing, the configuration read (`config_reader.py`),
`__init__.py`, push registration, browser cards. Real time is abstracted: a
time-out may always happen, except that the 120 s timer outlasts the callbacks
that follow a publication (`TimeoutFires`).

Also left out, since no property here depends on it: a renewal that gives up during the
two seconds at most in which `_cleanup` waits for earlier tasks before it cancels the monitor would
still call `_on_call_end` for a session that is being stopped (video_call.py:686-694; `Coordinator`
ends such a renewal with the stop, `VideoSession` lets it run on); the early return of
`answer_inbound` for a call that has been answered already (video_call.py:1141), after which the
coordinator sets the same two attributes as before.

Partly modelled: `async_shutdown`, the keepalive task and the go2rtc registration of the
coordinator; a channel the device closes, and reuse of its id, in the client; the
codec exchange of a session (one step) and the RTSP server it starts when it has none
(tests only); the UDP transport, the microphone's backchannel, SDP text and the NAL
fallback of the RTSP server (`RtpReceiver` takes the backchannel's queue as it comes); the
relay commands of `door.py`. Entities keep a flag or a counter each. In
`RtpReceiver` log counters and the legacy `start()` are left out.

Order of work:

1. done: the session slot and everything that competes for it (`Coordinator`), its
   abstract promise, its proofs; the client's registry and callbacks; the listener's
   answers and events, with the proof of the renewal timestamp; the RTSP server; the session
   from the inside and its abstract life; the RTP receiver; the set-up of the device.
   Proofs: every invariant the runs check, every action property, the refinements.
2. `async_shutdown` and the keepalive task; the device's END of a channel; the backchannel
   and the UDP transport of `RtspServer`.
3. entities: the ringing sensor's timer, the lock's relock, the event entity's filter.
