---------------------------- MODULE ChannelClient ----------------------------
(***************************************************************************)
(* IconaBridgeClient (client.py) and its Channel objects (channels.py): one*)
(* TCP connection shared by every coroutine of the integration.  Callers   *)
(* open named channels and send JSON requests on them; one receive loop    *)
(* reads the device's packets and decides whom each one is for.            *)
(*                                                                         *)
(* Nothing in an "opened" packet says which request it answers: the loop   *)
(* gives it to the first pending entry of the channel registry.  Nothing   *)
(* in a JSON reply says which request it answers either: the loop gives it *)
(* to the future registered under the channel's id.  So it does with what  *)
(* the device sends on the channel by itself, a push notification.         *)
(*                                                                         *)
(* The callers are arbitrary: any task may call any operation at any time, *)
(* as the coordinator, the video session, the keepalive and the door code  *)
(* do.  The device answers what it answers in the order it received it, and*)
(* sends JSON of its own at any time.                                      *)
(***************************************************************************)
EXTENDS Naturals, Sequences, SequencesExt

CONSTANTS
  Tasks,         \* the coroutines that use the client
  Channels,      \* pool of Channel objects
  Ids,           \* server channel ids the device may choose
  Names,         \* names channels are opened under
  Placeholders,  \* names placeholders are registered under
  None,          \* Python's None; a server_channel_id of 0
  Push,          \* stands for the request of JSON that answers none
  MaxRequests,   \* bound: JSON requests sent
  MaxPushes,     \* bound: JSON the device sends by itself
  MaxTimeouts    \* bound: waits that time out or are cancelled

Device == "device"  \* the device itself asked for the channel
Unused == "unused"  \* an id the device has not chosen yet

ASSUME ConstantsAssumption ==
  /\ None \notin Tasks \cup Channels \cup Ids \cup Names \cup Placeholders \cup Nat
  /\ {Device, Unused} \cap (Channels \cup {None}) = {}
  /\ Names \cap Placeholders = {}
  /\ Push \notin Nat \cup {None}
  /\ MaxRequests \in Nat /\ MaxPushes \in Nat /\ MaxTimeouts \in Nat

VARIABLES
  \* the client
  link,       \* "up", "lost" when the receive loop is over, "down" when closed
  registry,   \* the values of the dict _channels, in its order
  callbacks,  \* _callbacks: the future registered under an id
  \* the Channel objects
  name,       \* name, None for an object that does not exist yet
  requested,  \* objects made by open_channel: request_id is not 0
  id,         \* server_channel_id; is_open is set with it
  sendLock,   \* holder of send_lock
  \* the callers
  pc,         \* what a caller waits for
  chan,       \* the channel it waits for or sends on
  future,     \* the future it waits for, named by its request
  reply,      \* the result of that future
  \* the TCP stream and the device
  up,         \* what the device has not read yet
  down,       \* what the receive loop has not read yet
  given,      \* whose request the device chose an id for
  \* bounds and history
  requests,   \* JSON requests sent
  pushes,     \* JSON the device sent by itself
  timeouts,   \* waits given up
  disturbed,  \* an entry left the registry, or was replaced, while it was in use
  unsettled   \* ids with a request whose caller gave up before the reply, or that
              \* a push was taken for the reply to

clientVars == <<link, registry, callbacks>>
channelVars == <<name, requested, id, sendLock>>
callerVars == <<pc, chan, future, reply>>
streamVars == <<up, down, given>>
history == <<requests, pushes, timeouts, disturbed, unsettled>>
vars == <<clientVars, channelVars, callerVars, streamVars, history>>

Packets == [type : {"opened", "deviceOpen", "json"}, id : Ids, request : Nat \cup {Push}]
Requests == [type : {"open"}, chan : Channels]
              \cup [type : {"json"}, id : Ids, request : Nat]
PCs == {"idle", "opening", "expecting", "locking", "replying"}

TypeOK ==
  /\ link \in {"up", "lost", "down"}
  /\ registry \in Seq(Channels)
  /\ callbacks \in [Ids -> Nat \cup {None}]
  /\ name \in [Channels -> Names \cup Placeholders \cup {None}]
  /\ requested \in SUBSET Channels
  /\ id \in [Channels -> Ids \cup {None}]
  /\ sendLock \in [Channels -> Tasks \cup {None}]
  /\ pc \in [Tasks -> PCs]
  /\ chan \in [Tasks -> Channels \cup {None}]
  /\ future \in [Tasks -> Nat \cup {None}]
  /\ reply \in [Tasks -> Nat \cup {Push, None}]
  /\ up \in Seq(Requests) /\ down \in Seq(Packets)
  /\ given \in [Ids -> Channels \cup {Device, Unused}]
  /\ requests \in Nat /\ pushes \in Nat /\ timeouts \in Nat
  /\ disturbed \in BOOLEAN /\ unsettled \in SUBSET Ids
-----------------------------------------------------------------------------
(* The registry *)

Registered == {registry[k] : k \in DOMAIN registry}
IsOpen(ch) == id[ch] # None
Pending(ch) == ch \in Registered \cap requested /\ ~IsOpen(ch)

Calls(t, p, ch) ==
  /\ pc' = [pc EXCEPT ![t] = p] /\ chan' = [chan EXCEPT ![t] = ch]

\* The caller has its result, or an exception.
Returns(t) ==
  /\ Calls(t, "idle", None)
  /\ future' = [future EXCEPT ![t] = None] /\ reply' = [reply EXCEPT ![t] = None]

GivesUp(t) == timeouts < MaxTimeouts /\ timeouts' = timeouts + 1

\* Channel(name=n, ...) and self._channels[n] = channel: a dict keeps the
\* position of a key it already has.
Register(ch, n) ==
  /\ name[ch] = None
  /\ name' = [name EXCEPT ![ch] = n]
  /\ IF \E z \in Registered : name[z] = n
     THEN registry' = [k \in DOMAIN registry |->
                         IF name[registry[k]] = n THEN ch ELSE registry[k]]
     ELSE registry' = Append(registry, ch)

\* The entries an operation on the name n takes out of use.
Named(n) == {ch \in Registered : name[ch] = n}

\* _send: once the connection is closed it raises; before that, a write to a
\* connection that is lost may raise or go nowhere.
Sends(r) == link # "down" /\ up' = Append(up, r)
SendRaises == link # "up" /\ UNCHANGED up

\* open_channel up to its wait.  The entry is made before the send.
OpenChannel(t, n) ==
  /\ pc[t] = "idle"
  /\ \E ch \in Channels :
       /\ Register(ch, n)
       /\ requested' = requested \cup {ch}
       /\ \/ Sends([type |-> "open", chan |-> ch]) /\ Calls(t, "opening", ch)
          \/ SendRaises /\ UNCHANGED <<pc, chan>>
  /\ disturbed' = (disturbed \/ Named(n) # {})
  /\ UNCHANGED <<link, callbacks, id, sendLock, future, reply, down, given,
                 requests, pushes, timeouts, unsettled>>

\* register_placeholder_channel: request_id is 0 and nothing is sent.
RegisterPlaceholder(n) ==
  /\ \E ch \in Channels : Register(ch, n)
  /\ UNCHANGED <<link, callbacks, requested, id, sendLock, callerVars, streamVars,
                 history>>

\* The wait for a placeholder's open_event, at once in start() and in a renewal,
\* and only when the call is answered after start_inbound().
AwaitPlaceholder(t, ch) ==
  /\ pc[t] = "idle" /\ name[ch] \in Placeholders
  /\ Calls(t, "expecting", ch)
  /\ UNCHANGED <<clientVars, channelVars, future, reply, streamVars, history>>

\* open_event is set.
ChannelOpened(t) ==
  /\ pc[t] \in {"opening", "expecting"} /\ IsOpen(chan[t])
  /\ Returns(t)
  /\ UNCHANGED <<clientVars, channelVars, streamVars, history>>

\* READ_TIMEOUT, or VIDEO_RESPONSE_TIMEOUT for a placeholder: the entry stays.
OpenTimesOut(t) ==
  /\ pc[t] \in {"opening", "expecting"} /\ ~IsOpen(chan[t])
  /\ GivesUp(t)
  /\ Returns(t)
  /\ UNCHANGED <<clientVars, channelVars, streamVars, requests, pushes, disturbed,
                 unsettled>>

\* remove_channel, by whoever cleans up: the one entry under the name.
RemoveChannel(n) ==
  /\ \E k \in DOMAIN registry :
       name[registry[k]] = n /\ registry' = RemoveAt(registry, k)
  /\ disturbed' = (disturbed \/ \E ch \in Named(n) : Pending(ch))
  /\ UNCHANGED <<link, callbacks, channelVars, callerVars, streamVars,
                 requests, pushes, timeouts, unsettled>>
-----------------------------------------------------------------------------
(* send_json *)

\* Under send_lock: the future is registered and the request is written; when
\* _send raises the future stays registered.
Transmit(t, ch) ==
  /\ requests < MaxRequests
  /\ requests' = requests + 1
  /\ callbacks' = [callbacks EXCEPT ![id[ch]] = requests]
  /\ \/ /\ Sends([type |-> "json", id |-> id[ch], request |-> requests])
        /\ Calls(t, "replying", ch)
        /\ future' = [future EXCEPT ![t] = requests]
        /\ sendLock' = [sendLock EXCEPT ![ch] = t]
        /\ UNCHANGED reply
     \/ /\ SendRaises
        /\ Returns(t)
        /\ UNCHANGED sendLock

\* Mutant: no send_lock.
SendJson_Unlocked(t, ch) ==
  /\ pc[t] = "idle" /\ IsOpen(ch)
  /\ Transmit(t, ch)
  /\ UNCHANGED <<link, registry, name, requested, id, down, given, pushes,
                 timeouts, disturbed, unsettled>>

\* A caller that got the channel earlier sends on it, registered or not.
SendJson(t, ch) ==
  /\ pc[t] = "idle" /\ IsOpen(ch)
  /\ \/ /\ sendLock[ch] = None
        /\ Transmit(t, ch)
     \/ /\ sendLock[ch] # None
        /\ Calls(t, "locking", ch)
        /\ UNCHANGED <<callbacks, sendLock, future, reply, up, requests>>
  /\ UNCHANGED <<link, registry, name, requested, id, down, given, pushes,
                 timeouts, disturbed, unsettled>>

LockAcquired(t) ==
  /\ pc[t] = "locking" /\ sendLock[chan[t]] = None
  /\ Transmit(t, chan[t])
  /\ UNCHANGED <<link, registry, name, requested, id, down, given, pushes,
                 timeouts, disturbed, unsettled>>

Unlock(t) == sendLock' = [sendLock EXCEPT ![chan[t]] = None]

ReplyArrived(t) ==
  /\ pc[t] = "replying" /\ reply[t] # None
  /\ Unlock(t) /\ Returns(t)
  /\ UNCHANGED <<clientVars, name, requested, id, streamVars, history>>

\* READ_TIMEOUT: whatever is registered under the id is dropped.
ReplyTimesOut(t) ==
  /\ pc[t] = "replying" /\ reply[t] = None
  /\ GivesUp(t)
  /\ callbacks' = [callbacks EXCEPT ![id[chan[t]]] = None]
  /\ unsettled' = unsettled \cup {id[chan[t]]}
  /\ Unlock(t) /\ Returns(t)
  /\ UNCHANGED <<link, registry, name, requested, id, streamVars, requests,
                 pushes, disturbed>>

\* Mutant: a cancelled send_json keeps the lock.
Cancelled_KeepsLock(t) ==
  /\ pc[t] \in {"locking", "replying"}
  /\ GivesUp(t)
  /\ unsettled' = IF pc[t] = "replying" THEN unsettled \cup {id[chan[t]]} ELSE unsettled
  /\ Returns(t)
  /\ UNCHANGED <<clientVars, channelVars, streamVars, requests, pushes, disturbed>>

\* The keepalive's own 10 s limit, or the end of the caller's task, cancels
\* send_json, wherever it waits; its future stays registered.
Cancelled(t) ==
  /\ pc[t] \in {"locking", "replying"}
  /\ GivesUp(t)
  /\ unsettled' = IF pc[t] = "replying" THEN unsettled \cup {id[chan[t]]} ELSE unsettled
  /\ IF pc[t] = "replying" THEN Unlock(t) ELSE UNCHANGED sendLock
  /\ Returns(t)
  /\ UNCHANGED <<clientVars, name, requested, id, streamVars, requests, pushes,
                 disturbed>>

\* The receive loop ends: EOF, an error, 120 s without data, or the first half of
\* disconnect.  Nothing is read any more.
ReceiveEnds ==
  /\ link = "up" /\ link' = "lost" /\ down' = <<>>
  /\ disturbed' = TRUE
  /\ UNCHANGED <<registry, callbacks, channelVars, callerVars, up, given, requests,
                 pushes, timeouts, unsettled>>

\* The end of disconnect: the futures that are not done are cancelled, and raise in
\* their callers; callers of open_channel wait on for their timeout.
DisconnectEnds ==
  LET lost == {t \in Tasks : pc[t] = "replying" /\ reply[t] = None
                               /\ callbacks[id[chan[t]]] = future[t]}
  IN /\ link = "lost" /\ link' = "down"
     /\ registry' = <<>> /\ callbacks' = [i \in Ids |-> None]
     /\ up' = <<>>
     /\ pc' = [t \in Tasks |-> IF t \in lost THEN "idle" ELSE pc[t]]
     /\ chan' = [t \in Tasks |-> IF t \in lost THEN None ELSE chan[t]]
     /\ future' = [t \in Tasks |-> IF t \in lost THEN None ELSE future[t]]
     /\ sendLock' = [ch \in Channels |->
                       IF sendLock[ch] \in lost THEN None ELSE sendLock[ch]]
     /\ UNCHANGED <<name, requested, id, reply, down, given, history>>
-----------------------------------------------------------------------------
(* _receive_loop, _dispatch and _dispatch_command_response *)

\* Mutant: request_id is not looked at.
Candidates_Any(asked) == {k \in DOMAIN registry : ~IsOpen(registry[k])}

\* The entries a kind of open packet may be for: those open_channel is waiting
\* on, or the placeholders.
Candidates(asked) ==
  {k \in DOMAIN registry : ~IsOpen(registry[k]) /\ (registry[k] \in requested) = asked}

\* Mutant: the last candidate gets the id.
Assign_Last(asked, i) ==
  IF Candidates(asked) = {} THEN UNCHANGED id
  ELSE \E k \in Candidates(asked) :
         /\ \A j \in Candidates(asked) : k >= j
         /\ id' = [id EXCEPT ![registry[k]] = i]

\* The first candidate in the registry's order gets the id.
Assign(asked, i) ==
  IF Candidates(asked) = {} THEN UNCHANGED id
  ELSE \E k \in Candidates(asked) :
         /\ \A j \in Candidates(asked) : k <= j
         /\ id' = [id EXCEPT ![registry[k]] = i]

\* A command packet: the answer to an open request, or the device's own request.
DispatchOpen ==
  LET p == Head(down)
  IN /\ down # <<>> /\ p.type # "json"
     /\ down' = Tail(down)
     /\ Assign(p.type = "opened", p.id)
     /\ UNCHANGED <<clientVars, name, requested, sendLock, callerVars, up, given,
                    history>>

\* A packet on a channel: the registered future takes it, whoever waits for it and
\* whether it answers a request or not; without one it is queued or handed to the
\* push callback.
DispatchJson ==
  LET p == Head(down)
      waiting == {t \in Tasks : pc[t] = "replying" /\ future[t] = callbacks[p.id]}
  IN /\ down # <<>> /\ p.type = "json"
     /\ down' = Tail(down)
     /\ callbacks' = [callbacks EXCEPT ![p.id] = None]
     /\ reply' = [t \in Tasks |->
                    IF t \in waiting /\ reply[t] = None THEN p.request ELSE reply[t]]
     /\ unsettled' = IF p.request = Push /\ callbacks[p.id] # None
                     THEN unsettled \cup {p.id} ELSE unsettled
     /\ UNCHANGED <<link, registry, channelVars, pc, chan, future, up, given,
                    requests, pushes, timeouts, disturbed>>
-----------------------------------------------------------------------------
(* The device *)

DeviceAnswers ==
  LET r == Head(up)
  IN /\ link = "up" /\ up # <<>> /\ up' = Tail(up)
     /\ \/ /\ r.type = "open"
           /\ \E i \in Ids :
                /\ given[i] = Unused /\ given' = [given EXCEPT ![i] = r.chan]
                /\ down' = Append(down, [type |-> "opened", id |-> i, request |-> 0])
        \/ /\ r.type = "json"
           /\ down' = Append(down, [type |-> "json", id |-> r.id, request |-> r.request])
           /\ UNCHANGED given
     /\ UNCHANGED <<clientVars, channelVars, callerVars, history>>

\* The device sends JSON by itself, on any channel it knows: push registration and
\* keepalive send their requests on the channel the notifications come on.
DevicePushes ==
  /\ link = "up" /\ pushes < MaxPushes /\ pushes' = pushes + 1
  /\ \E i \in Ids :
       /\ given[i] # Unused
       /\ down' = Append(down, [type |-> "json", id |-> i, request |-> Push])
  /\ UNCHANGED <<clientVars, channelVars, callerVars, up, given, requests, timeouts,
                 disturbed, unsettled>>

DeviceOpens ==
  /\ link = "up"
  /\ \E i \in Ids :
       /\ given[i] = Unused /\ given' = [given EXCEPT ![i] = Device]
       /\ down' = Append(down, [type |-> "deviceOpen", id |-> i, request |-> 0])
  /\ UNCHANGED <<clientVars, channelVars, callerVars, up, history>>
-----------------------------------------------------------------------------
Init ==
  /\ link = "up"
  /\ registry = <<>> /\ callbacks = [i \in Ids |-> None]
  /\ name = [ch \in Channels |-> None] /\ requested = {}
  /\ id = [ch \in Channels |-> None] /\ sendLock = [ch \in Channels |-> None]
  /\ pc = [t \in Tasks |-> "idle"] /\ chan = [t \in Tasks |-> None]
  /\ future = [t \in Tasks |-> None] /\ reply = [t \in Tasks |-> None]
  /\ up = <<>> /\ down = <<>> /\ given = [i \in Ids |-> Unused]
  /\ requests = 0 /\ pushes = 0 /\ timeouts = 0
  /\ disturbed = FALSE /\ unsettled = {}

Call(t) ==
  \/ \E n \in Names : OpenChannel(t, n)
  \/ \E ch \in Channels : AwaitPlaceholder(t, ch) \/ SendJson(t, ch)

CallStep(t) ==
  \/ ChannelOpened(t) \/ OpenTimesOut(t)
  \/ LockAcquired(t) \/ ReplyArrived(t) \/ ReplyTimesOut(t) \/ Cancelled(t)

Receive == DispatchOpen \/ DispatchJson

Next ==
  \/ \E t \in Tasks : Call(t)
  \/ \E t \in Tasks : CallStep(t)
  \/ \E n \in Placeholders : RegisterPlaceholder(n)
  \/ \E n \in Names \cup Placeholders : RemoveChannel(n)
  \/ Receive
  \/ ReceiveEnds \/ DisconnectEnds
  \/ DeviceAnswers \/ DevicePushes \/ DeviceOpens

Spec == Init /\ [][Next]_vars
-----------------------------------------------------------------------------
(* Safety *)

\* "This placeholder will NOT steal RTPC1/RTPC2 open responses" (start() in
\* video_call.py), nor does a channel the device opens complete an open_channel.
OwnKind ==
  \A ch \in Channels :
    IsOpen(ch) => (ch \in requested <=> given[id[ch]] # Device)

\* While a caller waits for a reply, the future registered under its channel's id
\* is its own: send_lock keeps a second caller from replacing it.
CallbackKept ==
  \A t \in Tasks :
    pc[t] = "replying" /\ reply[t] = None
      => callbacks[id[chan[t]]] = future[t] /\ sendLock[chan[t]] = t

\* Whoever holds a send_lock is waiting for its reply: a caller that gives up, is
\* cancelled or loses the connection never leaves the channel locked for the rest.
LockReleased ==
  \A ch \in Channels :
    sendLock[ch] # None => pc[sendLock[ch]] = "replying" /\ chan[sendLock[ch]] = ch

\* As long as no entry was removed or replaced while its request was under way,
\* a channel gets the id the device chose for it, however many opens overlap and
\* time out: the registry's order is the order of the requests on the wire.
OwnIdInOrder ==
  ~disturbed => \A ch \in requested : IsOpen(ch) => given[id[ch]] = ch

\* A caller gets the reply to its own request, unless an earlier caller gave up on one
\* of the same channel or the device sent a push there while one was registered; and
\* what it gets instead then is never a reply that another caller waits for.
OwnReplyInTime ==
  \A t \in Tasks :
    pc[t] = "replying" /\ reply[t] \notin {None, future[t]}
      => /\ id[chan[t]] \in unsettled
         /\ \A u \in Tasks : future[u] # reply[t]
-----------------------------------------------------------------------------
(* What comments of the source say and the code does not keep *)

\* "Open a named channel.  Returns Channel with server-assigned ID"
\* (open_channel): a channel has the id the device assigned to it.
OwnId == \A ch \in requested : IsOpen(ch) => given[id[ch]] = ch

\* "Send a JSON message on a channel and wait for JSON response" (send_json): what a
\* caller gets is the reply to its request.
OwnReply ==
  \A t \in Tasks : pc[t] = "replying" /\ reply[t] # None => reply[t] = future[t]

\* A placeholder whose caller has given up does "not steal future device-initiated
\* channel opens" (release_placeholder_channel) from one that is waited for.
WaiterGetsDeviceChannel ==
  [][\A ch \in Registered \ requested :
       id[ch] = None /\ id'[ch] # None /\ (\A t \in Tasks : chan[t] # ch)
         => \A z \in Registered \ requested : IsOpen(z) \/ \A t \in Tasks : chan[t] # z]_vars
=============================================================================
