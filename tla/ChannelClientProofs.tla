------------------------- MODULE ChannelClientProofs -------------------------
(***************************************************************************)
(* What holds of the client's registry, locks and replies for any number   *)
(* of callers, channels, ids and names, any bounds, and whatever the       *)
(* callers ask for in whatever order.                                      *)
(***************************************************************************)
EXTENDS ChannelClient, SequenceTheorems, TLAPS

USE ConstantsAssumption

\* A dict has one entry for a key; an object exists once it has a name, and
\* open_channel makes objects under its own names.
KeysOnce ==
  /\ \A k \in DOMAIN registry : name[registry[k]] # None
  /\ \A j, k \in DOMAIN registry : name[registry[j]] = name[registry[k]] => j = k
  /\ \A ch \in requested : name[ch] \in Names
  /\ \A ch \in Channels : IsOpen(ch) => name[ch] # None

Opens(k) == k \in DOMAIN down /\ down[k].type # "json"

\* An id is chosen once and reaches one channel, of the kind it was chosen for.
IdsOnce ==
  /\ \A ch \in Channels : IsOpen(ch) => given[id[ch]] # Unused
  /\ \A ch, z \in Channels : IsOpen(ch) /\ id[ch] = id[z] => ch = z
  /\ \A k \in DOMAIN down : Opens(k) =>
       /\ given[down[k].id] # Unused
       /\ down[k].type = "opened" <=> given[down[k].id] # Device
       /\ \A ch \in Channels : id[ch] # down[k].id
  /\ \A j, k \in DOMAIN down : Opens(j) /\ Opens(k) /\ down[j].id = down[k].id => j = k
  /\ OwnKind

\* Who holds a lock waits for its reply, and the other way round; the future registered
\* under an id is that of the request last sent there.
LocksHeld ==
  /\ \A t \in Tasks : pc[t] # "idle" => chan[t] \in Channels
  /\ \A t \in Tasks : pc[t] \in {"locking", "replying"} => IsOpen(chan[t])
  /\ \A t \in Tasks : pc[t] = "replying" =>
       sendLock[chan[t]] = t /\ future[t] \in Nat /\ future[t] < requests
  /\ \A t \in Tasks : reply[t] # None \/ future[t] # None => pc[t] = "replying"
  /\ LockReleased
  /\ CallbackKept
  /\ \A i \in Ids : callbacks[i] # None => callbacks[i] < requests
  /\ \A i, j \in Ids : callbacks[i] # None /\ callbacks[i] = callbacks[j] => i = j

\* Someone waits for the answer to this request on this id.
Awaited(i, r) ==
  \E t \in Tasks : /\ pc[t] = "replying" /\ reply[t] = None
                   /\ id[chan[t]] = i /\ future[t] = r

\* Someone sent this request on this id and has not returned.
SentOn(i, r) == \E t \in Tasks : pc[t] = "replying" /\ id[chan[t]] = i /\ future[t] = r

\* A request, or the reply to one.
Numbered(m) == m.type = "json" /\ m.request # Push

\* What is said of a request or its reply on the wire.
Sound(m) ==
  Numbered(m) =>
    /\ m.request < requests
    /\ \A i : SentOn(i, m.request) => i = m.id
    /\ m.id \notin unsettled => Awaited(m.id, m.request)

Differ(m, w) == Numbered(m) /\ Numbered(w) => m.request # w.request

\* What is said of the replies callers have.
RepliesRight ==
  /\ \A t \in Tasks : reply[t] \in Nat => reply[t] < requests
  /\ OwnReplyInTime

\* Each request is once on the wire, where it was sent, and unless its id is unsettled
\* somebody waits for it there.
RepliesAwaited ==
  /\ link # "up" => down = <<>>
  /\ \A k \in DOMAIN up : Sound(up[k])
  /\ \A k \in DOMAIN down : Sound(down[k])
  /\ \A j, k \in DOMAIN up : j # k => Differ(up[j], up[k])
  /\ \A j, k \in DOMAIN down : j # k => Differ(down[j], down[k])
  /\ \A j \in DOMAIN up, k \in DOMAIN down : Differ(up[j], down[k])
  /\ RepliesRight

\* The first of two channels in the registry.
Before(ch, z) ==
  \A j, k \in DOMAIN registry : registry[j] = ch /\ registry[k] = z => j < k

Asking(k) == k \in DOMAIN up /\ up[k].type = "open"
Answered(k) == k \in DOMAIN down /\ down[k].type = "opened"
Asker(k) == given[down[k].id]

\* The entries that wait for an id and the requests on the wire are the same, in the same
\* order, the answered ones first.
InOrder ==
  /\ \A ch \in requested : IsOpen(ch) => given[id[ch]] = ch
  /\ \A k \in DOMAIN up : Asking(k) => Pending(up[k].chan)
  /\ \A k \in DOMAIN down : Answered(k) => Pending(Asker(k))
  /\ \A j, k \in DOMAIN up : Asking(j) /\ Asking(k) /\ j < k => Before(up[j].chan, up[k].chan)
  /\ \A j, k \in DOMAIN down : Answered(j) /\ Answered(k) /\ j < k => Before(Asker(j), Asker(k))
  /\ \A j \in DOMAIN down, k \in DOMAIN up :
       Answered(j) /\ Asking(k) => Before(Asker(j), up[k].chan)
  /\ \A ch \in Channels : Pending(ch) =>
       \/ \E k \in DOMAIN up : Asking(k) /\ up[k].chan = ch
       \/ \E k \in DOMAIN down : Answered(k) /\ Asker(k) = ch

\* So it is unless an entry was removed or replaced while it was in use.
OrderKept == (link # "up" => disturbed) /\ (~disturbed => InOrder)
-----------------------------------------------------------------------------
(* Sequences *)

LEMMA Appended ==
  ASSUME NEW S, NEW s \in Seq(S), NEW e \in S
  PROVE  /\ Append(s, e) \in Seq(S)
         /\ \A k \in DOMAIN Append(s, e) :
              \/ k \in DOMAIN s /\ Append(s, e)[k] = s[k]
              \/ k = Len(s) + 1 /\ Append(s, e)[k] = e
         /\ \A k \in DOMAIN s : k \in DOMAIN Append(s, e) /\ k < Len(s) + 1
         /\ Len(s) + 1 \in DOMAIN Append(s, e) /\ Append(s, e)[Len(s) + 1] = e
         /\ \A k \in DOMAIN s : Append(s, e)[k] = s[k]
         /\ DOMAIN s \subseteq Nat /\ Len(s) \in Nat
BY AppendProperties, LenProperties

LEMMA Dropped ==
  ASSUME NEW S, NEW s \in Seq(S), s # <<>>
  PROVE  /\ Tail(s) \in Seq(S) /\ Head(s) \in S
         /\ 1 \in DOMAIN s /\ Head(s) = s[1]
         /\ \A k \in DOMAIN Tail(s) : /\ k + 1 \in DOMAIN s /\ Tail(s)[k] = s[k + 1]
                                      /\ k \in Nat /\ 1 < k + 1
         /\ \A k \in DOMAIN s : k # 1 => k \in Nat /\ k - 1 \in DOMAIN Tail(s)
                                           /\ Tail(s)[k - 1] = s[k]
BY HeadTailProperties, LenProperties

LEMMA Removed ==
  ASSUME NEW S, NEW s \in Seq(S), NEW i \in DOMAIN s, NEW c, c = RemoveAt(s, i)
  PROVE  /\ c \in Seq(S)
         /\ \A k \in DOMAIN c :
              /\ k \in Nat
              /\ k < i => k \in DOMAIN s /\ c[k] = s[k]
              /\ k >= i => k + 1 \in DOMAIN s /\ c[k] = s[k + 1]
         /\ \A k \in DOMAIN s : k # i => \E j \in DOMAIN c : c[j] = s[k]
<1> DEFINE a == SubSeq(s, 1, i - 1)
           b == SubSeq(s, i + 1, Len(s))
<1>1. Len(s) \in Nat /\ DOMAIN s = 1 .. Len(s) /\ i \in 1 .. Len(s)
  BY LenProperties
<1>2. a \in Seq(S) /\ Len(a) = i - 1 /\ \A k \in 1 .. i - 1 : a[k] = s[k]
  BY <1>1, SubSeqProperties
<1>3. b \in Seq(S) /\ Len(b) = Len(s) - i /\ \A k \in 1 .. Len(s) - i : b[k] = s[i + k]
  BY <1>1, SubSeqProperties
<1>4. c = a \o b
  BY Zenon DEF RemoveAt
<1> HIDE DEF a, b
<1>5. /\ c \in Seq(S) /\ Len(c) = Len(a) + Len(b)
      /\ \A k \in 1 .. Len(a) + Len(b) : c[k] = IF k <= Len(a) THEN a[k] ELSE b[k - Len(a)]
  <2>1. a \in Seq(S) /\ b \in Seq(S)
    BY ONLY <1>2, <1>3
  <2> QED BY ONLY <1>4, <2>1, ConcatProperties, ZenonT(30)
<1>6. DOMAIN c = 1 .. Len(s) - 1
  BY ONLY <1>1, <1>2, <1>3, <1>5, LenProperties
<1>7. \A k \in 1 .. Len(s) - 1 : c[k] = IF k < i THEN s[k] ELSE s[k + 1]
  <2> SUFFICES ASSUME NEW k \in 1 .. Len(s) - 1
               PROVE  c[k] = IF k < i THEN s[k] ELSE s[k + 1]
    OBVIOUS
  <2>1. c[k] = IF k <= Len(a) THEN a[k] ELSE b[k - Len(a)]
    <3>1. Len(a) + Len(b) = Len(s) - 1
      BY ONLY <1>1, <1>2, <1>3
    <3> QED BY ONLY <1>5, <3>1
  <2>2. CASE k < i
    BY ONLY <1>1, <1>2, <2>1, <2>2
  <2>3. CASE ~(k < i)
    <3>1. k - Len(a) \in 1 .. Len(s) - i /\ ~(k <= Len(a)) /\ i + (k - Len(a)) = k + 1
      BY ONLY <1>1, <1>2, <2>3
    <3> QED BY ONLY <1>3, <2>1, <2>3, <3>1
  <2> QED BY ONLY <2>2, <2>3
<1>8. ASSUME NEW k \in DOMAIN s, k # i
      PROVE  \E j \in DOMAIN c : c[j] = s[k]
  <2>1. CASE k < i
    BY ONLY <1>1, <1>6, <1>7, <1>8, <2>1
  <2>2. CASE k > i
    <3>1. k - 1 \in 1 .. Len(s) - 1 /\ ~(k - 1 < i) /\ (k - 1) + 1 = k
      BY ONLY <1>1, <1>8, <2>2
    <3> QED BY ONLY <1>6, <1>7, <3>1
  <2> QED BY ONLY <1>1, <1>8, <2>1, <2>2
<1>9. ASSUME NEW k \in DOMAIN c
      PROVE  /\ k \in Nat
             /\ k < i => k \in DOMAIN s /\ c[k] = s[k]
             /\ k >= i => k + 1 \in DOMAIN s /\ c[k] = s[k + 1]
  BY ONLY <1>1, <1>6, <1>7, <1>9
<1> QED BY ONLY <1>5, <1>8, <1>9, Zenon

-----------------------------------------------------------------------------
(* Typing *)

CallTypes ==
  /\ pc \in [Tasks -> PCs] /\ chan \in [Tasks -> Channels \cup {None}]
  /\ future \in [Tasks -> Nat \cup {None}] /\ reply \in [Tasks -> Nat \cup {Push, None}]

LEMMA CallsTyped ==
  ASSUME TypeOK, NEW t \in Tasks, NEW p \in PCs, NEW ch \in Channels \cup {None}, Calls(t, p, ch)
  PROVE  pc' \in [Tasks -> PCs] /\ chan' \in [Tasks -> Channels \cup {None}]
BY DEF TypeOK, Calls

LEMMA ReturnsTyped ==
  ASSUME TypeOK, NEW t \in Tasks, Returns(t)
  PROVE  CallTypes'
BY CallsTyped DEF TypeOK, Returns, CallTypes, PCs

LEMMA RegisterTyped ==
  ASSUME TypeOK, NEW ch \in Channels, NEW n \in Names \cup Placeholders, Register(ch, n)
  PROVE  registry' \in Seq(Channels) /\ name' \in [Channels -> Names \cup Placeholders \cup {None}]
<1>1. [k \in DOMAIN registry |-> IF name[registry[k]] = n THEN ch ELSE registry[k]] \in Seq(Channels)
  <2>1. Len(registry) \in Nat /\ DOMAIN registry = 1 .. Len(registry)
    BY LenProperties DEF TypeOK
  <2>2. \A k \in 1 .. Len(registry) : registry[k] \in Channels
    BY ElementOfSeq DEF TypeOK
  <2> DEFINE f == [k \in 1 .. Len(registry) |-> IF name[registry[k]] = n THEN ch ELSE registry[k]]
  <2>3. f \in [1 .. Len(registry) -> Channels]
    BY <2>2
  <2>4. f \in Seq(Channels)
    BY <2>1, <2>3, SeqDef
  <2> QED BY <2>1, <2>4
<1>2. Append(registry, ch) \in Seq(Channels)
  BY Appended DEF TypeOK
<1> QED BY <1>1, <1>2 DEF TypeOK, Register

LEMMA SendsTyped ==
  ASSUME TypeOK, NEW r \in Requests, Sends(r)
  PROVE  up' \in Seq(Requests)
BY Appended DEF TypeOK, Sends

LEMMA OpenChannelTyped ==
  ASSUME TypeOK, NEW t \in Tasks, NEW n \in Names, OpenChannel(t, n)
  PROVE  TypeOK'
<1>1. PICK ch \in Channels :
        /\ Register(ch, n) /\ requested' = requested \cup {ch}
        /\ \/ Sends([type |-> "open", chan |-> ch]) /\ Calls(t, "opening", ch)
           \/ SendRaises /\ UNCHANGED <<pc, chan>>
  BY DEF OpenChannel
<1>2. [type |-> "open", chan |-> ch] \in Requests /\ "opening" \in PCs
  BY DEF Requests, PCs
<1>3. up' \in Seq(Requests)
  BY <1>1, <1>2, SendsTyped DEF SendRaises, TypeOK
<1>4. pc' \in [Tasks -> PCs] /\ chan' \in [Tasks -> Channels \cup {None}]
  BY <1>1, <1>2, CallsTyped DEF TypeOK
<1>5. registry' \in Seq(Channels) /\ name' \in [Channels -> Names \cup Placeholders \cup {None}]
  BY <1>1, RegisterTyped
<1>6. requested' \in SUBSET Channels
  BY <1>1 DEF TypeOK
<1>7. disturbed' \in BOOLEAN
  BY Zenon DEF OpenChannel
<1> QED BY <1>3, <1>4, <1>5, <1>6, <1>7 DEF TypeOK, OpenChannel

LEMMA RegisterPlaceholderTyped ==
  ASSUME TypeOK, NEW n \in Placeholders, RegisterPlaceholder(n)
  PROVE  TypeOK'
BY RegisterTyped DEF TypeOK, RegisterPlaceholder, callerVars, streamVars, history

LEMMA AwaitPlaceholderTyped ==
  ASSUME TypeOK, NEW t \in Tasks, NEW ch \in Channels, AwaitPlaceholder(t, ch)
  PROVE  TypeOK'
<1>1. pc' \in [Tasks -> PCs] /\ chan' \in [Tasks -> Channels \cup {None}]
  BY CallsTyped DEF AwaitPlaceholder, PCs
<1> QED BY <1>1 DEF TypeOK, AwaitPlaceholder, clientVars, channelVars, streamVars, history

LEMMA WaitEndsTyped ==
  ASSUME TypeOK, NEW t \in Tasks, ChannelOpened(t) \/ OpenTimesOut(t)
  PROVE  TypeOK'
BY ReturnsTyped
DEF TypeOK, CallTypes, ChannelOpened, OpenTimesOut, GivesUp, clientVars, channelVars, streamVars,
    history

LEMMA RemoveChannelTyped ==
  ASSUME TypeOK, NEW n \in Names \cup Placeholders, RemoveChannel(n)
  PROVE  TypeOK'
<1>1. registry' \in Seq(Channels)
  BY Removed DEF TypeOK, RemoveChannel
<1>2. disturbed' \in BOOLEAN
  BY Zenon DEF RemoveChannel
<1> QED BY <1>1, <1>2 DEF TypeOK, RemoveChannel, channelVars, callerVars, streamVars

LEMMA TransmitTyped ==
  ASSUME TypeOK, NEW t \in Tasks, NEW ch \in Channels, IsOpen(ch), Transmit(t, ch)
  PROVE  /\ CallTypes' /\ up' \in Seq(Requests)
         /\ callbacks' \in [Ids -> Nat \cup {None}] /\ requests' \in Nat
         /\ sendLock' \in [Channels -> Tasks \cup {None}]
<1>1. [type |-> "json", id |-> id[ch], request |-> requests] \in Requests
  BY DEF TypeOK, IsOpen, Requests
<1>2. callbacks' \in [Ids -> Nat \cup {None}] /\ requests' \in Nat
  <2>1. callbacks' = [callbacks EXCEPT ![id[ch]] = requests] /\ requests' = requests + 1
    BY DEF Transmit
  <2>2. callbacks \in [Ids -> Nat \cup {None}] /\ requests \in Nat
    BY DEF TypeOK
  <2>3. requests' \in Nat
    BY ONLY <2>1, <2>2
  <2>4. callbacks' \in [Ids -> Nat \cup {None}]
    BY ONLY <2>1, <2>2
  <2> QED BY ONLY <2>3, <2>4
<1>3. CASE /\ Sends([type |-> "json", id |-> id[ch], request |-> requests])
           /\ Calls(t, "replying", ch)
           /\ future' = [future EXCEPT ![t] = requests]
           /\ sendLock' = [sendLock EXCEPT ![ch] = t]
           /\ UNCHANGED reply
  <2>1. up' \in Seq(Requests)
    BY <1>1, <1>3, SendsTyped
  <2>2. pc' \in [Tasks -> PCs] /\ chan' \in [Tasks -> Channels \cup {None}]
    BY <1>3, CallsTyped DEF PCs
  <2>3. /\ future' \in [Tasks -> Nat \cup {None}] /\ reply' \in [Tasks -> Nat \cup {Push, None}]
        /\ sendLock' \in [Channels -> Tasks \cup {None}]
    BY <1>3 DEF TypeOK
  <2> QED BY <1>2, <2>1, <2>2, <2>3 DEF CallTypes
<1>4. CASE SendRaises /\ Returns(t) /\ UNCHANGED sendLock
  BY <1>2, <1>4, ReturnsTyped DEF TypeOK, SendRaises
<1> QED BY <1>3, <1>4 DEF Transmit

LEMMA SendJsonTyped ==
  ASSUME TypeOK, NEW t \in Tasks, NEW ch \in Channels, SendJson(t, ch)
  PROVE  TypeOK'
<1>1. CASE Transmit(t, ch)
  BY <1>1, TransmitTyped DEF TypeOK, SendJson, CallTypes
<1>2. CASE /\ Calls(t, "locking", ch)
           /\ UNCHANGED <<callbacks, sendLock, future, reply, up, requests>>
  BY <1>2, CallsTyped DEF TypeOK, SendJson, PCs
<1> QED BY <1>1, <1>2 DEF SendJson

LEMMA LockAcquiredTyped ==
  ASSUME TypeOK, LocksHeld, NEW t \in Tasks, LockAcquired(t)
  PROVE  TypeOK'
<1>1. chan[t] \in Channels /\ IsOpen(chan[t])
  BY DEF LocksHeld, LockAcquired
<1> QED BY <1>1, TransmitTyped DEF TypeOK, LockAcquired, CallTypes

LEMMA UnlocksTyped ==
  ASSUME TypeOK, NEW t \in Tasks, Unlock(t)
  PROVE  sendLock' \in [Channels -> Tasks \cup {None}]
BY DEF TypeOK, Unlock

LEMMA SendEndsTyped ==
  ASSUME TypeOK, LocksHeld, NEW t \in Tasks, ReplyArrived(t) \/ ReplyTimesOut(t) \/ Cancelled(t)
  PROVE  TypeOK'
<1>1. CASE ReplyArrived(t)
  BY <1>1, ReturnsTyped, UnlocksTyped
  DEF TypeOK, CallTypes, ReplyArrived, clientVars, streamVars, history
<1>2. CASE ReplyTimesOut(t)
  <2>1. id[chan[t]] \in Ids
    BY <1>2 DEF TypeOK, LocksHeld, ReplyTimesOut, IsOpen
  <2>2. unsettled' \in SUBSET Ids /\ callbacks' \in [Ids -> Nat \cup {None}] /\ timeouts' \in Nat
    BY <1>2, <2>1 DEF TypeOK, ReplyTimesOut, GivesUp
  <2> QED BY <1>2, <2>2, ReturnsTyped, UnlocksTyped DEF TypeOK, CallTypes, ReplyTimesOut, streamVars
<1>3. CASE Cancelled(t)
  <2>1. id[chan[t]] \in Ids
    BY <1>3 DEF TypeOK, LocksHeld, Cancelled, IsOpen
  <2>2. unsettled' \in SUBSET Ids /\ timeouts' \in Nat
    BY <1>3, <2>1 DEF TypeOK, Cancelled, GivesUp
  <2>3. sendLock' \in [Channels -> Tasks \cup {None}]
    BY <1>3, UnlocksTyped DEF TypeOK, Cancelled
  <2> QED BY <1>3, <2>2, <2>3, ReturnsTyped DEF TypeOK, CallTypes, Cancelled, clientVars, streamVars
<1> QED BY <1>1, <1>2, <1>3

LEMMA LinkTyped ==
  ASSUME TypeOK, ReceiveEnds \/ DisconnectEnds
  PROVE  TypeOK'
<1>1. \A S : <<>> \in Seq(S)
  BY EmptySeq
<1>2. CASE ReceiveEnds
  BY <1>1, <1>2 DEF TypeOK, ReceiveEnds, channelVars, callerVars
<1>3. CASE DisconnectEnds
  <2>1. pc' \in [Tasks -> PCs] /\ chan' \in [Tasks -> Channels \cup {None}]
    BY <1>3 DEF TypeOK, DisconnectEnds, PCs
  <2>2. future' \in [Tasks -> Nat \cup {None}] /\ sendLock' \in [Channels -> Tasks \cup {None}]
    BY <1>3 DEF TypeOK, DisconnectEnds
  <2>3. /\ registry' = <<>> /\ up' = <<>> /\ link' = "down" /\ callbacks' = [i \in Ids |-> None]
        /\ UNCHANGED <<name, requested, id, reply, down, given, history>>
    BY <1>3 DEF DisconnectEnds
  <2> QED BY <1>1, <2>1, <2>2, <2>3 DEF TypeOK, history
<1> QED BY <1>2, <1>3

LEMMA AssignTyped ==
  ASSUME TypeOK, NEW asked \in BOOLEAN, NEW i \in Ids, Assign(asked, i)
  PROVE  id' \in [Channels -> Ids \cup {None}]
<1>1. id \in [Channels -> Ids \cup {None}] /\ i \in Ids \cup {None}
  BY DEF TypeOK
<1>2. id' = id \/ \E ch : id' = [id EXCEPT ![ch] = i]
  BY DEF Assign
<1> QED BY ONLY <1>1, <1>2

LEMMA ReceiveTyped ==
  ASSUME TypeOK, Receive
  PROVE  TypeOK'
<1>1. down # <<>> /\ down' = Tail(down)
  BY DEF Receive, DispatchOpen, DispatchJson
<1>2. Head(down) \in Packets /\ down' \in Seq(Packets)
  BY <1>1, Dropped DEF TypeOK
<1>3. Head(down).id \in Ids /\ Head(down).request \in Nat \cup {Push}
  BY <1>2 DEF Packets
<1>4. CASE DispatchOpen
  <2>1. id' \in [Channels -> Ids \cup {None}]
    BY <1>3, <1>4, AssignTyped DEF DispatchOpen
  <2> QED BY <1>2, <1>4, <2>1 DEF TypeOK, DispatchOpen, clientVars, callerVars, history
<1>5. CASE DispatchJson
  <2>1. reply' \in [Tasks -> Nat \cup {Push, None}] /\ callbacks' \in [Ids -> Nat \cup {None}]
    BY <1>3, <1>5 DEF TypeOK, DispatchJson
  <2> QED BY <1>2, <1>5, <2>1 DEF TypeOK, DispatchJson, channelVars, history
<1> QED BY <1>4, <1>5 DEF Receive

LEMMA DeviceTyped ==
  ASSUME TypeOK, DeviceAnswers \/ DevicePushes \/ DeviceOpens
  PROVE  TypeOK'
<1>1. CASE DeviceAnswers
  <2>1. Head(up) \in Requests /\ up' \in Seq(Requests)
    BY <1>1, Dropped DEF TypeOK, DeviceAnswers
  <2>2. CASE Head(up).type = "open"
    <3>1. PICK i \in Ids :
            /\ given' = [given EXCEPT ![i] = Head(up).chan]
            /\ down' = Append(down, [type |-> "opened", id |-> i, request |-> 0])
      BY <1>1, <2>2 DEF DeviceAnswers
    <3>2. Head(up).chan \in Channels /\ [type |-> "opened", id |-> i, request |-> 0] \in Packets
      BY <2>1, <2>2 DEF Requests, Packets
    <3>3. down' \in Seq(Packets) /\ given' \in [Ids -> Channels \cup {Device, Unused}]
      BY <3>1, <3>2, Appended DEF TypeOK
    <3> QED BY <1>1, <2>1, <3>3 DEF TypeOK, DeviceAnswers, clientVars, channelVars, callerVars, history
  <2>3. CASE Head(up).type = "json"
    <3>1. [type |-> "json", id |-> Head(up).id, request |-> Head(up).request] \in Packets
      BY <2>1, <2>3 DEF Requests, Packets
    <3>2. /\ down' = Append(down, [type |-> "json", id |-> Head(up).id, request |-> Head(up).request])
          /\ given' = given
      BY <1>1, <2>3 DEF DeviceAnswers
    <3>3. down' \in Seq(Packets)
      BY <3>1, <3>2, Appended DEF TypeOK
    <3> QED
      BY <1>1, <2>1, <3>2, <3>3 DEF TypeOK, DeviceAnswers, clientVars, channelVars, callerVars, history
  <2> QED BY <1>1, <2>2, <2>3 DEF DeviceAnswers
<1>2. CASE DeviceOpens
  <2>1. PICK i \in Ids :
          /\ given' = [given EXCEPT ![i] = Device]
          /\ down' = Append(down, [type |-> "deviceOpen", id |-> i, request |-> 0])
    BY <1>2 DEF DeviceOpens
  <2>2. [type |-> "deviceOpen", id |-> i, request |-> 0] \in Packets
    BY DEF Packets
  <2>3. down' \in Seq(Packets) /\ given' \in [Ids -> Channels \cup {Device, Unused}]
    BY <2>1, <2>2, Appended DEF TypeOK
  <2> QED BY <1>2, <2>3 DEF TypeOK, DeviceOpens, clientVars, channelVars, callerVars, history
<1>3. CASE DevicePushes
  <2>1. PICK i \in Ids : down' = Append(down, [type |-> "json", id |-> i, request |-> Push])
    BY <1>3 DEF DevicePushes
  <2>2. [type |-> "json", id |-> i, request |-> Push] \in Packets
    BY DEF Packets
  <2>3. down' \in Seq(Packets) /\ pushes' \in Nat
    BY <1>3, <2>1, <2>2, Appended DEF TypeOK, DevicePushes
  <2> QED BY <1>3, <2>3 DEF TypeOK, DevicePushes, clientVars, channelVars, callerVars
<1> QED BY <1>1, <1>2, <1>3
-----------------------------------------------------------------------------
(* The registry *)

\* The new object was nowhere; it takes the place of the entry with its name, or the last.
LEMMA Registers ==
  ASSUME TypeOK, KeysOnce, NEW ch \in Channels, NEW n \in Names \cup Placeholders, Register(ch, n)
  PROVE  /\ ~IsOpen(ch) /\ ch \notin requested /\ ch \notin Registered
         /\ \A k \in DOMAIN registry' :
              \/ registry'[k] = ch
              \/ k \in DOMAIN registry /\ registry'[k] = registry[k] /\ name[registry[k]] # n
         /\ \A j, k \in DOMAIN registry' : registry'[j] = ch /\ registry'[k] = ch => j = k
         /\ \E k \in DOMAIN registry' : registry'[k] = ch
         /\ \A k \in DOMAIN registry : name[registry[k]] # n =>
              k \in DOMAIN registry' /\ registry'[k] = registry[k]
         /\ (\A k \in DOMAIN registry : name[registry[k]] # n) =>
              \A j \in DOMAIN registry, k \in DOMAIN registry' : registry'[k] = ch => j < k
<1>1. ~IsOpen(ch) /\ ch \notin requested /\ ch \notin Registered
  BY DEF TypeOK, KeysOnce, Register, Registered
<1>2. \A k \in DOMAIN registry : registry[k] # ch
  BY <1>1 DEF Registered
<1>3. CASE \E k \in DOMAIN registry : name[registry[k]] = n
  <2>1. registry' = [k \in DOMAIN registry |-> IF name[registry[k]] = n THEN ch ELSE registry[k]]
    BY <1>3 DEF Register, Registered
  <2>2. /\ DOMAIN registry' = DOMAIN registry
        /\ \A k \in DOMAIN registry :
             registry'[k] = IF name[registry[k]] = n THEN ch ELSE registry[k]
    BY <2>1
  <2>3. \A j, k \in DOMAIN registry : name[registry[j]] = name[registry[k]] => j = k
    BY DEF KeysOnce
  <2> QED BY ONLY <1>1, <1>2, <1>3, <2>2, <2>3
<1>4. CASE ~ \E k \in DOMAIN registry : name[registry[k]] = n
  <2>1. registry' = Append(registry, ch)
    BY <1>4 DEF Register, Registered
  <2>2. /\ \A k \in DOMAIN registry' :
             \/ k \in DOMAIN registry /\ registry'[k] = registry[k]
             \/ k = Len(registry) + 1 /\ registry'[k] = ch
        /\ \A k \in DOMAIN registry :
             k \in DOMAIN registry' /\ k < Len(registry) + 1 /\ registry'[k] = registry[k]
        /\ Len(registry) + 1 \in DOMAIN registry' /\ registry'[Len(registry) + 1] = ch
    BY <2>1, Appended DEF TypeOK
  <2> QED BY ONLY <1>1, <1>2, <1>4, <2>2
<1> QED BY <1>3, <1>4

LEMMA RegisterKeys ==
  ASSUME TypeOK, KeysOnce, NEW ch \in Channels, NEW n \in Names \cup Placeholders, Register(ch, n),
         requested' = requested \/ (n \in Names /\ requested' = requested \cup {ch}),
         id' = id
  PROVE  KeysOnce'
<1>1. /\ ch \notin requested
      /\ \A k \in DOMAIN registry : registry[k] # ch
      /\ \A k \in DOMAIN registry' :
           \/ registry'[k] = ch
           \/ k \in DOMAIN registry /\ registry'[k] = registry[k] /\ name[registry[k]] # n
      /\ \A j, k \in DOMAIN registry' : registry'[j] = ch /\ registry'[k] = ch => j = k
  BY Registers DEF Registered
<1>2. \A k \in DOMAIN registry : registry[k] \in Channels
  BY LenProperties, ElementOfSeq DEF TypeOK
<1>3. name'[ch] = n /\ n # None /\ \A z \in Channels : z # ch => name'[z] = name[z]
  BY DEF TypeOK, Register
<1>4. \A k \in DOMAIN registry' : name'[registry'[k]] # None
  BY ONLY <1>1, <1>2, <1>3, KeysOnce DEF KeysOnce
<1>5. \A j, k \in DOMAIN registry' : name'[registry'[j]] = name'[registry'[k]] => j = k
  BY ONLY <1>1, <1>2, <1>3, KeysOnce DEF KeysOnce
<1>6. \A z \in requested' : name'[z] \in Names
  <2>1. requested \subseteq Channels /\ \A z \in requested : name[z] \in Names
    BY DEF TypeOK, KeysOnce
  <2>2. \A z \in requested : name'[z] \in Names
    BY <1>1, <1>3, <2>1
  <2>3. CASE requested' = requested
    BY <2>2, <2>3
  <2>4. CASE n \in Names /\ requested' = requested \cup {ch}
    BY <1>3, <2>2, <2>4
  <2> QED BY <2>3, <2>4
<1>7. \A z \in Channels : id'[z] # None => name'[z] # None
  BY <1>3 DEF KeysOnce, IsOpen
<1> QED BY <1>4, <1>5, <1>6, <1>7 DEF KeysOnce, IsOpen

LEMMA RemoveChannelKeys ==
  ASSUME TypeOK, KeysOnce, NEW n \in Names \cup Placeholders, RemoveChannel(n)
  PROVE  KeysOnce'
<1>1. PICK i \in DOMAIN registry : registry' = RemoveAt(registry, i)
  BY DEF RemoveChannel
<1>2. \A k \in DOMAIN registry' :
        /\ k \in Nat
        /\ k < i => k \in DOMAIN registry /\ registry'[k] = registry[k]
        /\ k >= i => k + 1 \in DOMAIN registry /\ registry'[k] = registry[k + 1]
  BY <1>1, Removed DEF TypeOK
<1>3. i \in Nat
  BY LenProperties DEF TypeOK
<1>4. UNCHANGED <<name, requested, id>>
  BY DEF RemoveChannel, channelVars
<1>5. \A k \in DOMAIN registry' : name'[registry'[k]] # None
  BY <1>2, <1>3, <1>4 DEF KeysOnce
<1>6. \A j, k \in DOMAIN registry' : name'[registry'[j]] = name'[registry'[k]] => j = k
  BY ONLY <1>2, <1>3, <1>4, KeysOnce DEF KeysOnce
<1> QED BY <1>4, <1>5, <1>6 DEF KeysOnce, IsOpen

\* What Assign changes: nothing, or the id of the first candidate.
LEMMA Assigned ==
  ASSUME TypeOK, NEW asked \in BOOLEAN, NEW i \in Ids, Assign(asked, i)
  PROVE  \/ id' = id /\ Candidates(asked) = {}
         \/ \E k \in Candidates(asked) :
              /\ k \in DOMAIN registry /\ registry[k] \in Channels
              /\ ~IsOpen(registry[k]) /\ (registry[k] \in requested) = asked
              /\ \A j \in Candidates(asked) : k <= j
              /\ id'[registry[k]] = i
              /\ \A z \in Channels : z # registry[k] => id'[z] = id[z]
<1>1. \A k \in DOMAIN registry : registry[k] \in Channels
  BY LenProperties, ElementOfSeq DEF TypeOK
<1> QED BY <1>1 DEF TypeOK, Assign, Candidates

LEMMA DispatchOpenKeys ==
  ASSUME TypeOK, KeysOnce, DispatchOpen
  PROVE  KeysOnce'
<1>1. Head(down).id \in Ids /\ (Head(down).type = "opened") \in BOOLEAN
  <2>1. Head(down) \in Packets
    BY Dropped DEF TypeOK, DispatchOpen
  <2> QED BY <2>1 DEF Packets
<1>2. UNCHANGED <<registry, name, requested>>
  BY DEF DispatchOpen, clientVars
<1>3. \A z \in Channels : IsOpen(z)' => IsOpen(z) \/ \E k \in DOMAIN registry : z = registry[k]
  <2> DEFINE asked == Head(down).type = "opened"
  <2>1. asked \in BOOLEAN /\ Assign(asked, Head(down).id)
    BY <1>1 DEF DispatchOpen
  <2> HIDE DEF asked
  <2>2. \/ id' = id
        \/ \E k \in DOMAIN registry : \A z \in Channels : z # registry[k] => id'[z] = id[z]
    BY <1>1, <2>1, Assigned
  <2> QED BY <2>2 DEF IsOpen
<1> QED BY <1>2, <1>3 DEF KeysOnce

LEMMA KeysStep ==
  ASSUME TypeOK, KeysOnce, [Next]_vars
  PROVE  KeysOnce'
<1>1. ASSUME UNCHANGED <<registry, name, requested, id>>
      PROVE  KeysOnce'
  BY <1>1 DEF KeysOnce, IsOpen
<1>2. ASSUME NEW t \in Tasks, NEW n \in Names, OpenChannel(t, n)
      PROVE  KeysOnce'
  BY <1>2, RegisterKeys DEF OpenChannel
<1>3. ASSUME NEW n \in Placeholders, RegisterPlaceholder(n)
      PROVE  KeysOnce'
  BY <1>3, RegisterKeys DEF RegisterPlaceholder
<1>4. CASE DisconnectEnds
  <2>1. registry' = <<>> /\ UNCHANGED <<name, requested, id>>
    BY <1>4 DEF DisconnectEnds
  <2>2. DOMAIN registry' = {}
    BY <2>1
  <2> QED BY <2>1, <2>2 DEF KeysOnce, IsOpen
<1>5. ASSUME NEW t \in Tasks, Call(t)
      PROVE  KeysOnce'
  BY <1>1, <1>2, <1>5 DEF Call, AwaitPlaceholder, SendJson, clientVars, channelVars
<1>6. ASSUME NEW t \in Tasks, CallStep(t)
      PROVE  KeysOnce'
  BY <1>1, <1>6
  DEF CallStep, ChannelOpened, OpenTimesOut, LockAcquired, ReplyArrived, ReplyTimesOut, Cancelled,
      clientVars, channelVars
<1>7. CASE Receive
  BY <1>1, <1>7, DispatchOpenKeys DEF Receive, DispatchJson, channelVars
<1>8. CASE ReceiveEnds \/ DeviceAnswers \/ DevicePushes \/ DeviceOpens
  BY <1>1, <1>8 DEF ReceiveEnds, DeviceAnswers, DevicePushes, DeviceOpens, clientVars, channelVars
<1>9. CASE UNCHANGED vars
  BY <1>1, <1>9 DEF vars, clientVars, channelVars
<1> QED BY <1>3, <1>4, <1>5, <1>6, <1>7, <1>8, <1>9, RemoveChannelKeys DEF Next
-----------------------------------------------------------------------------
(* The ids *)

LEMMA DispatchOpenIds ==
  ASSUME TypeOK, KeysOnce, IdsOnce, DispatchOpen
  PROVE  IdsOnce'
<1> DEFINE p == Head(down)
           asked == p.type = "opened"
<1>1. /\ p \in Packets /\ p = down[1] /\ 1 \in DOMAIN down /\ p.type # "json"
      /\ \A k \in DOMAIN down' : /\ k \in Nat /\ k + 1 \in DOMAIN down /\ down'[k] = down[k + 1]
                                 /\ k + 1 # 1
  BY Dropped DEF TypeOK, DispatchOpen
<1>2. p.id \in Ids /\ asked \in BOOLEAN /\ Assign(asked, p.id)
  BY <1>1 DEF Packets, DispatchOpen
<1>3. UNCHANGED <<given, requested>>
  BY DEF DispatchOpen, streamVars
<1>4. /\ given[p.id] # Unused /\ (asked <=> given[p.id] # Device)
      /\ \A ch \in Channels : id[ch] # p.id
      /\ \A k \in DOMAIN down : k # 1 /\ down[k].type # "json" => down[k].id # p.id
  BY <1>1 DEF IdsOnce, Opens
<1> HIDE DEF asked, p
<1>5. \/ id' = id
      \/ \E c \in Channels : /\ ~IsOpen(c) /\ (c \in requested) = asked /\ id'[c] = p.id
                             /\ \A z \in Channels : z # c => id'[z] = id[z]
  BY <1>2, Assigned
<1>6. CASE id' = id
  <2>1. \A k \in DOMAIN down' : Opens(k)' =>
          /\ given'[down'[k].id] # Unused
          /\ (down'[k].type = "opened" <=> given'[down'[k].id] # Device)
          /\ \A ch \in Channels : id'[ch] # down'[k].id
    BY <1>1, <1>3, <1>6 DEF IdsOnce, Opens
  <2>2. \A j, k \in DOMAIN down' : Opens(j)' /\ Opens(k)' /\ down'[j].id = down'[k].id => j = k
    BY <1>1 DEF IdsOnce, Opens
  <2> QED BY <1>3, <1>6, <2>1, <2>2 DEF IdsOnce, IsOpen, OwnKind
<1>7. CASE id' # id
  <2>1. PICK c \in Channels : /\ ~IsOpen(c) /\ (c \in requested) = asked /\ id'[c] = p.id
                              /\ \A z \in Channels : z # c => id'[z] = id[z]
    BY <1>5, <1>7
  <2>2. \A k \in DOMAIN down' : Opens(k)' =>
          /\ given'[down'[k].id] # Unused
          /\ (down'[k].type = "opened" <=> given'[down'[k].id] # Device)
          /\ \A ch \in Channels : id'[ch] # down'[k].id
    BY <1>1, <1>3, <1>4, <2>1 DEF IdsOnce, Opens
  <2>3. \A j, k \in DOMAIN down' : Opens(j)' /\ Opens(k)' /\ down'[j].id = down'[k].id => j = k
    BY <1>1 DEF IdsOnce, Opens
  <2>4. \A ch \in Channels : IsOpen(ch)' => given'[id'[ch]] # Unused
    BY <1>3, <1>4, <2>1 DEF IdsOnce, IsOpen
  <2>5. \A ch, z \in Channels : IsOpen(ch)' /\ id'[ch] = id'[z] => ch = z
    BY <1>4, <2>1 DEF IdsOnce, IsOpen
  <2>6. OwnKind'
    BY <1>3, <1>4, <2>1 DEF IdsOnce, IsOpen, OwnKind
  <2> QED BY <2>2, <2>3, <2>4, <2>5, <2>6 DEF IdsOnce
<1> QED BY <1>6, <1>7

\* An id the device has not chosen yet is nowhere.
LEMMA ChosenIds ==
  ASSUME TypeOK, IdsOnce, NEW i \in Ids, NEW by \in Channels \cup {Device}, NEW p \in Packets,
         p.id = i, p.type # "json", p.type = "opened" <=> by # Device,
         given[i] = Unused, given' = [given EXCEPT ![i] = by], down' = Append(down, p),
         UNCHANGED <<id, requested>>
  PROVE  IdsOnce'
<1>1. /\ Len(down) + 1 \in DOMAIN down'
      /\ \A k \in DOMAIN down' : \/ k \in DOMAIN down /\ down'[k] = down[k]
                                 \/ k = Len(down) + 1 /\ down'[k] = p
  BY Appended DEF TypeOK
<1>2. given'[i] = by /\ by # Unused /\ \A j \in Ids : j # i => given'[j] = given[j]
  BY DEF TypeOK, Device, Unused
<1>3. /\ \A ch \in Channels : id[ch] # i
      /\ \A k \in DOMAIN down : Opens(k) => down[k].id # i
  BY DEF IdsOnce, IsOpen, TypeOK
<1>4. \A k \in DOMAIN down : down[k].id \in Ids
  <2>1. \A k \in DOMAIN down : down[k] \in Packets
    BY LenProperties, ElementOfSeq DEF TypeOK
  <2> QED BY <2>1 DEF Packets
<1>5. \A ch \in Channels : IsOpen(ch) => id[ch] \in Ids /\ given'[id[ch]] = given[id[ch]]
  BY <1>2, <1>3 DEF TypeOK, IsOpen
<1>6. \A k \in DOMAIN down' : Opens(k)' =>
        /\ given'[down'[k].id] # Unused
        /\ (down'[k].type = "opened" <=> given'[down'[k].id] # Device)
        /\ \A ch \in Channels : id[ch] # down'[k].id
  BY <1>1, <1>2, <1>3, <1>4 DEF IdsOnce, Opens
<1>7. \A j, k \in DOMAIN down' : Opens(j)' /\ Opens(k)' /\ down'[j].id = down'[k].id => j = k
  BY <1>1, <1>3 DEF IdsOnce, Opens
<1> QED BY <1>5, <1>6, <1>7 DEF IdsOnce, OwnKind, IsOpen

LEMMA DeviceIds ==
  ASSUME TypeOK, IdsOnce, DeviceAnswers \/ DevicePushes \/ DeviceOpens
  PROVE  IdsOnce'
<1>1. CASE DeviceAnswers /\ Head(up).type = "open"
  <2>1. PICK i \in Ids :
          /\ given[i] = Unused /\ given' = [given EXCEPT ![i] = Head(up).chan]
          /\ down' = Append(down, [type |-> "opened", id |-> i, request |-> 0])
    BY <1>1 DEF DeviceAnswers
  <2>2. Head(up).chan \in Channels /\ Head(up).chan # Device
    <3>1. Head(up) \in Requests
      BY <1>1, Dropped DEF TypeOK, DeviceAnswers
    <3> QED BY <1>1, <3>1 DEF Requests
  <2>3. [type |-> "opened", id |-> i, request |-> 0] \in Packets
    BY DEF Packets
  <2> QED BY <1>1, <2>1, <2>2, <2>3, ChosenIds DEF DeviceAnswers, channelVars
\* JSON carries no id that was chosen.
<1>2. ASSUME NEW p \in Packets, p.type = "json", down' = Append(down, p),
             UNCHANGED <<given, id, requested>>
      PROVE  IdsOnce'
  <2>1. \A k \in DOMAIN down' : \/ k \in DOMAIN down /\ down'[k] = down[k]
                                \/ k = Len(down) + 1 /\ down'[k] = p
    BY <1>2, Appended DEF TypeOK
  <2>2. \A k \in DOMAIN down' : Opens(k)' => Opens(k) /\ down'[k] = down[k]
    BY <1>2, <2>1 DEF Opens
  <2>3. \A k \in DOMAIN down' : Opens(k)' =>
          /\ given'[down'[k].id] # Unused
          /\ (down'[k].type = "opened" <=> given'[down'[k].id] # Device)
          /\ \A ch \in Channels : id'[ch] # down'[k].id
    BY <1>2, <2>2 DEF IdsOnce, Opens
  <2>4. \A j, k \in DOMAIN down' : Opens(j)' /\ Opens(k)' /\ down'[j].id = down'[k].id => j = k
    BY <2>2 DEF IdsOnce, Opens
  <2> QED BY <1>2, <2>3, <2>4 DEF IdsOnce, IsOpen, OwnKind
<1>4. CASE DeviceAnswers /\ Head(up).type = "json"
  <2>1. Head(up) \in Requests
    BY <1>4, Dropped DEF TypeOK, DeviceAnswers
  <2>2. [type |-> "json", id |-> Head(up).id, request |-> Head(up).request] \in Packets
    BY <1>4, <2>1 DEF Requests, Packets
  <2> QED BY <1>2, <1>4, <2>2 DEF DeviceAnswers, channelVars
<1>5. CASE DevicePushes
  <2>1. PICK i \in Ids : down' = Append(down, [type |-> "json", id |-> i, request |-> Push])
    BY <1>5 DEF DevicePushes
  <2>2. [type |-> "json", id |-> i, request |-> Push] \in Packets
    BY DEF Packets
  <2> QED BY <1>2, <1>5, <2>1, <2>2 DEF DevicePushes, channelVars
<1>3. CASE DeviceOpens
  <2>1. PICK i \in Ids :
          /\ given[i] = Unused /\ given' = [given EXCEPT ![i] = Device]
          /\ down' = Append(down, [type |-> "deviceOpen", id |-> i, request |-> 0])
    BY <1>3 DEF DeviceOpens
  <2>2. [type |-> "deviceOpen", id |-> i, request |-> 0] \in Packets
    BY DEF Packets
  <2> QED BY <1>3, <2>1, <2>2, ChosenIds DEF DeviceOpens, channelVars
<1> QED BY <1>1, <1>3, <1>4, <1>5 DEF DeviceAnswers

LEMMA IdsStep ==
  ASSUME TypeOK, KeysOnce, IdsOnce, [Next]_vars
  PROVE  IdsOnce'
<1>1. ASSUME UNCHANGED <<id, down, given, requested>>
      PROVE  IdsOnce'
  BY <1>1 DEF IdsOnce, Opens, OwnKind, IsOpen
<1>2. ASSUME NEW t \in Tasks, NEW n \in Names, OpenChannel(t, n)
      PROVE  IdsOnce'
  <2>1. PICK ch \in Channels : ~IsOpen(ch) /\ requested' = requested \cup {ch}
    BY <1>2, Registers DEF OpenChannel
  <2>2. UNCHANGED <<id, down, given>>
    BY <1>2 DEF OpenChannel
  <2>3. OwnKind'
    BY <2>1, <2>2 DEF IdsOnce, OwnKind, IsOpen
  <2> QED BY <2>2, <2>3 DEF IdsOnce, Opens, IsOpen
<1>3. ASSUME NEW n \in Placeholders, RegisterPlaceholder(n)
      PROVE  IdsOnce'
  BY <1>1, <1>3 DEF RegisterPlaceholder, streamVars
<1>4. ASSUME NEW n \in Names \cup Placeholders, RemoveChannel(n)
      PROVE  IdsOnce'
  BY <1>1, <1>4 DEF RemoveChannel, channelVars, streamVars
<1>5. ASSUME NEW t \in Tasks, Call(t)
      PROVE  IdsOnce'
  BY <1>1, <1>2, <1>5 DEF Call, AwaitPlaceholder, SendJson, streamVars, channelVars
<1>6. ASSUME NEW t \in Tasks, CallStep(t)
      PROVE  IdsOnce'
  BY <1>1, <1>6
  DEF CallStep, ChannelOpened, OpenTimesOut, LockAcquired, ReplyArrived, ReplyTimesOut, Cancelled,
      streamVars, channelVars
<1>7. CASE DispatchJson
  <2>1. /\ 1 \in DOMAIN down /\ down[1].type = "json"
        /\ \A k \in DOMAIN down' : k \in Nat /\ k + 1 \in DOMAIN down /\ down'[k] = down[k + 1]
    BY <1>7, Dropped DEF TypeOK, DispatchJson
  <2>2. UNCHANGED <<id, given, requested>>
    BY <1>7 DEF DispatchJson, channelVars
  <2>3. \A k \in DOMAIN down' : Opens(k)' =>
          /\ given'[down'[k].id] # Unused
          /\ (down'[k].type = "opened" <=> given'[down'[k].id] # Device)
          /\ \A ch \in Channels : id'[ch] # down'[k].id
    BY <2>1, <2>2 DEF IdsOnce, Opens
  <2>4. \A j, k \in DOMAIN down' : Opens(j)' /\ Opens(k)' /\ down'[j].id = down'[k].id => j = k
    BY <2>1 DEF IdsOnce, Opens
  <2> QED BY <2>2, <2>3, <2>4 DEF IdsOnce, IsOpen, OwnKind
<1>8. CASE ReceiveEnds
  <2>1. down' = <<>> /\ UNCHANGED <<id, given, requested>>
    BY <1>8 DEF ReceiveEnds, channelVars
  <2>2. DOMAIN down' = {}
    BY <2>1
  <2> QED BY <2>1, <2>2 DEF IdsOnce, IsOpen, OwnKind
<1>9. CASE DisconnectEnds
  BY <1>1, <1>9 DEF DisconnectEnds
<1>10. CASE UNCHANGED vars
  BY <1>1, <1>10 DEF vars, channelVars, streamVars
<1> QED
  BY <1>3, <1>4, <1>5, <1>6, <1>7, <1>8, <1>9, <1>10, DispatchOpenIds, DeviceIds DEF Next, Receive
-----------------------------------------------------------------------------
(* The locks and the futures *)

\* A request goes out, or its send raises, for a caller that was not waiting for a reply.
LEMMA TransmitLocks ==
  ASSUME TypeOK, IdsOnce, LocksHeld, NEW t \in Tasks, NEW ch \in Channels, IsOpen(ch),
         pc[t] # "replying", sendLock[ch] = None, Transmit(t, ch), id' = id
  PROVE  LocksHeld'
<1>1. /\ \A u \in Tasks : pc[u] = "replying" => u # t /\ chan[u] # ch
      /\ \A u \in Tasks : pc[u] = "replying" => id[chan[u]] # id[ch]
  BY DEF TypeOK, IdsOnce, LocksHeld, IsOpen
<1>2. /\ callbacks' = [callbacks EXCEPT ![id[ch]] = requests] /\ requests' = requests + 1
      /\ id[ch] \in Ids /\ requests \in Nat
  BY DEF TypeOK, Transmit, IsOpen
<1>3. /\ callbacks'[id[ch]] = requests
      /\ \A i \in Ids : i # id[ch] => callbacks'[i] = callbacks[i]
  BY <1>2 DEF TypeOK
<1>4. \A i \in Ids : callbacks'[i] # None => callbacks'[i] < requests'
  <2>1. \A i \in Ids : callbacks[i] # None => callbacks[i] \in Nat /\ callbacks[i] < requests
    BY DEF TypeOK, LocksHeld
  <2> QED BY ONLY <1>2, <1>3, <2>1
<1>5. \A i, j \in Ids : callbacks'[i] # None /\ callbacks'[i] = callbacks'[j] => i = j
  <2>1. \A i \in Ids : callbacks[i] # None => callbacks[i] \in Nat /\ callbacks[i] < requests
    BY DEF TypeOK, LocksHeld
  <2>2. \A i \in Ids : callbacks[i] # requests
    BY <1>2, <2>1
  <2> QED BY <1>3, <2>2 DEF LocksHeld
<1>6. \A u \in Tasks : pc[u] = "replying" => chan[u] \in Channels /\ id[chan[u]] \in Ids
  BY DEF TypeOK, LocksHeld, IsOpen
<1>7. CASE /\ Calls(t, "replying", ch)
           /\ future' = [future EXCEPT ![t] = requests]
           /\ sendLock' = [sendLock EXCEPT ![ch] = t]
           /\ UNCHANGED reply
  <2>1. /\ pc'[t] = "replying" /\ chan'[t] = ch /\ future'[t] = requests /\ sendLock'[ch] = t
        /\ \A u \in Tasks : u # t => pc'[u] = pc[u] /\ chan'[u] = chan[u] /\ future'[u] = future[u]
        /\ \A z \in Channels : z # ch => sendLock'[z] = sendLock[z]
    BY <1>7 DEF TypeOK, Calls
  <2>2. \A u \in Tasks : pc'[u] # "idle" => chan'[u] \in Channels
    BY <2>1 DEF LocksHeld
  <2>3. \A u \in Tasks : pc'[u] \in {"locking", "replying"} => id'[chan'[u]] # None
    BY <2>1 DEF LocksHeld, IsOpen
  <2>4. \A u \in Tasks : pc'[u] = "replying" =>
          sendLock'[chan'[u]] = u /\ future'[u] \in Nat /\ future'[u] < requests'
    BY <1>1, <1>2, <1>6, <2>1 DEF LocksHeld
  <2>5. \A u \in Tasks : reply'[u] # None \/ future'[u] # None => pc'[u] = "replying"
    BY <1>7, <2>1 DEF LocksHeld
  <2>6. LockReleased'
    <3> SUFFICES ASSUME NEW z \in Channels, sendLock'[z] # None
                 PROVE  pc'[sendLock'[z]] = "replying" /\ chan'[sendLock'[z]] = z
      BY DEF LockReleased
    <3>1. CASE z = ch
      BY <2>1, <3>1
    <3>2. CASE z # ch
      <4>1. /\ sendLock'[z] = sendLock[z] /\ sendLock[z] \in Tasks
            /\ pc[sendLock[z]] = "replying" /\ chan[sendLock[z]] = z
        BY <2>1, <3>2 DEF TypeOK, LocksHeld, LockReleased
      <4>2. sendLock[z] # t
        BY <4>1
      <4> QED BY <2>1, <4>1, <4>2
    <3> QED BY <3>1, <3>2
  <2>7. CallbackKept'
    <3> SUFFICES ASSUME NEW u \in Tasks, pc'[u] = "replying", reply'[u] = None
                 PROVE  callbacks'[id[chan'[u]]] = future'[u] /\ sendLock'[chan'[u]] = u
      BY DEF CallbackKept
    <3>1. CASE u = t
      BY <1>3, <2>1, <3>1
    <3>2. CASE u # t
      <4>1. /\ pc[u] = "replying" /\ chan'[u] = chan[u] /\ future'[u] = future[u]
            /\ id[chan[u]] \in Ids /\ id[chan[u]] # id[ch] /\ reply[u] = None
        BY <1>1, <1>6, <1>7, <2>1, <3>2
      <4>2. callbacks[id[chan[u]]] = future[u]
        BY <4>1 DEF LocksHeld, CallbackKept
      <4> QED BY <1>3, <2>4, <4>1, <4>2
    <3> QED BY <3>1, <3>2
  <2> QED BY <1>4, <1>5, <2>2, <2>3, <2>4, <2>5, <2>6, <2>7 DEF LocksHeld, IsOpen
<1>8. CASE Returns(t) /\ UNCHANGED sendLock
  <2>1. /\ pc'[t] = "idle" /\ reply'[t] = None /\ future'[t] = None
        /\ \A u \in Tasks : u # t => /\ pc'[u] = pc[u] /\ chan'[u] = chan[u]
                                     /\ future'[u] = future[u] /\ reply'[u] = reply[u]
    BY <1>8 DEF TypeOK, Returns, Calls
  <2>2. \A u \in Tasks : pc'[u] # "idle" => chan'[u] \in Channels
    BY <2>1 DEF LocksHeld
  <2>3. \A u \in Tasks : pc'[u] \in {"locking", "replying"} => id'[chan'[u]] # None
    BY <2>1 DEF LocksHeld, IsOpen
  <2>4. \A u \in Tasks : pc'[u] = "replying" =>
          sendLock'[chan'[u]] = u /\ future'[u] \in Nat /\ future'[u] < requests'
    BY <1>2, <1>8, <2>1 DEF LocksHeld
  <2>5. \A u \in Tasks : reply'[u] # None \/ future'[u] # None => pc'[u] = "replying"
    BY <2>1 DEF LocksHeld
  <2>6. LockReleased'
    BY <1>8, <2>1 DEF TypeOK, LocksHeld, LockReleased
  <2>7. CallbackKept'
    BY <1>1, <1>3, <1>6, <2>1, <2>4 DEF LocksHeld, CallbackKept
  <2> QED BY <1>4, <1>5, <2>2, <2>3, <2>4, <2>5, <2>6, <2>7 DEF LocksHeld, IsOpen
<1> QED BY <1>7, <1>8 DEF Transmit

\* A caller that returns: it gives its lock back if it has one, and at most the future under
\* its own channel's id is dropped.
LEMMA ReturnLocks ==
  ASSUME TypeOK, IdsOnce, LocksHeld, NEW t \in Tasks, Returns(t),
         pc[t] # "replying" => sendLock' = sendLock /\ callbacks' = callbacks,
         pc[t] = "replying" => /\ Unlock(t)
                               /\ \/ callbacks' = callbacks
                                  \/ callbacks' = [callbacks EXCEPT ![id[chan[t]]] = None],
         UNCHANGED <<id, requests>>
  PROVE  LocksHeld'
<1>1. /\ pc'[t] = "idle" /\ reply'[t] = None /\ future'[t] = None
      /\ \A u \in Tasks : u # t => /\ pc'[u] = pc[u] /\ chan'[u] = chan[u]
                                   /\ future'[u] = future[u] /\ reply'[u] = reply[u]
  BY DEF TypeOK, Returns, Calls
<1>2. \A u \in Tasks : pc[u] = "replying" => /\ chan[u] \in Channels /\ id[chan[u]] \in Ids
                                             /\ sendLock[chan[u]] = u
  BY DEF TypeOK, LocksHeld, IsOpen
<1>3. \A u \in Tasks : pc[u] = "replying" /\ pc[t] = "replying" /\ u # t =>
        chan[u] # chan[t] /\ id[chan[u]] # id[chan[t]]
  BY <1>2 DEF IdsOnce, LocksHeld, IsOpen
<1>4. \A z \in Channels : \/ sendLock'[z] = sendLock[z] /\ (pc[t] = "replying" => z # chan[t])
                          \/ pc[t] = "replying" /\ z = chan[t] /\ sendLock'[z] = None
  BY <1>2 DEF TypeOK, Unlock
<1>5. \A i \in Ids : \/ callbacks'[i] = callbacks[i]
                     \/ pc[t] = "replying" /\ i = id[chan[t]] /\ callbacks'[i] = None
  BY <1>2 DEF TypeOK
<1>6. \A u \in Tasks : pc'[u] = "replying" => u # t /\ sendLock'[chan'[u]] = u
  BY <1>1, <1>2, <1>3, <1>4
<1>7. \A u \in Tasks : pc'[u] = "replying" => callbacks'[id[chan[u]]] = callbacks[id[chan[u]]]
  BY <1>1, <1>2, <1>3, <1>5
<1>8. LockReleased'
  BY <1>1, <1>2, <1>4 DEF TypeOK, LocksHeld, LockReleased
<1>9. CallbackKept'
  BY <1>1, <1>6, <1>7 DEF LocksHeld, CallbackKept
<1>10. /\ \A u \in Tasks : pc'[u] # "idle" => chan'[u] \in Channels
       /\ \A u \in Tasks : pc'[u] \in {"locking", "replying"} => id'[chan'[u]] # None
       /\ \A u \in Tasks : pc'[u] = "replying" => future'[u] \in Nat /\ future'[u] < requests'
       /\ \A u \in Tasks : reply'[u] # None \/ future'[u] # None => pc'[u] = "replying"
  BY <1>1 DEF LocksHeld, IsOpen
<1>11. /\ \A i \in Ids : callbacks'[i] # None => callbacks'[i] < requests'
       /\ \A i, j \in Ids : callbacks'[i] # None /\ callbacks'[i] = callbacks'[j] => i = j
  BY <1>5 DEF LocksHeld
<1> QED BY <1>6, <1>8, <1>9, <1>10, <1>11 DEF LocksHeld, IsOpen

\* A caller that waits for something other than a reply.
LEMMA WaitLocks ==
  ASSUME TypeOK, LocksHeld, NEW t \in Tasks, pc[t] # "replying", NEW p \in {"opening", "expecting", "locking"},
         NEW ch \in Channels, Calls(t, p, ch), p = "locking" => IsOpen(ch),
         UNCHANGED <<id, requests, callbacks, sendLock, future, reply>>
  PROVE  LocksHeld'
<1>1. /\ pc'[t] = p /\ chan'[t] = ch
      /\ \A u \in Tasks : u # t => pc'[u] = pc[u] /\ chan'[u] = chan[u]
  BY DEF TypeOK, Calls
<1>2. LockReleased'
  BY <1>1 DEF TypeOK, LocksHeld, LockReleased
<1>3. CallbackKept'
  BY <1>1 DEF LocksHeld, CallbackKept
<1>4. /\ \A u \in Tasks : pc'[u] # "idle" => chan'[u] \in Channels
      /\ \A u \in Tasks : pc'[u] \in {"locking", "replying"} => id'[chan'[u]] # None
  BY <1>1 DEF LocksHeld, IsOpen
<1>5. /\ \A u \in Tasks : pc'[u] = "replying" =>
           sendLock'[chan'[u]] = u /\ future'[u] \in Nat /\ future'[u] < requests'
      /\ \A u \in Tasks : reply'[u] # None \/ future'[u] # None => pc'[u] = "replying"
  BY <1>1 DEF LocksHeld
<1> QED BY <1>2, <1>3, <1>4, <1>5 DEF LocksHeld, IsOpen

LEMMA DisconnectLocks ==
  ASSUME TypeOK, LocksHeld, DisconnectEnds
  PROVE  LocksHeld'
<1> DEFINE lost == {t \in Tasks : pc[t] = "replying" /\ reply[t] = None
                                    /\ callbacks[id[chan[t]]] = future[t]}
<1>1. \A t \in Tasks : t \in lost <=> pc[t] = "replying" /\ reply[t] = None
  BY DEF LocksHeld, CallbackKept
<1>2. /\ callbacks' = [i \in Ids |-> None]
      /\ pc' = [t \in Tasks |-> IF t \in lost THEN "idle" ELSE pc[t]]
      /\ chan' = [t \in Tasks |-> IF t \in lost THEN None ELSE chan[t]]
      /\ future' = [t \in Tasks |-> IF t \in lost THEN None ELSE future[t]]
      /\ sendLock' = [ch \in Channels |-> IF sendLock[ch] \in lost THEN None ELSE sendLock[ch]]
      /\ UNCHANGED <<id, reply, requests>> /\ lost \subseteq Tasks
  BY DEF DisconnectEnds, history
<1> HIDE DEF lost
<1>3. \A t \in Tasks : IF t \in lost THEN pc'[t] = "idle" /\ future'[t] = None
                       ELSE pc'[t] = pc[t] /\ chan'[t] = chan[t] /\ future'[t] = future[t]
  BY <1>2
<1>4. \A ch \in Channels : sendLock'[ch] = IF sendLock[ch] \in lost THEN None ELSE sendLock[ch]
  BY <1>2
<1>5. \A t \in Tasks : pc'[t] = "replying" => pc[t] = "replying" /\ reply'[t] # None /\ t \notin lost
  BY <1>1, <1>2, <1>3
<1>6. LockReleased'
  BY <1>2, <1>3, <1>4 DEF TypeOK, LocksHeld, LockReleased
<1>7. CallbackKept'
  BY <1>5 DEF CallbackKept
<1>8. /\ \A t \in Tasks : pc'[t] # "idle" => chan'[t] \in Channels
      /\ \A t \in Tasks : pc'[t] \in {"locking", "replying"} => id'[chan'[t]] # None
      /\ \A t \in Tasks : reply'[t] # None \/ future'[t] # None => pc'[t] = "replying"
  BY <1>1, <1>2, <1>3 DEF LocksHeld, IsOpen
<1>9. \A t \in Tasks : pc'[t] = "replying" =>
        sendLock'[chan'[t]] = t /\ future'[t] \in Nat /\ future'[t] < requests'
  BY <1>2, <1>3, <1>4, <1>5 DEF LocksHeld
<1>10. \A i \in Ids : callbacks'[i] = None
  BY <1>2
<1> QED BY <1>6, <1>7, <1>8, <1>9, <1>10 DEF LocksHeld, IsOpen

LEMMA DispatchOpenLocks ==
  ASSUME TypeOK, LocksHeld, DispatchOpen
  PROVE  /\ LocksHeld'
         /\ \A t \in Tasks : pc[t] \in {"locking", "replying"} => id'[chan[t]] = id[chan[t]]
<1> DEFINE p == Head(down)
           asked == p.type = "opened"
<1>1. p \in Packets
  BY Dropped DEF TypeOK, DispatchOpen
<1>2. p.id \in Ids /\ asked \in BOOLEAN /\ Assign(asked, p.id)
  BY <1>1 DEF Packets, DispatchOpen
<1>3. UNCHANGED <<callbacks, sendLock, pc, chan, future, reply, requests>>
  BY DEF DispatchOpen, clientVars, callerVars, history
<1> HIDE DEF asked, p
<1>4. \A ch \in Channels : IsOpen(ch) => id'[ch] = id[ch]
  <2>1. \/ id' = id
        \/ \E c \in Channels : ~IsOpen(c) /\ \A z \in Channels : z # c => id'[z] = id[z]
    BY <1>2, Assigned
  <2> QED BY <2>1
<1>5. \A t \in Tasks : pc[t] \in {"locking", "replying"} => id'[chan[t]] = id[chan[t]]
  BY <1>4, LocksHeld DEF LocksHeld, TypeOK, PCs
<1>6. \A t \in Tasks : pc'[t] \in {"locking", "replying"} => id'[chan'[t]] # None
  BY <1>3, <1>5 DEF LocksHeld, IsOpen
<1>7. LockReleased' /\ CallbackKept'
  BY <1>3, <1>5 DEF LocksHeld, LockReleased, CallbackKept
<1> QED BY <1>3, <1>5, <1>6, <1>7 DEF LocksHeld, IsOpen

LEMMA DispatchJsonLocks ==
  ASSUME TypeOK, LocksHeld, DispatchJson
  PROVE  LocksHeld'
<1> DEFINE p == Head(down)
<1>1. p \in Packets
  BY Dropped DEF TypeOK, DispatchJson
<1>2. p.id \in Ids /\ p.request \in Nat \cup {Push}
  BY <1>1 DEF Packets
<1>3. /\ callbacks' = [callbacks EXCEPT ![p.id] = None]
      /\ reply' = [t \in Tasks |->
                     IF /\ t \in {u \in Tasks : pc[u] = "replying" /\ future[u] = callbacks[p.id]}
                        /\ reply[t] = None
                     THEN p.request ELSE reply[t]]
      /\ UNCHANGED <<sendLock, id, pc, chan, future, requests>>
  BY DEF DispatchJson, channelVars, history
<1> HIDE DEF p
<1>4. \A t \in Tasks :
        reply'[t] = IF pc[t] = "replying" /\ future[t] = callbacks[p.id] /\ reply[t] = None
                    THEN p.request ELSE reply[t]
  BY <1>3
<1>5. /\ callbacks'[p.id] = None
      /\ \A i \in Ids : i # p.id => callbacks'[i] = callbacks[i]
  BY <1>2, <1>3 DEF TypeOK
<1>6. CallbackKept'
  <2> SUFFICES ASSUME NEW t \in Tasks, pc[t] = "replying", reply'[t] = None
               PROVE  callbacks'[id[chan[t]]] = future[t] /\ sendLock[chan[t]] = t
    BY <1>3 DEF CallbackKept
  <2>1. reply[t] = None /\ future[t] # callbacks[p.id]
    BY <1>2, <1>4
  <2>2. callbacks[id[chan[t]]] = future[t] /\ sendLock[chan[t]] = t /\ id[chan[t]] \in Ids
    BY <2>1 DEF LocksHeld, CallbackKept, TypeOK, IsOpen
  <2> QED BY <1>5, <2>1, <2>2
<1>7. /\ \A i \in Ids : callbacks'[i] # None => callbacks'[i] < requests'
      /\ \A i, j \in Ids : callbacks'[i] # None /\ callbacks'[i] = callbacks'[j] => i = j
  BY <1>3, <1>5 DEF LocksHeld
<1>8. \A t \in Tasks : reply'[t] # None \/ future'[t] # None => pc'[t] = "replying"
  BY <1>3, <1>4 DEF LocksHeld
<1> QED BY <1>3, <1>6, <1>7, <1>8 DEF LocksHeld, LockReleased, IsOpen

LEMMA LocksStep ==
  ASSUME TypeOK, KeysOnce, IdsOnce, LocksHeld, [Next]_vars
  PROVE  LocksHeld'
<1>1. ASSUME UNCHANGED <<id, requests, callbacks, sendLock, pc, chan, future, reply>>
      PROVE  LocksHeld'
  BY <1>1 DEF LocksHeld, LockReleased, CallbackKept, IsOpen
<1>2. ASSUME NEW t \in Tasks, NEW n \in Names, OpenChannel(t, n)
      PROVE  LocksHeld'
  <2>1. PICK ch \in Channels : Calls(t, "opening", ch) \/ UNCHANGED <<pc, chan>>
    BY <1>2 DEF OpenChannel
  <2>2. pc[t] = "idle" /\ UNCHANGED <<id, requests, callbacks, sendLock, future, reply>>
    BY <1>2 DEF OpenChannel
  <2> QED BY <1>1, <2>1, <2>2, WaitLocks
<1>3. ASSUME NEW t \in Tasks, NEW ch \in Channels, AwaitPlaceholder(t, ch)
      PROVE  LocksHeld'
  BY <1>3, WaitLocks DEF AwaitPlaceholder, clientVars, channelVars, history
<1>4. ASSUME NEW t \in Tasks, NEW ch \in Channels, SendJson(t, ch)
      PROVE  LocksHeld'
  BY <1>4, TransmitLocks, WaitLocks DEF SendJson
<1>5. ASSUME NEW t \in Tasks, LockAcquired(t)
      PROVE  LocksHeld'
  <2>1. chan[t] \in Channels /\ IsOpen(chan[t])
    BY <1>5 DEF LocksHeld, LockAcquired
  <2> QED BY <1>5, <2>1, TransmitLocks DEF LockAcquired
<1>6. ASSUME NEW t \in Tasks, ChannelOpened(t) \/ OpenTimesOut(t)
      PROVE  LocksHeld'
  BY <1>6, ReturnLocks
  DEF ChannelOpened, OpenTimesOut, clientVars, channelVars, history
<1>7. ASSUME NEW t \in Tasks, ReplyArrived(t) \/ ReplyTimesOut(t) \/ Cancelled(t)
      PROVE  LocksHeld'
  <2>1. CASE ReplyArrived(t)
    BY <2>1, ReturnLocks DEF ReplyArrived, clientVars, history
  <2>2. CASE ReplyTimesOut(t)
    BY <2>2, ReturnLocks DEF ReplyTimesOut
  <2>3. CASE Cancelled(t)
    BY <2>3, ReturnLocks DEF Cancelled, clientVars
  <2> QED BY <1>7, <2>1, <2>2, <2>3
<1>8. ASSUME NEW t \in Tasks, Call(t) \/ CallStep(t)
      PROVE  LocksHeld'
  BY <1>2, <1>3, <1>4, <1>5, <1>6, <1>7, <1>8 DEF Call, CallStep
<1>9. CASE \/ \E n \in Placeholders : RegisterPlaceholder(n)
           \/ \E n \in Names \cup Placeholders : RemoveChannel(n)
  BY <1>1, <1>9 DEF RegisterPlaceholder, RemoveChannel, channelVars, callerVars, history
<1>10. CASE ReceiveEnds \/ DeviceAnswers \/ DevicePushes \/ DeviceOpens \/ UNCHANGED vars
  BY <1>1, <1>10
  DEF ReceiveEnds, DeviceAnswers, DevicePushes, DeviceOpens, vars, clientVars, channelVars, callerVars, history
<1> QED
  BY <1>8, <1>9, <1>10, DispatchOpenLocks, DispatchJsonLocks, DisconnectLocks DEF Next, Receive
-----------------------------------------------------------------------------
(* The replies *)

\* Whoever waits for an answer goes on waiting for it, or its id is unsettled, and no
\* request that was sent before is sent again.
StillAwaited ==
  /\ requests <= requests' /\ unsettled \subseteq unsettled'
  /\ \A i, r : i \notin unsettled' /\ Awaited(i, r) => Awaited(i, r)'
  /\ \A i, r : r < requests /\ SentOn(i, r)' => SentOn(i, r)

\* Nothing is added to the wire.
WireShrinks ==
  /\ up' = up \/ up' = <<>>
  /\ down' = down \/ down' = <<>>
  /\ link' # "up" => down' = <<>>

LEMMA SoundKept ==
  ASSUME requests \in Nat, requests' \in Nat, StillAwaited,
         NEW m, Sound(m), Numbered(m) => m.request \in Nat
  PROVE  Sound(m)'
BY DEF Sound, StillAwaited

LEMMA WireKept ==
  ASSUME TypeOK, requests' \in Nat, RepliesAwaited, StillAwaited, WireShrinks, RepliesRight'
  PROVE  RepliesAwaited'
<1>1. /\ \A k \in DOMAIN up' : k \in DOMAIN up /\ up'[k] = up[k]
      /\ \A k \in DOMAIN down' : k \in DOMAIN down /\ down'[k] = down[k]
  <2>1. \A k \in DOMAIN up' : k \in DOMAIN up /\ up'[k] = up[k]
    <3>1. CASE up' = up
      BY <3>1
    <3>2. CASE up' = <<>>
      <4>1. DOMAIN up' = {}
        BY <3>2
      <4> QED BY <4>1
    <3> QED BY <3>1, <3>2 DEF WireShrinks
  <2>2. \A k \in DOMAIN down' : k \in DOMAIN down /\ down'[k] = down[k]
    <3>1. CASE down' = down
      BY <3>1
    <3>2. CASE down' = <<>>
      <4>1. DOMAIN down' = {}
        BY <3>2
      <4> QED BY <4>1
    <3> QED BY <3>1, <3>2 DEF WireShrinks
  <2> QED BY <2>1, <2>2
<1>2. /\ \A k \in DOMAIN up : Numbered(up[k]) => up[k].request \in Nat
      /\ \A k \in DOMAIN down : Numbered(down[k]) => down[k].request \in Nat
  <2>1. /\ \A k \in DOMAIN up : up[k] \in Requests
        /\ \A k \in DOMAIN down : down[k] \in Packets
    BY LenProperties, ElementOfSeq DEF TypeOK
  <2> QED BY <2>1 DEF Requests, Packets, Numbered
<1>3. requests \in Nat /\ requests <= requests'
  BY DEF TypeOK, StillAwaited
<1>4. \A k \in DOMAIN up' : Sound(up[k])'
  <2>1. \A k \in DOMAIN up' : \A m : m = up'[k] => Sound(m)'
    BY <1>1, <1>2, <1>3, SoundKept DEF RepliesAwaited
  <2> QED BY <2>1 DEF Sound
<1>5. \A k \in DOMAIN down' : Sound(down[k])'
  <2>1. \A k \in DOMAIN down' : \A m : m = down'[k] => Sound(m)'
    BY <1>1, <1>2, <1>3, SoundKept DEF RepliesAwaited
  <2> QED BY <2>1 DEF Sound
<1>6. /\ \A j, k \in DOMAIN up' : j # k => Differ(up[j], up[k])'
      /\ \A j, k \in DOMAIN down' : j # k => Differ(down[j], down[k])'
      /\ \A j \in DOMAIN up', k \in DOMAIN down' : Differ(up[j], down[k])'
  BY <1>1 DEF RepliesAwaited, Differ, Numbered
<1> QED BY <1>4, <1>5, <1>6 DEF RepliesAwaited, WireShrinks

\* A request is new: no request or reply on the wire has its number.
LEMMA TransmitReplies ==
  ASSUME TypeOK, TypeOK', LocksHeld, RepliesAwaited, NEW t \in Tasks, NEW ch \in Channels, IsOpen(ch),
         pc[t] # "replying", Transmit(t, ch), UNCHANGED <<id, link, down, unsettled>>
  PROVE  RepliesAwaited'
<1>1. requests' = requests + 1 /\ requests \in Nat /\ reply[t] = None
  BY DEF TypeOK, Transmit, LocksHeld
<1>2. CASE /\ Sends([type |-> "json", id |-> id[ch], request |-> requests])
           /\ Calls(t, "replying", ch)
           /\ future' = [future EXCEPT ![t] = requests]
           /\ sendLock' = [sendLock EXCEPT ![ch] = t]
           /\ UNCHANGED reply
  <2> DEFINE m == [type |-> "json", id |-> id[ch], request |-> requests]
  <2>1. m \in Requests /\ m.type = "json" /\ m.id = id[ch] /\ m.request = requests
    BY DEF TypeOK, IsOpen, Requests
  <2>2. up' = Append(up, m)
    BY <1>2 DEF Sends
  <2> HIDE DEF m
  <2>3. /\ \A k \in DOMAIN up' : \/ k \in DOMAIN up /\ up'[k] = up[k]
                                 \/ k = Len(up) + 1 /\ up'[k] = m
    BY <2>1, <2>2, Appended DEF TypeOK
  <2>4. /\ pc'[t] = "replying" /\ chan'[t] = ch /\ future'[t] = requests
        /\ \A u \in Tasks : u # t => pc'[u] = pc[u] /\ chan'[u] = chan[u] /\ future'[u] = future[u]
    BY <1>2 DEF TypeOK, Calls
  <2>5. \A i, r : i = id[ch] /\ r = requests => Awaited(i, r)'
    BY <1>1, <1>2, <2>4 DEF Awaited
  <2>6. \A i, r : Awaited(i, r) => Awaited(i, r)'
    BY <1>2, <2>4 DEF Awaited
  <2>12. /\ \A i, r : r # requests /\ SentOn(i, r)' => SentOn(i, r)
         /\ \A i, r : r = requests /\ SentOn(i, r)' => i = id[ch]
    BY <1>1, <1>2, <2>4 DEF SentOn, LocksHeld
  <2>7. /\ \A k \in DOMAIN up : Numbered(up[k]) => up[k].request \in Nat /\ up[k].request < requests
        /\ \A k \in DOMAIN down : Numbered(down[k]) =>
             down[k].request \in Nat /\ down[k].request < requests
    <3>1. /\ \A k \in DOMAIN up : up[k] \in Requests
          /\ \A k \in DOMAIN down : down[k] \in Packets
      BY LenProperties, ElementOfSeq DEF TypeOK
    <3> QED BY <3>1 DEF Requests, Packets, RepliesAwaited, Sound, Numbered
  <2>13. StillAwaited
    BY <1>1, <2>6, <2>12 DEF StillAwaited
  <2>14. \A w : w = m => Sound(w)'
    BY <1>1, <2>1, <2>5, <2>12 DEF Sound
  <2>8. \A k \in DOMAIN up' : Sound(up[k])'
    <3>1. \A k \in DOMAIN up' : \A w : w = up'[k] => Sound(w)'
      BY <1>1, <2>3, <2>7, <2>13, <2>14, SoundKept DEF RepliesAwaited
    <3> QED BY <3>1 DEF Sound
  <2>9. \A k \in DOMAIN down : Sound(down[k])'
    <3>1. \A k \in DOMAIN down : \A w : w = down[k] => Sound(w)'
      BY <1>1, <2>7, <2>13, SoundKept DEF RepliesAwaited
    <3>2. down' = down
      OBVIOUS
    <3> QED BY <3>1, <3>2 DEF Sound
  <2>10. /\ \A j, k \in DOMAIN up' : j # k => Differ(up[j], up[k])'
         /\ \A j \in DOMAIN up', k \in DOMAIN down : Differ(up[j], down[k])'
    BY <2>1, <2>3, <2>7 DEF RepliesAwaited, Differ, Numbered
  <2>11. RepliesRight'
    BY <1>1, <1>2, <2>4 DEF RepliesAwaited, RepliesRight, OwnReplyInTime, LocksHeld, TypeOK
  <2> QED BY <2>8, <2>9, <2>10, <2>11 DEF RepliesAwaited, Differ, Numbered
<1>3. CASE SendRaises /\ Returns(t) /\ UNCHANGED sendLock
  <2>1. /\ pc'[t] = "idle" /\ reply'[t] = None /\ future'[t] = None
        /\ \A u \in Tasks : u # t => /\ pc'[u] = pc[u] /\ chan'[u] = chan[u]
                                     /\ future'[u] = future[u] /\ reply'[u] = reply[u]
    BY <1>3 DEF TypeOK, Returns, Calls
  <2>2. /\ \A i, r : Awaited(i, r) => Awaited(i, r)'
        /\ \A i, r : SentOn(i, r)' => SentOn(i, r)
    BY <2>1 DEF Awaited, SentOn
  <2>3. RepliesRight'
    <3>1. \A u \in Tasks : reply'[u] \in Nat => reply'[u] < requests'
      BY <1>1, <2>1 DEF RepliesAwaited, RepliesRight
    <3>2. OwnReplyInTime'
      BY <2>1 DEF RepliesAwaited, RepliesRight, OwnReplyInTime
    <3> QED BY <3>1, <3>2 DEF RepliesRight
  <2>4. StillAwaited /\ WireShrinks
    BY <1>1, <1>3, <2>2 DEF StillAwaited, WireShrinks, SendRaises, RepliesAwaited
  <2> QED BY <1>1, <2>3, <2>4, WireKept
<1> QED BY <1>2, <1>3 DEF Transmit

\* A caller that returns had no answer to wait for, or gives up on its id.
LEMMA ReturnReplies ==
  ASSUME TypeOK, RepliesAwaited, NEW t \in Tasks, Returns(t),
         unsettled' = unsettled \/ (pc[t] = "replying" /\ unsettled' = unsettled \cup {id[chan[t]]}),
         pc[t] = "replying" /\ reply[t] = None => id[chan[t]] \in unsettled',
         UNCHANGED <<id, link, up, down, requests>>
  PROVE  RepliesAwaited'
<1>1. /\ pc'[t] = "idle" /\ reply'[t] = None /\ future'[t] = None
      /\ \A u \in Tasks : u # t => /\ pc'[u] = pc[u] /\ chan'[u] = chan[u]
                                   /\ future'[u] = future[u] /\ reply'[u] = reply[u]
  BY DEF TypeOK, Returns, Calls
<1>2. requests' \in Nat /\ requests <= requests' /\ unsettled \subseteq unsettled'
  BY DEF TypeOK
<1>3. /\ \A i, r : i \notin unsettled' /\ Awaited(i, r) => Awaited(i, r)'
      /\ \A i, r : SentOn(i, r)' => SentOn(i, r)
  BY <1>1 DEF Awaited, SentOn
<1>4. RepliesRight'
  <2>1. \A u \in Tasks : reply'[u] \in Nat => reply'[u] < requests'
    BY <1>1 DEF RepliesAwaited, RepliesRight
  <2>2. OwnReplyInTime'
    BY <1>1, <1>2 DEF RepliesAwaited, RepliesRight, OwnReplyInTime
  <2> QED BY <2>1, <2>2 DEF RepliesRight
<1>5. StillAwaited /\ WireShrinks
  BY <1>2, <1>3 DEF StillAwaited, WireShrinks, RepliesAwaited
<1> QED BY <1>2, <1>4, <1>5, WireKept

LEMMA DispatchOpenReplies ==
  ASSUME TypeOK, LocksHeld, RepliesAwaited, DispatchOpen
  PROVE  RepliesAwaited'
<1>1. \A k \in DOMAIN down' : k \in Nat /\ k + 1 \in DOMAIN down /\ down'[k] = down[k + 1]
  BY Dropped DEF TypeOK, DispatchOpen
<1>2. UNCHANGED <<link, pc, chan, future, reply, up, requests, unsettled>>
  BY DEF DispatchOpen, clientVars, callerVars, history
<1>3. \A t \in Tasks : pc[t] = "replying" => id'[chan[t]] = id[chan[t]]
  BY DispatchOpenLocks
<1>4. /\ \A i, r : Awaited(i, r) => Awaited(i, r)'
      /\ \A i, r : SentOn(i, r)' => SentOn(i, r)
  BY <1>2, <1>3 DEF Awaited, SentOn
<1>5. RepliesRight'
  BY <1>2, <1>3 DEF RepliesAwaited, RepliesRight, OwnReplyInTime
<1>6. /\ \A k \in DOMAIN up : Sound(up[k])'
      /\ \A k \in DOMAIN down' : Sound(down[k])'
  BY <1>1, <1>2, <1>4 DEF RepliesAwaited, Sound, Numbered
<1>7. /\ \A j, k \in DOMAIN down' : j # k => Differ(down[j], down[k])'
      /\ \A j \in DOMAIN up, k \in DOMAIN down' : Differ(up[j], down[k])'
      /\ \A j, k \in DOMAIN up : j # k => Differ(up[j], up[k])'
  BY <1>1, <1>2 DEF RepliesAwaited, Differ, Numbered
<1>8. link = "up"
  BY DEF RepliesAwaited, DispatchOpen
<1> QED BY <1>2, <1>5, <1>6, <1>7, <1>8 DEF RepliesAwaited

\* The future registered under the id is the one of the reply's own request, unless the id is
\* unsettled; it is the only future that is completed.
LEMMA DispatchJsonReplies ==
  ASSUME TypeOK, IdsOnce, LocksHeld, RepliesAwaited, DispatchJson
  PROVE  RepliesAwaited'
<1> DEFINE p == Head(down)
<1>1. /\ p \in Packets /\ p = down[1] /\ 1 \in DOMAIN down /\ p.type = "json"
      /\ \A k \in DOMAIN down' : /\ k \in Nat /\ k + 1 \in DOMAIN down /\ down'[k] = down[k + 1]
                                 /\ k + 1 # 1
  BY Dropped DEF TypeOK, DispatchJson
<1>2. p.id \in Ids /\ p.request \in Nat \cup {Push}
  BY <1>1 DEF Packets
<1>3. /\ reply' = [t \in Tasks |->
                     IF /\ t \in {u \in Tasks : pc[u] = "replying" /\ future[u] = callbacks[p.id]}
                        /\ reply[t] = None
                     THEN p.request ELSE reply[t]]
      /\ unsettled' = IF p.request = Push /\ callbacks[p.id] # None
                      THEN unsettled \cup {p.id} ELSE unsettled
      /\ UNCHANGED <<link, sendLock, id, pc, chan, future, up, requests>>
  BY DEF DispatchJson, channelVars
<1> HIDE DEF p
<1>4. \A t \in Tasks :
        reply'[t] = IF pc[t] = "replying" /\ future[t] = callbacks[p.id] /\ reply[t] = None
                    THEN p.request ELSE reply[t]
  BY <1>3
<1>5. \A t \in Tasks : pc[t] = "replying" /\ reply[t] = None =>
        /\ callbacks[id[chan[t]]] = future[t] /\ future[t] # None /\ id[chan[t]] \in Ids
  BY DEF LocksHeld, CallbackKept, TypeOK, IsOpen
<1>6. p.request # Push => /\ p.id \notin unsettled => callbacks[p.id] = p.request
                          /\ p.request < requests
                          /\ \A i : SentOn(i, p.request) => i = p.id
  <2>1. Sound(p)
    BY <1>1 DEF RepliesAwaited
  <2>2. \A i, r : Awaited(i, r) => callbacks[i] = r
    BY <1>5 DEF Awaited
  <2> QED BY <1>1, <2>1, <2>2 DEF Sound, Numbered
<1>7. \A t \in Tasks : pc[t] = "replying" /\ reply[t] = None /\ future[t] = callbacks[p.id] =>
        id[chan[t]] = p.id /\ callbacks[p.id] # None
  BY <1>2, <1>5 DEF LocksHeld
\* Two callers that wait on one id are one.
<1>14. \A t, u \in Tasks :
         pc[t] = "replying" /\ pc[u] = "replying" /\ id[chan[t]] = id[chan[u]] => t = u
  BY DEF LocksHeld, IdsOnce
<1>15. \A t \in Tasks : pc[t] # "replying" => future[t] = None
  BY DEF LocksHeld
<1>8. RepliesRight'
  <2>1. \A t \in Tasks : reply'[t] \in Nat => reply'[t] < requests'
    BY <1>3, <1>4, <1>6 DEF RepliesAwaited, RepliesRight
  <2>2. ASSUME NEW t \in Tasks, pc[t] = "replying", reply'[t] \notin {None, future[t]}
        PROVE  id[chan[t]] \in unsettled' /\ \A u \in Tasks : future[u] # reply'[t]
    <3>1. CASE reply'[t] = reply[t]
      BY <1>3, <2>2, <3>1 DEF RepliesAwaited, RepliesRight, OwnReplyInTime
    <3>2. CASE reply'[t] # reply[t]
      <4>1. /\ reply'[t] = p.request /\ reply[t] = None /\ future[t] = callbacks[p.id]
            /\ id[chan[t]] = p.id /\ callbacks[p.id] # None
        BY <1>4, <1>7, <2>2, <3>2
      <4>2. id[chan[t]] \in unsettled'
        BY <1>3, <1>6, <2>2, <4>1
      <4>3. ASSUME NEW u \in Tasks, future[u] = p.request
            PROVE  FALSE
        <5>1. p.request \in Nat /\ pc[u] = "replying"
          BY <1>2, <1>15, <4>3 DEF TypeOK
        <5>2. id[chan[u]] = p.id
          BY <1>6, <4>3, <5>1 DEF SentOn
        <5> QED BY <1>14, <2>2, <4>1, <4>3, <5>1, <5>2
      <4> QED BY <4>1, <4>2, <4>3
    <3> QED BY <3>1, <3>2
  <2> QED BY <1>3, <2>1, <2>2 DEF RepliesRight, OwnReplyInTime
<1>9. \A i, r : i \notin unsettled' /\ r # p.request /\ Awaited(i, r) => Awaited(i, r)'
  BY <1>3, <1>4, <1>6, <1>7 DEF Awaited
<1>16. \A i, r : SentOn(i, r)' => SentOn(i, r)
  BY <1>3 DEF SentOn
<1>10. /\ \A k \in DOMAIN up : Numbered(up[k]) => up[k].request # p.request
       /\ \A k \in DOMAIN down' : Numbered(down'[k]) => down'[k].request # p.request
  <2>1. CASE p.request # Push
    BY <1>1, <2>1 DEF RepliesAwaited, Differ, Numbered
  <2>2. CASE p.request = Push
    BY <2>2 DEF Numbered
  <2> QED BY <2>1, <2>2
<1>11. /\ \A k \in DOMAIN up : Sound(up[k])'
       /\ \A k \in DOMAIN down' : Sound(down[k])'
  <2>1. ASSUME NEW m, Sound(m), Numbered(m) => m.request # p.request
        PROVE  Sound(m)'
    BY <1>3, <1>9, <1>16, <2>1 DEF Sound
  <2>2. \A m : Sound(m) /\ (Numbered(m) => m.request # p.request) => Sound(m)'
    BY <2>1
  <2>3. \A k \in DOMAIN up : \A m : m = up[k] => Sound(m)'
    BY <1>10, <2>2 DEF RepliesAwaited
  <2>4. \A k \in DOMAIN down' : \A m : m = down'[k] => Sound(m)'
    BY <1>1, <1>10, <2>2 DEF RepliesAwaited
  <2> QED BY <1>3, <2>3, <2>4 DEF Sound
<1>12. /\ \A j, k \in DOMAIN down' : j # k => Differ(down[j], down[k])'
       /\ \A j \in DOMAIN up, k \in DOMAIN down' : Differ(up[j], down[k])'
       /\ \A j, k \in DOMAIN up : j # k => Differ(up[j], up[k])'
  BY <1>1, <1>3 DEF RepliesAwaited, Differ, Numbered
<1>13. link = "up"
  BY DEF RepliesAwaited, DispatchJson
<1> QED BY <1>3, <1>8, <1>11, <1>12, <1>13 DEF RepliesAwaited

\* The device adds a packet: an id it chose, the reply to the first request, or JSON of its own.
LEMMA DeviceReplies ==
  ASSUME TypeOK, RepliesAwaited, DeviceAnswers \/ DevicePushes \/ DeviceOpens
  PROVE  RepliesAwaited'
<1>1. UNCHANGED <<link, id, pc, chan, future, reply, requests, unsettled>> /\ link = "up"
  BY DEF DeviceAnswers, DevicePushes, DeviceOpens, clientVars, channelVars, callerVars, history
<1>2. /\ \A i, r : Awaited(i, r) => Awaited(i, r)'
      /\ \A i, r : SentOn(i, r)' => SentOn(i, r)
  BY <1>1 DEF Awaited, SentOn
<1>3. RepliesRight'
  BY <1>1 DEF RepliesAwaited, RepliesRight, OwnReplyInTime
<1>4. PICK d \in {0, 1} :
        /\ \A k \in DOMAIN up' : k \in Nat /\ k + d \in DOMAIN up /\ up'[k] = up[k + d] /\ k + d > d
        /\ DeviceAnswers => d = 1 /\ 1 \in DOMAIN up /\ up[1] = Head(up) /\ Head(up) \in Requests
  <2>1. CASE DeviceAnswers
    <3>1. up # <<>> /\ up' = Tail(up)
      BY <2>1 DEF DeviceAnswers
    <3>2. /\ 1 \in DOMAIN up /\ up[1] = Head(up) /\ Head(up) \in Requests
          /\ \A k \in DOMAIN up' : k \in Nat /\ k + 1 \in DOMAIN up /\ up'[k] = up[k + 1] /\ 1 < k + 1
      BY <3>1, Dropped DEF TypeOK
    <3> QED BY <3>2
  <2>2. CASE ~DeviceAnswers
    <3>1. up' = up
      BY <2>2 DEF DeviceOpens, DevicePushes
    <3>2. \A k \in DOMAIN up : k \in Nat /\ k > 0
      BY LenProperties DEF TypeOK
    <3> QED BY <2>2, <3>1, <3>2
  <2> QED BY <2>1, <2>2
<1>5. \E m \in Packets : /\ down' = Append(down, m)
                         /\ Numbered(m) => /\ d = 1 /\ 1 \in DOMAIN up /\ Numbered(up[1])
                                           /\ m.id = up[1].id /\ m.request = up[1].request
  <2>1. CASE DeviceAnswers /\ Head(up).type = "open"
    <3>1. PICK i \in Ids : down' = Append(down, [type |-> "opened", id |-> i, request |-> 0])
      BY <2>1 DEF DeviceAnswers
    <3>2. [type |-> "opened", id |-> i, request |-> 0] \in Packets
      BY DEF Packets
    <3> QED BY <3>1, <3>2 DEF Numbered
  <2>2. CASE DeviceAnswers /\ Head(up).type = "json"
    <3> DEFINE m == [type |-> "json", id |-> Head(up).id, request |-> Head(up).request]
    <3>1. down' = Append(down, m)
      BY <2>2 DEF DeviceAnswers
    <3>2. m \in Packets /\ m.id = Head(up).id /\ m.request = Head(up).request /\ m.type = "json"
      BY <1>4, <2>2 DEF Requests, Packets
    <3> HIDE DEF m
    <3> QED BY <1>4, <2>2, <3>1, <3>2 DEF Numbered
  <2>3. CASE DeviceOpens
    <3>1. PICK i \in Ids : down' = Append(down, [type |-> "deviceOpen", id |-> i, request |-> 0])
      BY <2>3 DEF DeviceOpens
    <3>2. [type |-> "deviceOpen", id |-> i, request |-> 0] \in Packets
      BY DEF Packets
    <3> QED BY <3>1, <3>2 DEF Numbered
  <2>4. CASE DevicePushes
    <3>1. PICK i \in Ids : down' = Append(down, [type |-> "json", id |-> i, request |-> Push])
      BY <2>4 DEF DevicePushes
    <3>2. [type |-> "json", id |-> i, request |-> Push] \in Packets
      BY DEF Packets
    <3> QED BY <3>1, <3>2 DEF Numbered
  <2> QED BY <2>1, <2>2, <2>3, <2>4 DEF DeviceAnswers
<1>6. PICK m \in Packets : /\ down' = Append(down, m)
                           /\ Numbered(m) => /\ d = 1 /\ 1 \in DOMAIN up /\ Numbered(up[1])
                                             /\ m.id = up[1].id /\ m.request = up[1].request
  BY <1>5
<1>7. \A k \in DOMAIN down' : \/ k \in DOMAIN down /\ down'[k] = down[k]
                              \/ k = Len(down) + 1 /\ down'[k] = m
  BY <1>6, Appended DEF TypeOK
<1>s. ASSUME NEW w, Sound(w) PROVE Sound(w)'
  BY <1>1, <1>2, <1>s DEF Sound, Numbered
<1>8. \A k \in DOMAIN up' : Sound(up[k])'
  <2> SUFFICES ASSUME NEW k \in DOMAIN up', NEW w, w = up'[k] PROVE Sound(w)'
    OBVIOUS
  <2>1. Sound(w)
    BY <1>4 DEF RepliesAwaited
  <2> QED BY <1>s, <2>1
<1>9. \A k \in DOMAIN down' : Sound(down[k])'
  <2> SUFFICES ASSUME NEW k \in DOMAIN down', NEW w, w = down'[k] PROVE Sound(w)'
    OBVIOUS
  <2>1. CASE k \in DOMAIN down /\ down'[k] = down[k]
    <3>1. Sound(w)
      BY <2>1 DEF RepliesAwaited
    <3> QED BY <1>s, <3>1
  <2>2. CASE down'[k] = m
    <3>1. Numbered(m) => Sound(up[1]) /\ up[1].type = "json" /\ up[1].request # Push
      BY <1>6 DEF RepliesAwaited, Numbered
    <3>2. Sound(w)
      BY <1>6, <2>2, <3>1 DEF Sound, Numbered
    <3> QED BY <1>s, <3>2
  <2> QED BY <1>7, <2>1, <2>2
<1>10. \A j, k \in DOMAIN up' : j # k => Differ(up[j], up[k])'
  <2>1. \A j, k \in DOMAIN up' : j # k => j + d # k + d
    BY <1>4
  <2> QED BY <1>4, <2>1 DEF RepliesAwaited, Differ, Numbered
<1>11. \A j, k \in DOMAIN down' : j # k => Differ(down[j], down[k])'
  BY <1>4, <1>6, <1>7 DEF RepliesAwaited, Differ, Numbered
<1>12. \A j \in DOMAIN up', k \in DOMAIN down' : Differ(up[j], down[k])'
  BY <1>4, <1>6, <1>7 DEF RepliesAwaited, Differ, Numbered
<1> QED BY <1>1, <1>3, <1>8, <1>9, <1>10, <1>11, <1>12 DEF RepliesAwaited

LEMMA DisconnectReplies ==
  ASSUME TypeOK, LocksHeld, RepliesAwaited, DisconnectEnds
  PROVE  RepliesAwaited'
<1> DEFINE lost == {t \in Tasks : pc[t] = "replying" /\ reply[t] = None
                                    /\ callbacks[id[chan[t]]] = future[t]}
<1>1. /\ link = "lost" /\ up' = <<>>
      /\ pc' = [t \in Tasks |-> IF t \in lost THEN "idle" ELSE pc[t]]
      /\ chan' = [t \in Tasks |-> IF t \in lost THEN None ELSE chan[t]]
      /\ future' = [t \in Tasks |-> IF t \in lost THEN None ELSE future[t]]
      /\ UNCHANGED <<id, reply, down, requests, unsettled>>
  BY DEF DisconnectEnds, history
<1> HIDE DEF lost
<1>2. \A t \in Tasks : pc'[t] = "replying" => /\ pc[t] = "replying" /\ chan'[t] = chan[t]
                                              /\ future'[t] = future[t]
  BY <1>1
<1>3. RepliesRight'
  BY <1>1, <1>2 DEF RepliesAwaited, RepliesRight, OwnReplyInTime
<1>4. down' = <<>> /\ DOMAIN down' = {} /\ DOMAIN up' = {}
  BY <1>1 DEF RepliesAwaited
<1> QED BY <1>3, <1>4 DEF RepliesAwaited

LEMMA RepliesStep ==
  ASSUME TypeOK, TypeOK', IdsOnce, LocksHeld, RepliesAwaited, [Next]_vars
  PROVE  RepliesAwaited'
<1>1. ASSUME WireShrinks, UNCHANGED <<id, pc, chan, future, reply, requests, unsettled>>
      PROVE  RepliesAwaited'
  <2>1. StillAwaited /\ requests' \in Nat
    BY <1>1 DEF StillAwaited, Awaited, SentOn, TypeOK
  <2>2. RepliesRight'
    BY <1>1 DEF RepliesAwaited, RepliesRight, OwnReplyInTime
  <2> QED BY <1>1, <2>1, <2>2, WireKept
<1>2. ASSUME NEW t \in Tasks, pc[t] # "replying", NEW p \in {"opening", "expecting", "locking"},
             NEW ch \in Channels, Calls(t, p, ch),
             UNCHANGED <<id, future, reply, requests, unsettled>>
      PROVE  /\ \A i, r : Awaited(i, r) => Awaited(i, r)'
             /\ \A i, r : SentOn(i, r)' => SentOn(i, r)
             /\ RepliesRight'
  <2>1. /\ pc'[t] = p
        /\ \A u \in Tasks : u # t => pc'[u] = pc[u] /\ chan'[u] = chan[u]
    BY <1>2 DEF TypeOK, Calls
  <2> QED BY <1>2, <2>1 DEF RepliesAwaited, RepliesRight, OwnReplyInTime, Awaited, SentOn
<1>3. ASSUME NEW t \in Tasks, NEW n \in Names, OpenChannel(t, n)
      PROVE  RepliesAwaited'
  <2>1. PICK ch \in Channels :
          \/ Sends([type |-> "open", chan |-> ch]) /\ Calls(t, "opening", ch)
          \/ SendRaises /\ UNCHANGED <<pc, chan>>
    BY <1>3 DEF OpenChannel
  <2>2. pc[t] = "idle" /\ UNCHANGED <<link, id, down, future, reply, requests, unsettled>>
    BY <1>3 DEF OpenChannel
  <2>3. CASE SendRaises /\ UNCHANGED <<pc, chan>>
    BY <1>1, <2>2, <2>3 DEF WireShrinks, SendRaises, RepliesAwaited
  <2>4. CASE Sends([type |-> "open", chan |-> ch]) /\ Calls(t, "opening", ch)
    <3> DEFINE m == [type |-> "open", chan |-> ch]
    <3>1. m \in Requests /\ m.type # "json" /\ up' = Append(up, m)
      BY <2>4 DEF Requests, Sends
    <3> HIDE DEF m
    <3>2. \A k \in DOMAIN up' : \/ k \in DOMAIN up /\ up'[k] = up[k]
                                \/ k = Len(up) + 1 /\ up'[k] = m
      BY <3>1, Appended DEF TypeOK
    <3>3. /\ \A i, r : Awaited(i, r) => Awaited(i, r)'
          /\ \A i, r : SentOn(i, r)' => SentOn(i, r)
          /\ RepliesRight'
      BY <1>2, <2>2, <2>4
    <3>4. /\ \A k \in DOMAIN up' : Sound(up[k])'
          /\ \A k \in DOMAIN down : Sound(down[k])'
      BY <2>2, <3>1, <3>2, <3>3 DEF RepliesAwaited, Sound, Numbered
    <3>5. /\ \A j, k \in DOMAIN up' : j # k => Differ(up[j], up[k])'
          /\ \A j \in DOMAIN up', k \in DOMAIN down : Differ(up[j], down[k])'
      BY <2>2, <3>1, <3>2 DEF RepliesAwaited, Differ, Numbered
    <3> QED BY <2>2, <3>3, <3>4, <3>5 DEF RepliesAwaited, Differ, Numbered
  <2> QED BY <2>1, <2>3, <2>4
<1>4. ASSUME NEW t \in Tasks, NEW p \in {"expecting", "locking"}, NEW ch \in Channels,
             pc[t] # "replying", Calls(t, p, ch),
             UNCHANGED <<link, id, up, down, future, reply, requests, unsettled>>
      PROVE  RepliesAwaited'
  <2>1. /\ \A i, r : Awaited(i, r) => Awaited(i, r)'
        /\ \A i, r : SentOn(i, r)' => SentOn(i, r)
        /\ RepliesRight'
    BY <1>2, <1>4
  <2>2. StillAwaited /\ WireShrinks /\ requests' \in Nat
    BY <1>4, <2>1 DEF StillAwaited, WireShrinks, RepliesAwaited, TypeOK
  <2> QED BY <2>1, <2>2, WireKept
<1>5. ASSUME NEW t \in Tasks, NEW ch \in Channels, AwaitPlaceholder(t, ch)
      PROVE  RepliesAwaited'
  BY <1>4, <1>5 DEF AwaitPlaceholder, clientVars, channelVars, streamVars, history
<1>6. ASSUME NEW t \in Tasks, NEW ch \in Channels, SendJson(t, ch)
      PROVE  RepliesAwaited'
  BY <1>4, <1>6, TransmitReplies DEF SendJson
<1>7. ASSUME NEW t \in Tasks, LockAcquired(t)
      PROVE  RepliesAwaited'
  <2>1. chan[t] \in Channels /\ IsOpen(chan[t])
    BY <1>7 DEF LocksHeld, LockAcquired
  <2> QED BY <1>7, <2>1, TransmitReplies DEF LockAcquired
<1>8. ASSUME NEW t \in Tasks, ChannelOpened(t) \/ OpenTimesOut(t)
      PROVE  RepliesAwaited'
  BY <1>8, ReturnReplies DEF ChannelOpened, OpenTimesOut, clientVars, channelVars, streamVars, history
<1>9. ASSUME NEW t \in Tasks, ReplyArrived(t) \/ ReplyTimesOut(t) \/ Cancelled(t)
      PROVE  RepliesAwaited'
  <2>1. CASE ReplyArrived(t)
    BY <2>1, ReturnReplies DEF ReplyArrived, clientVars, streamVars, history
  <2>2. CASE ReplyTimesOut(t)
    BY <2>2, ReturnReplies DEF ReplyTimesOut, streamVars
  <2>3. CASE Cancelled(t)
    BY <2>3, ReturnReplies DEF Cancelled, clientVars, streamVars
  <2> QED BY <1>9, <2>1, <2>2, <2>3
<1>10. ASSUME NEW t \in Tasks, Call(t) \/ CallStep(t)
       PROVE  RepliesAwaited'
  BY <1>3, <1>5, <1>6, <1>7, <1>8, <1>9, <1>10 DEF Call, CallStep
<1>11. CASE \/ \E n \in Placeholders : RegisterPlaceholder(n)
            \/ \E n \in Names \cup Placeholders : RemoveChannel(n)
            \/ ReceiveEnds \/ UNCHANGED vars
  <2>1. WireShrinks
    BY <1>11
    DEF RegisterPlaceholder, RemoveChannel, ReceiveEnds, vars, clientVars, streamVars, WireShrinks,
        RepliesAwaited
  <2>2. UNCHANGED <<id, pc, chan, future, reply, requests, unsettled>>
    BY <1>11
    DEF RegisterPlaceholder, RemoveChannel, ReceiveEnds, vars, channelVars, callerVars, history
  <2> QED BY <1>1, <2>1, <2>2
<1> QED
  BY <1>10, <1>11, DispatchOpenReplies, DispatchJsonReplies, DeviceReplies, DisconnectReplies
  DEF Next, Receive
-----------------------------------------------------------------------------
(* The order of the registry *)

\* The same entries are asked for, and the same answered, d or e places further on.
UpCarried(d) ==
  /\ \A k \in DOMAIN up' : Asking(k)' =>
       k + d \in DOMAIN up /\ Asking(k + d) /\ up'[k].chan = up[k + d].chan
  /\ \A k \in DOMAIN up : Asking(k) =>
       k - d \in DOMAIN up' /\ Asking(k - d)' /\ up'[k - d].chan = up[k].chan
DownCarried(e) ==
  /\ \A k \in DOMAIN down' : Answered(k)' =>
       k + e \in DOMAIN down /\ Answered(k + e) /\ Asker(k)' = Asker(k + e)
  /\ \A k \in DOMAIN down : Answered(k) =>
       k - e \in DOMAIN down' /\ Answered(k - e)' /\ Asker(k - e)' = Asker(k)

LEMMA UpKept ==
  ASSUME TypeOK, up' = up \/ \E m \in Requests : m.type # "open" /\ up' = Append(up, m)
  PROVE  UpCarried(0)
<1>1. /\ \A k \in DOMAIN up : k \in Nat /\ k + 0 = k /\ k - 0 = k
      /\ \A k \in DOMAIN up : k \in DOMAIN up' /\ up'[k] = up[k]
      /\ \A k \in DOMAIN up' : k \in DOMAIN up \/ up'[k].type # "open"
  <2>1. CASE up' = up
    BY <2>1, LenProperties DEF TypeOK
  <2>2. CASE \E m \in Requests : m.type # "open" /\ up' = Append(up, m)
    <3>1. PICK m \in Requests : m.type # "open" /\ up' = Append(up, m)
      BY <2>2
    <3>2. up \in Seq(Requests)
      BY DEF TypeOK
    <3>3. \A k \in DOMAIN up' : \/ k \in DOMAIN up /\ up'[k] = up[k]
                                \/ k = Len(up) + 1 /\ up'[k] = m
      BY <3>1, <3>2, Appended
    <3>4. \A k \in DOMAIN up : k \in DOMAIN up' /\ up'[k] = up[k]
      BY <3>1, <3>2, Appended
    <3>5. \A k \in DOMAIN up : k \in Nat
      BY ONLY <3>2, LenProperties
    <3> QED BY <3>1, <3>3, <3>4, <3>5
  <2> QED BY <2>1, <2>2
<1> QED BY <1>1 DEF UpCarried, Asking

LEMMA DownKept ==
  ASSUME TypeOK, IdsOnce,
         \/ down' = down /\ given' = given
         \/ \E m \in Packets : m.type # "opened" /\ down' = Append(down, m),
         \A i \in Ids : given[i] # Unused => given'[i] = given[i]
  PROVE  DownCarried(0)
<1>1. /\ \A k \in DOMAIN down : k \in Nat /\ k + 0 = k /\ k - 0 = k
      /\ \A k \in DOMAIN down : k \in DOMAIN down' /\ down'[k] = down[k]
      /\ \A k \in DOMAIN down' : k \in DOMAIN down \/ down'[k].type # "opened"
  <2>1. CASE down' = down
    BY <2>1, LenProperties DEF TypeOK
  <2>2. CASE \E m \in Packets : m.type # "opened" /\ down' = Append(down, m)
    <3>1. PICK m \in Packets : m.type # "opened" /\ down' = Append(down, m)
      BY <2>2
    <3>2. down \in Seq(Packets)
      BY DEF TypeOK
    <3>3. \A k \in DOMAIN down' : \/ k \in DOMAIN down /\ down'[k] = down[k]
                                  \/ k = Len(down) + 1 /\ down'[k] = m
      BY <3>1, <3>2, Appended
    <3>4. \A k \in DOMAIN down : k \in DOMAIN down' /\ down'[k] = down[k]
      BY <3>1, <3>2, Appended
    <3>5. \A k \in DOMAIN down : k \in Nat
      BY ONLY <3>2, LenProperties
    <3> QED BY <3>1, <3>3, <3>4, <3>5
  <2> QED BY <2>1, <2>2
<1>2. \A k \in DOMAIN down : Answered(k) => given'[down[k].id] = given[down[k].id]
  <2>1. \A k \in DOMAIN down : down[k] \in Packets
    BY LenProperties, ElementOfSeq DEF TypeOK
  <2>2. \A k \in DOMAIN down : down[k].id \in Ids
    BY <2>1 DEF Packets
  <2> QED BY <2>2 DEF IdsOnce, Opens, Answered
<1> QED BY <1>1, <1>2 DEF DownCarried, Answered, Asker

LEMMA DownTaken ==
  ASSUME TypeOK, down # <<>>, down' = Tail(down), Head(down).type # "opened", given' = given
  PROVE  DownCarried(1)
<1>1. /\ down[1].type # "opened"
      /\ \A k \in DOMAIN down' : k + 1 \in DOMAIN down /\ down'[k] = down[k + 1]
      /\ \A k \in DOMAIN down : k # 1 => k - 1 \in DOMAIN down' /\ down'[k - 1] = down[k]
  BY Dropped DEF TypeOK
<1> QED BY <1>1 DEF DownCarried, Answered, Asker

LEMMA UpTaken ==
  ASSUME TypeOK, up # <<>>, up' = Tail(up), Head(up).type # "open"
  PROVE  UpCarried(1)
<1>1. /\ up[1].type # "open"
      /\ \A k \in DOMAIN up' : k + 1 \in DOMAIN up /\ up'[k] = up[k + 1]
      /\ \A k \in DOMAIN up : k # 1 => k - 1 \in DOMAIN up' /\ up'[k - 1] = up[k]
  BY Dropped DEF TypeOK
<1> QED BY <1>1 DEF UpCarried, Asking

LEMMA OrderCarried ==
  ASSUME TypeOK, TypeOK', InOrder, NEW d \in {0, 1}, NEW e \in {0, 1}, UpCarried(d), DownCarried(e),
         \A ch \in Channels : Pending(ch)' <=> Pending(ch),
         \A ch, z : Pending(ch) /\ Pending(z) /\ Before(ch, z) => Before(ch, z)',
         OwnIdInOrder', ~disturbed'
  PROVE  InOrder'
<1>1. /\ \A k \in DOMAIN up' : k \in Nat
      /\ \A k \in DOMAIN down' : k \in Nat
  BY LenProperties DEF TypeOK
<1>2. \A ch : Pending(ch) => ch \in Channels
  BY DEF Pending, TypeOK
<1>3. \A ch \in requested' : IsOpen(ch)' => given'[id'[ch]] = ch
  BY DEF OwnIdInOrder
<1>4. \A k \in DOMAIN up' : Asking(k)' => \A ch : ch = up'[k].chan => Pending(ch)'
  BY <1>2 DEF InOrder, UpCarried, DownCarried
<1>5. \A k \in DOMAIN down' : Answered(k)' => \A ch : ch = Asker(k)' => Pending(ch)'
  BY <1>2 DEF InOrder, UpCarried, DownCarried
<1>6. \A j, k \in DOMAIN up' : Asking(j)' /\ Asking(k)' /\ j < k =>
        \A ch, z : ch = up'[j].chan /\ z = up'[k].chan => Before(ch, z)'
  BY <1>1 DEF InOrder, UpCarried, DownCarried
<1>7. \A j, k \in DOMAIN down' : Answered(j)' /\ Answered(k)' /\ j < k =>
        \A ch, z : ch = Asker(j)' /\ z = Asker(k)' => Before(ch, z)'
  BY <1>1 DEF InOrder, UpCarried, DownCarried
<1>8. \A j \in DOMAIN down', k \in DOMAIN up' : Answered(j)' /\ Asking(k)' =>
        \A ch, z : ch = Asker(j)' /\ z = up'[k].chan => Before(ch, z)'
  BY DEF InOrder, UpCarried, DownCarried
<1>9. \A ch \in Channels : Pending(ch)' =>
        \/ \E k \in DOMAIN up' : Asking(k)' /\ up'[k].chan = ch
        \/ \E k \in DOMAIN down' : Answered(k)' /\ Asker(k)' = ch
  BY DEF InOrder, UpCarried, DownCarried
<1>10. /\ \A k \in DOMAIN up' : Asking(k)' => Pending(up[k].chan)'
       /\ \A k \in DOMAIN down' : Answered(k)' => Pending(Asker(k))'
  BY <1>4, <1>5 DEF Pending
<1>11. /\ \A j, k \in DOMAIN up' : Asking(j)' /\ Asking(k)' /\ j < k => Before(up[j].chan, up[k].chan)'
       /\ \A j, k \in DOMAIN down' : Answered(j)' /\ Answered(k)' /\ j < k => Before(Asker(j), Asker(k))'
       /\ \A j \in DOMAIN down', k \in DOMAIN up' :
            Answered(j)' /\ Asking(k)' => Before(Asker(j), up[k].chan)'
  BY <1>6, <1>7, <1>8 DEF Before
<1> QED BY <1>3, <1>9, <1>10, <1>11 DEF InOrder

\* A placeholder takes nobody's place that waits: it replaces another placeholder, or is added
\* behind all.
LEMMA PlaceholderOrder ==
  ASSUME TypeOK, TypeOK', KeysOnce, IdsOnce, OrderKept, NEW n \in Placeholders, RegisterPlaceholder(n)
  PROVE  OrderKept'
<1>1. PICK ch \in Channels : Register(ch, n)
  BY DEF RegisterPlaceholder
<1>2. UNCHANGED <<link, requested, id, up, down, given, disturbed>>
  BY DEF RegisterPlaceholder, streamVars, history
<1>3. /\ ch \notin requested
      /\ \A k \in DOMAIN registry' :
           \/ registry'[k] = ch
           \/ k \in DOMAIN registry /\ registry'[k] = registry[k] /\ name[registry[k]] # n
      /\ \A k \in DOMAIN registry : name[registry[k]] # n =>
           k \in DOMAIN registry' /\ registry'[k] = registry[k]
  BY <1>1, Registers
<1>4. \A z \in requested : name[z] # n /\ z # ch
  BY <1>3 DEF KeysOnce
<1>5. \A z \in Channels : Pending(z)' <=> Pending(z)
  BY <1>2, <1>3, <1>4 DEF Pending, Registered, IsOpen
<1>6. \A y, z : Pending(y) /\ Pending(z) /\ Before(y, z) => Before(y, z)'
  BY <1>3, <1>4 DEF Pending, Before
<1>7. ASSUME InOrder, ~disturbed'
      PROVE  InOrder'
  <2>1. OwnIdInOrder'
    BY <1>2, <1>7 DEF InOrder, OwnIdInOrder, IsOpen
  <2>2. UpCarried(0) /\ DownCarried(0)
    BY <1>2, UpKept, DownKept
  <2> QED BY <1>5, <1>6, <1>7, <2>1, <2>2, OrderCarried
<1> QED BY <1>2, <1>7 DEF OrderKept

\* What is removed was not in use, or the step says so.
LEMMA RemoveOrder ==
  ASSUME TypeOK, TypeOK', KeysOnce, IdsOnce, OrderKept, NEW n \in Names \cup Placeholders,
         RemoveChannel(n)
  PROVE  OrderKept'
<1>1. PICK i \in DOMAIN registry : name[registry[i]] = n /\ registry' = RemoveAt(registry, i)
  BY DEF RemoveChannel
<1>2. UNCHANGED <<link, requested, id, up, down, given>> /\ (~disturbed' => ~disturbed)
  BY DEF RemoveChannel, channelVars, streamVars
<1>3. i \in Nat
  BY LenProperties DEF TypeOK
<1>4. /\ \A k \in DOMAIN registry' :
           /\ k \in Nat
           /\ k < i => k \in DOMAIN registry /\ registry'[k] = registry[k]
           /\ k >= i => k + 1 \in DOMAIN registry /\ registry'[k] = registry[k + 1]
      /\ \A k \in DOMAIN registry : k # i => \E j \in DOMAIN registry' : registry'[j] = registry[k]
  BY <1>1, Removed DEF TypeOK
<1>5. \A k \in DOMAIN registry' : registry'[k] \in Registered
  BY <1>3, <1>4 DEF Registered
<1>6. \A y, z : Before(y, z) => Before(y, z)'
  BY <1>3, <1>4 DEF Before
<1>7. ASSUME InOrder, ~disturbed'
      PROVE  InOrder'
  <2>1. ~Pending(registry[i])
    BY <1>1, <1>7 DEF RemoveChannel, Named, Registered
  <2>2. \A z \in Channels : Pending(z)' <=> Pending(z)
    <3>1. \A z \in Channels : Pending(z)' => Pending(z)
      BY <1>2, <1>5 DEF Pending, Registered, IsOpen
    <3>2. \A z \in Channels : Pending(z) => Pending(z)'
      BY <1>2, <1>4, <2>1 DEF Pending, Registered, IsOpen
    <3> QED BY <3>1, <3>2
  <2>3. OwnIdInOrder'
    BY <1>2, <1>7 DEF InOrder, OwnIdInOrder, IsOpen
  <2>4. UpCarried(0) /\ DownCarried(0)
    BY <1>2, UpKept, DownKept
  <2> QED BY <1>6, <1>7, <2>2, <2>3, <2>4, OrderCarried
<1> QED BY <1>2, <1>7 DEF OrderKept

\* The new entry is the last of the registry, its request the last on the wire.
LEMMA OpenChannelOrder ==
  ASSUME TypeOK, TypeOK', KeysOnce, IdsOnce, OrderKept, NEW t \in Tasks, NEW n \in Names,
         OpenChannel(t, n)
  PROVE  OrderKept'
<1>1. PICK ch \in Channels :
        /\ Register(ch, n) /\ requested' = requested \cup {ch}
        /\ \/ Sends([type |-> "open", chan |-> ch])
           \/ SendRaises
  BY DEF OpenChannel
<1>2. UNCHANGED <<link, id, down, given>> /\ (~disturbed' => ~disturbed /\ Named(n) = {})
  BY DEF OpenChannel
<1>3. ASSUME ~disturbed'
      PROVE  InOrder'
  <2> DEFINE m == [type |-> "open", chan |-> ch]
  <2>1. link = "up" /\ InOrder
    BY <1>2, <1>3 DEF OrderKept
  <2>2. up' = Append(up, m)
    BY <1>1, <2>1 DEF Sends, SendRaises
  <2>3. m \in Requests /\ m.type = "open" /\ m.chan = ch
    BY DEF Requests
  <2> HIDE DEF m
  <2>4. /\ \A k \in DOMAIN up' : \/ k \in DOMAIN up /\ up'[k] = up[k]
                                 \/ k = Len(up) + 1 /\ up'[k] = m
        /\ \A k \in DOMAIN up : k \in Nat /\ k \in DOMAIN up' /\ k < Len(up) + 1 /\ up'[k] = up[k]
        /\ Len(up) + 1 \in DOMAIN up' /\ up'[Len(up) + 1] = m /\ Len(up) \in Nat
    BY <2>2, <2>3, Appended DEF TypeOK
  <2>5. \A k \in DOMAIN registry : name[registry[k]] # n
    BY <1>2, <1>3 DEF Named, Registered
  <2>6. /\ ~IsOpen(ch) /\ ch \notin requested /\ ch \notin Registered
        /\ \A k \in DOMAIN registry' : \/ registry'[k] = ch
                                       \/ k \in DOMAIN registry /\ registry'[k] = registry[k]
        /\ \E k \in DOMAIN registry' : registry'[k] = ch
        /\ \A k \in DOMAIN registry : k \in DOMAIN registry' /\ registry'[k] = registry[k]
        /\ \A j \in DOMAIN registry, k \in DOMAIN registry' : registry'[k] = ch => j < k
    BY <1>1, <2>5, Registers
  <2>7. \A z \in Channels : Pending(z)' <=> Pending(z) \/ z = ch
    BY <1>1, <1>2, <2>6 DEF Pending, Registered, IsOpen
  <2>8. \A z : Pending(z) => z # ch /\ z \in Channels
    BY <2>6 DEF Pending, TypeOK
  <2>9. /\ \A y, z : Pending(y) /\ Pending(z) /\ Before(y, z) => Before(y, z)'
        /\ \A y : Pending(y) => \A z : z = ch => Before(y, z)'
    BY <2>6, <2>8 DEF Before
  <2>10. \A z \in requested' : IsOpen(z)' => given'[id'[z]] = z
    BY <1>1, <1>2, <2>1, <2>6 DEF InOrder, IsOpen
  <2>11. /\ \A k \in DOMAIN up : Asking(k) => Pending(up[k].chan)
         /\ \A k \in DOMAIN down : Answered(k) => Pending(Asker(k))
    BY <2>1 DEF InOrder
  <2>12. /\ \A k \in DOMAIN up' : Asking(k)' => Pending(up[k].chan)'
         /\ \A k \in DOMAIN down : Answered(k)' => Pending(Asker(k))'
    <3>1. \A k \in DOMAIN up' : Asking(k)' => \A z : z = up'[k].chan => Pending(z)'
      BY <2>3, <2>4, <2>7, <2>8, <2>11 DEF Asking
    <3>2. \A k \in DOMAIN down : Answered(k)' => \A z : z = Asker(k) => Pending(z)'
      BY <1>2, <2>7, <2>8, <2>11 DEF Answered
    <3> QED BY <1>2, <3>1, <3>2 DEF Asker, Pending
  <2>13. \A j, k \in DOMAIN up' : Asking(j)' /\ Asking(k)' /\ j < k => Before(up[j].chan, up[k].chan)'
    <3>1. \A j, k \in DOMAIN up' : Asking(j)' /\ Asking(k)' /\ j < k =>
            \A y, z : y = up'[j].chan /\ z = up'[k].chan => Before(y, z)'
      BY <2>1, <2>3, <2>4, <2>9, <2>11 DEF InOrder, Asking
    <3> QED BY <3>1 DEF Before
  <2>14. \A j, k \in DOMAIN down' : Answered(j)' /\ Answered(k)' /\ j < k => Before(Asker(j), Asker(k))'
    <3>1. \A j, k \in DOMAIN down : Answered(j) /\ Answered(k) /\ j < k =>
            \A y, z : y = Asker(j) /\ z = Asker(k) => Before(y, z)'
      BY <2>1, <2>9, <2>11 DEF InOrder
    <3> QED BY <1>2, <3>1 DEF Before, Answered, Asker
  <2>15. \A j \in DOMAIN down', k \in DOMAIN up' :
           Answered(j)' /\ Asking(k)' => Before(Asker(j), up[k].chan)'
    <3>1. \A j \in DOMAIN down, k \in DOMAIN up' : Answered(j) /\ Asking(k)' =>
            \A y, z : y = Asker(j) /\ z = up'[k].chan => Before(y, z)'
      BY <2>1, <2>3, <2>4, <2>9, <2>11 DEF InOrder, Asking
    <3> QED BY <1>2, <3>1 DEF Before, Answered, Asker
  <2>16. \A z \in Channels : Pending(z)' =>
           \/ \E k \in DOMAIN up' : Asking(k)' /\ up'[k].chan = z
           \/ \E k \in DOMAIN down' : Answered(k)' /\ Asker(k)' = z
    BY <1>2, <2>1, <2>3, <2>4, <2>7 DEF InOrder, Asking, Answered, Asker
  <2> QED BY <1>2, <2>10, <2>12, <2>13, <2>14, <2>15, <2>16 DEF InOrder
<1>4. ~disturbed' => link' = "up"
  BY <1>2 DEF OrderKept
<1> QED BY <1>3, <1>4 DEF OrderKept

\* The first entry that waits is the one whose request was answered first: it gets the id.
LEMMA OpenedOrder ==
  ASSUME TypeOK, TypeOK', KeysOnce, IdsOnce, InOrder, DispatchOpen, Head(down).type = "opened"
  PROVE  InOrder'
<1> DEFINE p == Head(down)
           c == given[p.id]
<1>1. /\ p \in Packets /\ p = down[1] /\ 1 \in DOMAIN down /\ p.type = "opened"
      /\ \A k \in DOMAIN down' : /\ k \in Nat /\ k + 1 \in DOMAIN down /\ down'[k] = down[k + 1]
                                 /\ 1 < k + 1
      /\ \A k \in DOMAIN down : k # 1 => k \in Nat /\ k - 1 \in DOMAIN down' /\ down'[k - 1] = down[k]
  BY Dropped DEF TypeOK, DispatchOpen
<1>2. p.id \in Ids /\ Assign(TRUE, p.id)
  BY <1>1 DEF Packets, DispatchOpen
<1>3. UNCHANGED <<registry, requested, up, given>>
  BY DEF DispatchOpen, clientVars
<1>4. Answered(1) /\ Asker(1) = c /\ Pending(c) /\ c \in Channels
  BY <1>1 DEF Answered, Asker, InOrder, Pending, TypeOK
<1> HIDE DEF c, p
<1>5. /\ \A k \in DOMAIN down : Answered(k) /\ k # 1 => Before(c, Asker(k))
      /\ \A k \in DOMAIN up : Asking(k) => Before(c, up[k].chan)
  BY <1>1, <1>4 DEF InOrder
<1>6. \A z \in Channels : Pending(z) /\ z # c => Before(c, z)
  BY <1>4, <1>5 DEF InOrder
<1>7. PICK k \in DOMAIN registry : registry[k] = c
  BY <1>4 DEF Pending, Registered
<1>8. \A j \in DOMAIN registry : j \in Nat /\ registry[j] \in Channels
  BY LenProperties, ElementOfSeq DEF TypeOK
<1>9. k \in Candidates(TRUE) /\ \A j \in Candidates(TRUE) : j \in DOMAIN registry /\ Pending(registry[j])
  BY <1>4, <1>7 DEF Candidates, Pending, Registered
<1>10. id'[c] = p.id /\ \A z \in Channels : z # c => id'[z] = id[z]
  <2>1. PICK j \in Candidates(TRUE) :
          /\ j <= k /\ id'[registry[j]] = p.id
          /\ \A z \in Channels : z # registry[j] => id'[z] = id[z]
    <3>1. Candidates(TRUE) # {}
      BY <1>9
    <3>2. PICK j \in Candidates(TRUE) :
            /\ \A i \in Candidates(TRUE) : j <= i
            /\ id'[registry[j]] = p.id
            /\ \A z \in Channels : z # registry[j] => id'[z] = id[z]
      <4>1. PICK j \in Candidates(TRUE) :
              /\ \A i \in Candidates(TRUE) : j <= i
              /\ id' = [id EXCEPT ![registry[j]] = p.id]
        BY <1>2, <3>1 DEF Assign
      <4>2. registry[j] \in Channels /\ id \in [Channels -> Ids \cup {None}]
        BY <1>8, <1>9 DEF TypeOK
      <4> QED BY <4>1, <4>2
    <3> QED BY <1>9, <3>2
  <2>2. registry[j] = c
    <3>1. registry[j] \in Channels /\ Pending(registry[j]) /\ j \in DOMAIN registry
      BY <1>8, <1>9
    <3>2. registry[j] # c => k < j
      BY <1>6, <1>7, <3>1 DEF Before
    <3> QED BY <1>8, <2>1, <3>1, <3>2
  <2> QED BY <2>1, <2>2
<1>11. \A z \in Channels : Pending(z)' <=> Pending(z) /\ z # c
  BY <1>2, <1>3, <1>10 DEF Pending, Registered, IsOpen, TypeOK
<1>12. ~Before(c, c)
  BY <1>7, <1>8 DEF Before
<1>13. \A z \in requested' : IsOpen(z)' => given'[id'[z]] = z
  <2>1. given[p.id] = c
    BY DEF c
  <2> QED BY <1>3, <1>10, <2>1 DEF InOrder, IsOpen, TypeOK
<1>14. /\ \A j \in DOMAIN up : Asking(j) => Pending(up[j].chan) /\ up[j].chan # c
       /\ \A j \in DOMAIN down : Answered(j) /\ j # 1 => Pending(Asker(j)) /\ Asker(j) # c
  BY <1>5, <1>12 DEF InOrder
<1>15. \A j \in DOMAIN down' : Answered(j)' => /\ j \in Nat /\ j + 1 \in DOMAIN down /\ j + 1 # 1
                                               /\ Answered(j + 1) /\ Asker(j)' = Asker(j + 1)
  BY <1>1, <1>3 DEF Answered, Asker
<1>16. \A y, z : Before(y, z) => Before(y, z)'
  BY <1>3 DEF Before
<1>17. \A z : Pending(z) => z \in Channels
  BY DEF Pending, TypeOK
<1>18. \A j \in DOMAIN up : Asking(j)' => Pending(up[j].chan)'
  <2>1. \A j \in DOMAIN up : Asking(j) => \A z : z = up[j].chan => Pending(z)'
    BY <1>11, <1>14, <1>17
  <2> QED BY <1>3, <2>1 DEF Asking, Pending
<1>19. \A j \in DOMAIN down' : Answered(j)' => Pending(Asker(j))'
  <2>1. \A j \in DOMAIN down' : Answered(j)' => \A z : z = Asker(j)' => Pending(z)'
    BY <1>11, <1>14, <1>15, <1>17
  <2> QED BY <2>1 DEF Pending
<1>20. \A i, j \in DOMAIN up : Asking(i)' /\ Asking(j)' /\ i < j => Before(up[i].chan, up[j].chan)'
  BY <1>3 DEF InOrder, Asking, Before
<1>21. \A i, j \in DOMAIN down' : Answered(i)' /\ Answered(j)' /\ i < j => Before(Asker(i), Asker(j))'
  <2>1. \A i, j \in DOMAIN down' : Answered(i)' /\ Answered(j)' /\ i < j =>
          \A y, z : y = Asker(i)' /\ z = Asker(j)' => Before(y, z)'
    BY <1>15, <1>16 DEF InOrder
  <2> QED BY <2>1 DEF Before
<1>22. \A i \in DOMAIN down', j \in DOMAIN up : Answered(i)' /\ Asking(j)' => Before(Asker(i), up[j].chan)'
  <2>1. \A i \in DOMAIN down', j \in DOMAIN up : Answered(i)' /\ Asking(j) =>
          \A y, z : y = Asker(i)' /\ z = up[j].chan => Before(y, z)'
    BY <1>15, <1>16 DEF InOrder
  <2> QED BY <1>3, <2>1 DEF Before, Asking
<1>23. \A j \in DOMAIN down : Answered(j) /\ j # 1 =>
         j - 1 \in DOMAIN down' /\ Answered(j - 1)' /\ Asker(j - 1)' = Asker(j)
  BY <1>1, <1>3 DEF Answered, Asker
<1>24. \A z \in Channels : Pending(z)' =>
         \/ \E j \in DOMAIN up : Asking(j)' /\ up'[j].chan = z
         \/ \E j \in DOMAIN down' : Answered(j)' /\ Asker(j)' = z
  BY <1>3, <1>4, <1>11, <1>23 DEF InOrder, Asking
<1> QED BY <1>3, <1>13, <1>18, <1>19, <1>20, <1>21, <1>22, <1>24 DEF InOrder

\* A channel the device asks for goes to a placeholder.
LEMMA DeviceOpenOrder ==
  ASSUME TypeOK, TypeOK', IdsOnce, InOrder, ~disturbed', DispatchOpen, Head(down).type # "opened"
  PROVE  InOrder'
<1>1. Head(down) \in Packets /\ down # <<>> /\ down' = Tail(down)
  BY Dropped DEF TypeOK, DispatchOpen
<1>2. Head(down).id \in Ids /\ Assign(FALSE, Head(down).id)
  BY <1>1 DEF Packets, DispatchOpen
<1>3. UNCHANGED <<registry, requested, up, given>>
  BY DEF DispatchOpen, clientVars
<1>4. \A z \in requested : id'[z] = id[z]
  BY <1>2, Assigned DEF TypeOK
<1>5. \A z \in Channels : Pending(z)' <=> Pending(z)
  BY <1>3, <1>4 DEF Pending, Registered, IsOpen
<1>6. \A y, z : Before(y, z) => Before(y, z)'
  BY <1>3 DEF Before
<1>7. OwnIdInOrder'
  BY <1>3, <1>4 DEF InOrder, OwnIdInOrder, IsOpen
<1>8. UpCarried(0) /\ DownCarried(1)
  BY <1>1, <1>3, UpKept, DownTaken
<1> QED BY <1>5, <1>6, <1>7, <1>8, OrderCarried

\* The first request becomes the last answer.
LEMMA AnswerOrder ==
  ASSUME TypeOK, TypeOK', IdsOnce, InOrder, DeviceAnswers, Head(up).type = "open"
  PROVE  InOrder'
<1>1. /\ 1 \in DOMAIN up /\ up[1] = Head(up)
      /\ \A k \in DOMAIN up' : /\ k \in Nat /\ k + 1 \in DOMAIN up /\ up'[k] = up[k + 1]
                               /\ 1 < k + 1
      /\ \A k \in DOMAIN up : k # 1 => k \in Nat /\ k - 1 \in DOMAIN up' /\ up'[k - 1] = up[k]
  BY Dropped DEF TypeOK, DeviceAnswers
<1> DEFINE c == Head(up).chan
<1>2. PICK i \in Ids :
        /\ given[i] = Unused /\ given' = [given EXCEPT ![i] = c]
        /\ down' = Append(down, [type |-> "opened", id |-> i, request |-> 0])
  BY DEF DeviceAnswers
<1> DEFINE m == [type |-> "opened", id |-> i, request |-> 0]
<1>3. m \in Packets /\ m.type = "opened" /\ m.id = i /\ down' = Append(down, m)
  BY <1>2 DEF Packets
<1>4. UNCHANGED <<registry, requested, id>>
  BY DEF DeviceAnswers, clientVars, channelVars
<1>5. Asking(1) /\ up[1].chan = c
  BY <1>1 DEF Asking
<1> HIDE DEF c, m
<1>6. /\ \A k \in DOMAIN down' : \/ k \in DOMAIN down /\ down'[k] = down[k]
                                 \/ k = Len(down) + 1 /\ down'[k] = m
      /\ \A k \in DOMAIN down : k \in Nat /\ k \in DOMAIN down' /\ k < Len(down) + 1 /\ down'[k] = down[k]
      /\ Len(down) + 1 \in DOMAIN down' /\ down'[Len(down) + 1] = m /\ Len(down) \in Nat
  BY <1>3, Appended DEF TypeOK
<1>7. given'[i] = c /\ \A j \in Ids : j # i => given'[j] = given[j]
  BY <1>2 DEF TypeOK
<1>8. \A k \in DOMAIN down : Answered(k) => given'[down[k].id] = given[down[k].id]
  <2>1. \A k \in DOMAIN down : down[k] \in Packets
    BY LenProperties, ElementOfSeq DEF TypeOK
  <2>2. \A k \in DOMAIN down : down[k].id \in Ids
    BY <2>1 DEF Packets
  <2> QED BY <1>2, <1>7, <2>2 DEF IdsOnce, Opens, Answered
<1>9. /\ \A k \in DOMAIN down : Answered(k) => Answered(k)' /\ Asker(k)' = Asker(k)
      /\ \A k : k = Len(down) + 1 => Answered(k)' /\ Asker(k)' = c
      /\ \A k \in DOMAIN down' : Answered(k)' =>
           \/ k \in DOMAIN down /\ Answered(k) /\ Asker(k)' = Asker(k)
           \/ k = Len(down) + 1 /\ Asker(k)' = c
  <2>1. \A k \in DOMAIN down : Answered(k) => Answered(k)' /\ Asker(k)' = Asker(k)
    BY <1>6, <1>8 DEF Answered, Asker
  <2>2. \A k : k = Len(down) + 1 => Answered(k)' /\ Asker(k)' = c
    BY <1>3, <1>6, <1>7 DEF Answered, Asker
  <2>3. \A k \in DOMAIN down : Answered(k)' => Answered(k)
    BY <1>6 DEF Answered
  <2> QED BY <1>6, <2>1, <2>2, <2>3
<1>10. \A k \in DOMAIN up' : Asking(k)' => /\ k \in Nat /\ k + 1 \in DOMAIN up /\ 1 < k + 1
                                           /\ Asking(k + 1) /\ up'[k].chan = up[k + 1].chan
  BY <1>1 DEF Asking
<1>11. \A k \in DOMAIN up : Asking(k) /\ k # 1 =>
         k - 1 \in DOMAIN up' /\ Asking(k - 1)' /\ up'[k - 1].chan = up[k].chan
  BY <1>1 DEF Asking
<1>12. \A z : Pending(z) => Pending(z)'
  BY <1>4 DEF Pending, Registered, IsOpen
<1>13. \A z : Pending(z)' => Pending(z)
  BY <1>4 DEF Pending, Registered, IsOpen
<1>14. \A y, z : Before(y, z) => Before(y, z)'
  BY <1>4 DEF Before
<1>15. \A z \in requested' : IsOpen(z)' => given'[id'[z]] = z
  BY <1>2, <1>4, <1>7 DEF InOrder, IdsOnce, IsOpen, TypeOK
<1>16. \A k \in DOMAIN up' : Asking(k)' => Pending(up[k].chan)'
  <2>1. \A k \in DOMAIN up' : Asking(k)' => \A z : z = up'[k].chan => Pending(z)'
    BY <1>10, <1>12 DEF InOrder
  <2> QED BY <2>1 DEF Pending
<1>17. \A k \in DOMAIN down' : Answered(k)' => Pending(Asker(k))'
  <2>1. \A k \in DOMAIN down' : Answered(k)' => \A z : z = Asker(k)' => Pending(z)'
    BY <1>1, <1>5, <1>9, <1>12 DEF InOrder
  <2> QED BY <2>1 DEF Pending
<1>18. \A j, k \in DOMAIN up' : Asking(j)' /\ Asking(k)' /\ j < k => Before(up[j].chan, up[k].chan)'
  <2>1. \A j, k \in DOMAIN up' : Asking(j)' /\ Asking(k)' /\ j < k =>
          \A y, z : y = up'[j].chan /\ z = up'[k].chan => Before(y, z)'
    BY <1>10, <1>14 DEF InOrder
  <2> QED BY <2>1 DEF Before
<1>19. \A j, k \in DOMAIN down' : Answered(j)' /\ Answered(k)' /\ j < k => Before(Asker(j), Asker(k))'
  <2>1. \A j, k \in DOMAIN down' : Answered(j)' /\ Answered(k)' /\ j < k =>
          \A y, z : y = Asker(j)' /\ z = Asker(k)' => Before(y, z)'
    BY <1>1, <1>5, <1>6, <1>9, <1>14 DEF InOrder
  <2> QED BY <2>1 DEF Before
<1>20. \A j \in DOMAIN down', k \in DOMAIN up' : Answered(j)' /\ Asking(k)' => Before(Asker(j), up[k].chan)'
  <2>1. \A j \in DOMAIN down', k \in DOMAIN up' : Answered(j)' /\ Asking(k)' =>
          \A y, z : y = Asker(j)' /\ z = up'[k].chan => Before(y, z)'
    BY <1>1, <1>5, <1>9, <1>10, <1>14 DEF InOrder
  <2> QED BY <2>1 DEF Before
<1>21. \A z \in Channels : Pending(z)' =>
         \/ \E k \in DOMAIN up' : Asking(k)' /\ up'[k].chan = z
         \/ \E k \in DOMAIN down' : Answered(k)' /\ Asker(k)' = z
  BY <1>5, <1>6, <1>9, <1>11, <1>13 DEF InOrder
<1> QED BY <1>15, <1>16, <1>17, <1>18, <1>19, <1>20, <1>21 DEF InOrder

LEMMA TransmitWire ==
  ASSUME TypeOK, NEW t \in Tasks, NEW ch \in Channels, IsOpen(ch), Transmit(t, ch)
  PROVE  up' = up \/ \E m \in Requests : m.type # "open" /\ up' = Append(up, m)
<1> DEFINE m == [type |-> "json", id |-> id[ch], request |-> requests]
<1>1. m \in Requests /\ m.type # "open"
  BY DEF TypeOK, IsOpen, Requests
<1>2. up' = up \/ up' = Append(up, m)
  BY DEF Transmit, Sends, SendRaises
<1> QED BY <1>1, <1>2

LEMMA OrderStep ==
  ASSUME TypeOK, TypeOK', KeysOnce, IdsOnce, LocksHeld, OrderKept, [Next]_vars
  PROVE  OrderKept'
<1>1. ASSUME NEW d \in {0, 1}, NEW e \in {0, 1}, UpCarried(d), DownCarried(e),
             UNCHANGED <<link, registry, requested, id, disturbed>>,
             \A i \in Ids : given[i] # Unused => given'[i] = given[i]
      PROVE  OrderKept'
  <2>1. ASSUME InOrder, ~disturbed'
        PROVE  InOrder'
    <3>1. \A z \in Channels : Pending(z)' <=> Pending(z)
      BY <1>1 DEF Pending, Registered, IsOpen
    <3>2. \A y, z : Before(y, z) => Before(y, z)'
      BY <1>1 DEF Before
    <3>3. OwnIdInOrder'
      <4>1. \A z \in requested : IsOpen(z) => id[z] \in Ids /\ given[id[z]] # Unused /\ given[id[z]] = z
        BY <2>1 DEF InOrder, IdsOnce, IsOpen, TypeOK
      <4> QED BY <1>1, <4>1 DEF OwnIdInOrder, IsOpen
    <3> QED BY <1>1, <2>1, <3>1, <3>2, <3>3, OrderCarried
  <2> QED BY <1>1, <2>1 DEF OrderKept
<1>2. ASSUME up' = up \/ \E m \in Requests : m.type # "open" /\ up' = Append(up, m),
             UNCHANGED <<link, registry, requested, id, down, given, disturbed>>
      PROVE  OrderKept'
  BY <1>1, <1>2, UpKept, DownKept
<1>3. ASSUME NEW t \in Tasks, NEW ch \in Channels, AwaitPlaceholder(t, ch) \/ SendJson(t, ch)
      PROVE  OrderKept'
  <2>1. up' = up \/ \E m \in Requests : m.type # "open" /\ up' = Append(up, m)
    BY <1>3, TransmitWire DEF AwaitPlaceholder, SendJson, streamVars
  <2> QED BY <1>2, <1>3, <2>1
          DEF AwaitPlaceholder, SendJson, clientVars, channelVars, streamVars, history
<1>4. ASSUME NEW t \in Tasks, CallStep(t)
      PROVE  OrderKept'
  <2>1. up' = up \/ \E m \in Requests : m.type # "open" /\ up' = Append(up, m)
    <3>1. CASE LockAcquired(t)
      <4>1. chan[t] \in Channels /\ IsOpen(chan[t])
        BY <3>1 DEF LocksHeld, LockAcquired
      <4> QED BY <3>1, <4>1, TransmitWire DEF LockAcquired
    <3>2. CASE ~LockAcquired(t)
      BY <1>4, <3>2
      DEF CallStep, ChannelOpened, OpenTimesOut, ReplyArrived, ReplyTimesOut, Cancelled, streamVars
    <3> QED BY <3>1, <3>2
  <2>2. UNCHANGED <<link, registry, requested, id, down, given, disturbed>>
    BY <1>4
    DEF CallStep, ChannelOpened, OpenTimesOut, LockAcquired, ReplyArrived, ReplyTimesOut, Cancelled,
        clientVars, channelVars, streamVars, history
  <2> QED BY <1>2, <2>1, <2>2
<1>5. CASE DispatchOpen
  <2>1. UNCHANGED <<link, disturbed>>
    BY <1>5 DEF DispatchOpen, clientVars, history
  <2> QED BY <1>5, <2>1, OpenedOrder, DeviceOpenOrder DEF OrderKept
<1>6. CASE DispatchJson
  <2>1. /\ down # <<>> /\ down' = Tail(down) /\ Head(down).type # "opened"
        /\ UNCHANGED <<link, registry, requested, id, up, given, disturbed>>
    BY <1>6 DEF DispatchJson, channelVars, history
  <2> QED BY <1>1, <2>1, UpKept, DownTaken
<1>7. CASE DeviceAnswers
  <2>1. UNCHANGED <<link, registry, requested, id, disturbed>>
    BY <1>7 DEF DeviceAnswers, clientVars, channelVars, history
  <2>2. CASE Head(up).type = "open"
    BY <1>7, <2>1, <2>2, AnswerOrder DEF OrderKept
  <2>3. CASE Head(up).type = "json"
    <3> DEFINE m == [type |-> "json", id |-> Head(up).id, request |-> Head(up).request]
    <3>1. /\ down' = Append(down, m) /\ m.type # "opened" /\ given' = given
          /\ up # <<>> /\ up' = Tail(up)
      BY <1>7, <2>3 DEF DeviceAnswers
    <3>2. m \in Packets
      <4>1. Head(up) \in Requests
        BY <3>1, Dropped DEF TypeOK
      <4> QED BY <2>3, <4>1 DEF Requests, Packets
    <3> HIDE DEF m
    <3>3. UpCarried(1) /\ DownCarried(0)
      BY <2>3, <3>1, <3>2, UpTaken, DownKept
    <3> QED BY <1>1, <2>1, <3>1, <3>3
  <2> QED BY <1>7, <2>2, <2>3 DEF DeviceAnswers
<1>8. CASE DeviceOpens
  <2>1. PICK i \in Ids :
          /\ given[i] = Unused /\ given' = [given EXCEPT ![i] = Device]
          /\ down' = Append(down, [type |-> "deviceOpen", id |-> i, request |-> 0])
    BY <1>8 DEF DeviceOpens
  <2>2. [type |-> "deviceOpen", id |-> i, request |-> 0] \in Packets
    BY DEF Packets
  <2>3. \A j \in Ids : given[j] # Unused => given'[j] = given[j]
    BY <2>1 DEF TypeOK
  <2>4. UNCHANGED <<link, registry, requested, id, up, disturbed>>
    BY <1>8 DEF DeviceOpens, clientVars, channelVars, callerVars, history
  <2>5. UpCarried(0) /\ DownCarried(0)
    BY <2>1, <2>2, <2>3, <2>4, UpKept, DownKept
  <2> QED BY <1>1, <2>3, <2>4, <2>5
<1>9. CASE ReceiveEnds \/ DisconnectEnds
  <2>1. disturbed'
    BY <1>9, Zenon DEF ReceiveEnds, DisconnectEnds, OrderKept, history
  <2> QED BY <2>1 DEF OrderKept
<1>10. CASE UNCHANGED vars
  BY <1>2, <1>10 DEF vars, clientVars, channelVars, streamVars, history
<1>11. CASE DevicePushes
  <2>1. PICK i \in Ids : down' = Append(down, [type |-> "json", id |-> i, request |-> Push])
    BY <1>11 DEF DevicePushes
  <2>2. [type |-> "json", id |-> i, request |-> Push] \in Packets
    BY DEF Packets
  <2>3. UNCHANGED <<link, registry, requested, id, up, given, disturbed>>
    BY <1>11 DEF DevicePushes, clientVars, channelVars
  <2>4. UpCarried(0) /\ DownCarried(0)
    BY <2>1, <2>2, <2>3, UpKept, DownKept
  <2> QED BY <1>1, <2>3, <2>4
<1>12. ASSUME NEW t \in Tasks, Call(t)
       PROVE  OrderKept'
  BY <1>3, <1>12, OpenChannelOrder DEF Call
<1> QED
  BY <1>4, <1>5, <1>6, <1>7, <1>8, <1>9, <1>10, <1>11, <1>12, PlaceholderOrder, RemoveOrder
  DEF Next, Receive
-----------------------------------------------------------------------------
(* The invariant *)

Inv == TypeOK /\ KeysOnce /\ IdsOnce /\ LocksHeld /\ RepliesAwaited /\ OrderKept

LEMMA TypeStep ==
  ASSUME TypeOK, LocksHeld, [Next]_vars
  PROVE  TypeOK'
<1>1. CASE UNCHANGED vars
  BY <1>1 DEF TypeOK, vars, clientVars, channelVars, callerVars, streamVars, history
<1>2. ASSUME NEW t \in Tasks, Call(t) \/ CallStep(t)
      PROVE  TypeOK'
  BY <1>2, OpenChannelTyped, AwaitPlaceholderTyped, SendJsonTyped, WaitEndsTyped, LockAcquiredTyped,
     SendEndsTyped
  DEF Call, CallStep
<1> QED
  BY <1>1, <1>2, RegisterPlaceholderTyped, RemoveChannelTyped, ReceiveTyped, LinkTyped, DeviceTyped
  DEF Next

LEMMA InitHolds ==
  ASSUME Init
  PROVE  Inv
<1>1. \A S : <<>> \in Seq(S)
  BY EmptySeq
<1>2. DOMAIN registry = {} /\ DOMAIN up = {} /\ DOMAIN down = {}
  BY DEF Init
<1>3. TypeOK
  BY <1>1 DEF Init, TypeOK, PCs
<1>4. KeysOnce
  BY <1>2 DEF Init, KeysOnce, IsOpen
<1>5. IdsOnce
  BY <1>2 DEF Init, IdsOnce, IsOpen, OwnKind
<1>6. LocksHeld
  BY DEF Init, LocksHeld, LockReleased, CallbackKept
<1>7. RepliesAwaited
  BY <1>2 DEF Init, RepliesAwaited, RepliesRight, OwnReplyInTime
<1>8. OrderKept
  BY <1>2 DEF Init, OrderKept, InOrder, Pending, IsOpen
<1> QED BY <1>3, <1>4, <1>5, <1>6, <1>7, <1>8 DEF Inv

LEMMA StepHolds ==
  ASSUME Inv, [Next]_vars
  PROVE  Inv'
<1>1. TypeOK'
  BY TypeStep DEF Inv
<1> QED BY <1>1, KeysStep, IdsStep, LocksStep, RepliesStep, OrderStep DEF Inv

LEMMA InvAlways == Spec => []Inv
<1>1. Init => Inv
  BY InitHolds
<1>2. Inv /\ [Next]_vars => Inv'
  BY StepHolds
<1> QED BY <1>1, <1>2, PTL DEF Spec
-----------------------------------------------------------------------------

\* Every variable of the client, its channels, its callers and the stream keeps its type.
THEOREM TypeCorrect == Spec => []TypeOK
<1>1. Inv => TypeOK
  BY DEF Inv
<1> QED BY <1>1, InvAlways, PTL

\* An id the device chose in answer to open_channel opens no placeholder, and one it chose for a
\* channel of its own completes no open_channel: _dispatch_command_response separates the two by
\* the channel's request_id.
THEOREM KindsOwn == Spec => []OwnKind
<1>1. Inv => OwnKind
  BY DEF Inv, IdsOnce
<1> QED BY <1>1, InvAlways, PTL

\* The send_lock of a channel is held only by a caller of send_json that waits for its reply,
\* whatever times out, is cancelled or is lost: no channel stays locked.
THEOREM LocksFreed == Spec => []LockReleased
<1>1. Inv => LockReleased
  BY DEF Inv, LocksHeld
<1> QED BY <1>1, InvAlways, PTL

\* While a caller of send_json waits, no other caller's future replaces its own under the
\* channel's id, nor does the dropping of another's: ids are not shared by channels and the
\* send_lock admits one caller to a channel.
THEOREM CallbacksKept == Spec => []CallbackKept
<1>1. Inv => CallbackKept
  BY DEF Inv, LocksHeld
<1> QED BY <1>1, InvAlways, PTL

\* The reply send_json returns is the reply to the request it sent, unless an earlier request on
\* the channel was given up or the device sent JSON of its own there while one was registered:
\* replies carry nothing that names their request. What a caller gets instead is never the
\* reply another caller waits for.
THEOREM RepliesOwn == Spec => []OwnReplyInTime
<1>1. Inv => OwnReplyInTime
  BY DEF Inv, RepliesAwaited, RepliesRight
<1> QED BY <1>1, InvAlways, PTL

\* However many calls of open_channel overlap, each gets the id the device chose for it, as long
\* as no entry in use was removed or replaced: the first entry that waits in the registry is the
\* one whose request the device answered first.
THEOREM IdsOwn == Spec => []OwnIdInOrder
<1>1. Inv => OwnIdInOrder
  BY DEF Inv, OrderKept, InOrder, OwnIdInOrder
<1> QED BY <1>1, InvAlways, PTL
=============================================================================
