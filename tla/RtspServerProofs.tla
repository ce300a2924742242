-------------------------- MODULE RtspServerProofs --------------------------
(***************************************************************************)
(* What holds of RtspServer for every number of connections, every width   *)
(* of the counters, any clocks of the device and any number of calls: the  *)
(* clients that are served, the parameter sets before the video of a call, *)
(* the pace of the video and the way forward of the audio and the video.   *)
(***************************************************************************)
EXTENDS RtspServer, FiniteSetTheorems, TLAPS

-----------------------------------------------------------------------------
\* A queue that loses its head is neither what it was nor longer.
LEMMA TailShorter ==
  ASSUME NEW S, NEW q \in Seq(S), q # <<>>
  PROVE  q # Tail(q) /\ \A p \in S : Append(q, p) # Tail(q)
<1>1. Len(q) # Len(Tail(q))
  OBVIOUS
<1>2. ASSUME NEW p \in S PROVE Append(q, p) # Tail(q)
  <2>1. Len(Append(q, p)) # Len(Tail(q))
    OBVIOUS
  <2> QED BY ONLY <2>1, Zenon
<1> QED BY ONLY <1>1, <1>2, Zenon

USE ConstantsAssumption
-----------------------------------------------------------------------------
(* Numbers modulo n *)

LEMMA ModType ==
  ASSUME NEW n \in Nat \ {0}, NEW x \in Int
  PROVE  x % n \in 0 .. n - 1
OBVIOUS

LEMMA ModSum ==
  ASSUME NEW n \in Nat \ {0}, NEW x \in 0 .. n - 1, NEW d \in 0 .. n - 1
  PROVE  (x + d) % n \in {x + d, x + d - n}
OBVIOUS

\* A clock that is moved by less than n is that far ahead.
LEMMA ModAhead ==
  ASSUME NEW n \in Nat \ {0}, NEW x \in 0 .. n - 1, NEW d \in 0 .. n - 1
  PROVE  (((x + d) % n) - x) % n = d
<1> DEFINE a == (x + d) % n
<1>1. a \in 0 .. n - 1
  OBVIOUS
<1>2. a \in {x + d, x + d - n}
  BY ModSum
<1> HIDE DEF a
<1>3. (a - x) % n = IF a - x < 0 THEN a - x + n ELSE a - x
  BY <1>1
<1>4. (a - x) % n = d
  BY <1>1, <1>2, <1>3
<1> QED BY <1>4 DEF a
-----------------------------------------------------------------------------
(* Typing, action by action *)

\* What the clocks are, for arithmetic.
LEMMA Numbers ==
  /\ TsMod \in Nat \ {0} /\ NumMod \in Nat /\ NumMod > 1 /\ AudioRate \in Nat \ {0}
  /\ VideoRate \in Nat /\ Half \in Nat \ {0} /\ Half < TsMod /\ 0 \in Stamps
BY DEF Half, Stamps

LEMMA StampMod == ASSUME NEW x \in Int PROVE x % TsMod \in Stamps
BY Numbers, ModType DEF Stamps

LEMMA SeqMod == ASSUME NEW x \in Int PROVE x % NumMod \in 0 .. NumMod - 1
BY Numbers, ModType

\* Parameter sets for some clients.
LEMMA PrimeTypes ==
  ASSUME TypeOK, NEW some \in SUBSET Conns, NEW ts \in Stamps, NEW r \in 0 .. MaxResets,
         IsFiniteSet(some), Prime(some, ts, r)
  PROVE  /\ videoSeq' \in 0 .. NumMod - 1
         /\ seen' \in [Conns -> Packet \cup {None}]
         /\ primed' \in [Conns -> 0 .. MaxResets]
<1> DEFINE clients == {c \in some : "video" \in tracks[c]}
           n == Cardinality(clients)
<1>1. n \in Nat
  BY FS_Subset, FS_CardinalityType
<1>2. videoSeq' \in 0 .. NumMod - 1
  <2>1. videoSeq + 2 * n \in Int
    BY <1>1 DEF TypeOK, ClockTypes
  <2> QED BY <2>1, SeqMod DEF Prime
<1>3. seen' \in [Conns -> Packet \cup {None}]
  <2>1. PICK turn \in Bijection(clients, 1 .. n) :
          seen' = [c \in Conns |->
            IF c \in clients \ closing
            THEN [seq |-> (videoSeq + 2 * turn[c] - 1) % NumMod, ts |-> ts]
            ELSE seen[c]]
    BY DEF Prime
  <2>2. ASSUME NEW c \in clients PROVE (videoSeq + 2 * turn[c] - 1) % NumMod \in 0 .. NumMod - 1
    <3>1. turn[c] \in 1 .. n
      BY <2>1 DEF Bijection, Injection
    <3>2. videoSeq + 2 * turn[c] - 1 \in Int
      BY <1>1, <3>1 DEF TypeOK, ClockTypes
    <3> QED BY <3>2, SeqMod
  <2>3. ASSUME NEW c \in clients
        PROVE  [seq |-> (videoSeq + 2 * turn[c] - 1) % NumMod, ts |-> ts] \in Packet
    BY <2>2 DEF Packet
  <2> QED BY <2>1, <2>3 DEF TypeOK, HistoryTypes
<1>4. primed' \in [Conns -> 0 .. MaxResets]
  BY DEF Prime, TypeOK, HistoryTypes
<1> QED BY <1>2, <1>3, <1>4
\* What a queue of any kind of packet is made of.
LEMMA QueueParts ==
  ASSUME NEW S
  PROVE  /\ <<>> \in Seq(S)
         /\ \A q \in Seq(S) : q # <<>> => Head(q) \in S /\ Tail(q) \in Seq(S)
         /\ \A q \in Seq(S), x \in S : Append(q, x) \in Seq(S)
OBVIOUS

LEMMA FewerActive ==
  ASSUME ServerTypes, active' \subseteq active
  PROVE  active' \subseteq Conns /\ IsFiniteSet(active')
BY FS_Subset DEF ServerTypes

LEMMA SetupTypes == ASSUME TypeOK, NEW c \in Conns, NEW wanted \in SUBSET Tracks, Setup(c, wanted) PROVE TypeOK'
<1>1. ServerTypes'
  BY DEF TypeOK, ServerTypes, Setup, serverVars, connVars
<1>2. ClockTypes'
  BY DEF TypeOK, ClockTypes, Setup, videoClock, audioClock
<1>3. CallTypes'
  BY DEF TypeOK, CallTypes, Setup, callVars, bounds
<1>4. HistoryTypes'
  BY DEF TypeOK, HistoryTypes, Setup, history
<1> QED BY <1>1, <1>2, <1>3, <1>4 DEF TypeOK

LEMMA PlayTypes == ASSUME TypeOK, NEW c \in Conns, Play(c) PROVE TypeOK'
<1> videoTs \in Stamps /\ resets \in 0 .. MaxResets /\ IsFiniteSet({c})
  BY FS_Singleton DEF TypeOK, ClockTypes, CallTypes
<1>p. /\ videoSeq' \in 0 .. NumMod - 1
      /\ seen' \in [Conns -> Packet \cup {None}]
      /\ primed' \in [Conns -> 0 .. MaxResets]
  BY PrimeTypes DEF Play
<1>1. ServerTypes'
  BY FS_AddElement DEF TypeOK, ServerTypes, Play
<1>2. ClockTypes'
  BY <1>p DEF TypeOK, ClockTypes, Play, videoClock, audioClock
<1>3. CallTypes'
  BY DEF TypeOK, CallTypes, Play, callVars, bounds
<1>4. HistoryTypes'
  BY <1>p DEF TypeOK, HistoryTypes, Play
<1> QED BY <1>1, <1>2, <1>3, <1>4 DEF TypeOK

LEMMA HandlerEndsTypes == ASSUME TypeOK, NEW c \in Conns, HandlerEnds(c) PROVE TypeOK'
<1>1. ServerTypes'
  BY FewerActive DEF TypeOK, ServerTypes, HandlerEnds
<1>2. ClockTypes'
  BY DEF TypeOK, ClockTypes, HandlerEnds, videoClock, audioClock
<1>3. CallTypes'
  BY DEF TypeOK, CallTypes, HandlerEnds, callVars, bounds
<1>4. HistoryTypes'
  BY DEF TypeOK, HistoryTypes, HandlerEnds, history
<1> QED BY <1>1, <1>2, <1>3, <1>4 DEF TypeOK

LEMMA PeerLostTypes == ASSUME TypeOK, NEW c \in Conns, PeerLost(c) PROVE TypeOK'
<1>1. ServerTypes'
  BY DEF TypeOK, ServerTypes, PeerLost, serverVars, connVars
<1>2. ClockTypes'
  BY DEF TypeOK, ClockTypes, PeerLost, videoClock, audioClock
<1>3. CallTypes'
  BY DEF TypeOK, CallTypes, PeerLost, callVars, bounds
<1>4. HistoryTypes'
  BY DEF TypeOK, HistoryTypes, PeerLost, history
<1> QED BY <1>1, <1>2, <1>3, <1>4 DEF TypeOK

LEMMA ResetTypes ==
  ASSUME TypeOK, Reset
  PROVE  /\ ServerTypes' /\ ClockTypes' /\ HistoryTypes'
         /\ rtpQueue' = <<>> /\ resets' \in 0 .. MaxResets
<1>1. resets' \in 0 .. MaxResets
  BY DEF TypeOK, CallTypes, Reset
<1>2. AudioClock90k \in Stamps
  <2>1. audioTs * VideoRate \in Nat
    BY Numbers DEF TypeOK, ClockTypes, Stamps
  <2>2. (audioTs * VideoRate) \div AudioRate \in Int
    BY <2>1, Numbers
  <2> QED BY <2>2, StampMod DEF AudioClock90k
<1>3. videoTs' \in Stamps
  BY <1>2 DEF TypeOK, ClockTypes, Reset
<1>4. active \in SUBSET Conns /\ IsFiniteSet(active)
  BY DEF TypeOK, ServerTypes
<1>5. /\ videoSeq' \in 0 .. NumMod - 1
      /\ seen' \in [Conns -> Packet \cup {None}]
      /\ primed' \in [Conns -> 0 .. MaxResets]
  BY <1>1, <1>3, <1>4, PrimeTypes DEF Reset
<1>6. ServerTypes'
  BY DEF TypeOK, ServerTypes, Reset, serverVars, connVars
<1>7. ClockTypes'
  BY <1>3, <1>5 DEF TypeOK, ClockTypes, Reset, audioClock
<1>8. HistoryTypes'
  BY <1>5 DEF TypeOK, HistoryTypes, Reset
<1> QED BY <1>1, <1>6, <1>7, <1>8 DEF Reset

\* The starts of a device's clock are timestamps.
LEMMA StartStamps == Starts \cup Steps \subseteq Stamps
BY DEF Stamps

LEMMA NewCallTypes == ASSUME TypeOK, NewCall PROVE TypeOK'
<1>1. calls' \in 0 .. MaxCalls /\ calls' \in 1 .. MaxCalls
  BY DEF TypeOK, CallTypes, NewCall
<1>2. device' \in [1 .. MaxCalls -> Stamps]
  BY <1>1, StartStamps DEF TypeOK, CallTypes, NewCall
<1>3. CallTypes'
  <2>1. Reset /\ UNCHANGED <<videos, audios, ticks>>
    BY DEF NewCall, bounds
  <2>2. rtpQueue' \in Seq([call : 1 .. MaxCalls, ts : Stamps]) /\ resets' \in 0 .. MaxResets
    BY <2>1, ResetTypes, QueueParts
  <2> QED BY <1>1, <1>2, <2>1, <2>2 DEF TypeOK, CallTypes
<1> QED BY <1>3, ResetTypes DEF TypeOK, NewCall

LEMMA RenewalTypes == ASSUME TypeOK, Renewal PROVE TypeOK'
<1>1. calls \in 1 .. MaxCalls
  BY DEF TypeOK, CallTypes, Renewal
<1>2. device' \in [1 .. MaxCalls -> Stamps]
  BY <1>1, StartStamps DEF TypeOK, CallTypes, Renewal
<1>3. CallTypes'
  BY <1>1, <1>2, ResetTypes, QueueParts DEF TypeOK, CallTypes, Renewal, bounds
<1> QED BY <1>3, ResetTypes DEF TypeOK, Renewal

LEMMA MarkReadyTypes == ASSUME TypeOK, MarkReady PROVE TypeOK'
<1>1. ServerTypes'
  BY DEF TypeOK, ServerTypes, MarkReady, serverVars, connVars
<1>2. ClockTypes'
  BY DEF TypeOK, ClockTypes, MarkReady, videoClock, audioClock
<1>3. CallTypes'
  BY DEF TypeOK, CallTypes, MarkReady, callVars, bounds
<1>4. HistoryTypes'
  BY DEF TypeOK, HistoryTypes, MarkReady, history
<1> QED BY <1>1, <1>2, <1>3, <1>4 DEF TypeOK

LEMMA SessionEndsTypes == ASSUME TypeOK, SessionEnds PROVE TypeOK'
<1>1. ServerTypes'
  BY FewerActive, FS_EmptySet DEF TypeOK, ServerTypes, SessionEnds, DisconnectClients
<1>2. ClockTypes'
  BY DEF TypeOK, ClockTypes, SessionEnds, DisconnectClients, videoClock, audioClock
<1>3. CallTypes'
  BY DEF TypeOK, CallTypes, SessionEnds, DisconnectClients, callVars, bounds
<1>4. HistoryTypes'
  BY DEF TypeOK, HistoryTypes, SessionEnds, DisconnectClients, history
<1> QED BY <1>1, <1>2, <1>3, <1>4 DEF TypeOK

LEMMA StopBeginsTypes == ASSUME TypeOK, StopBegins PROVE TypeOK'
<1>1. ServerTypes'
  BY FewerActive DEF TypeOK, ServerTypes, StopBegins, connVars
<1>2. ClockTypes'
  BY DEF TypeOK, ClockTypes, StopBegins, videoClock, audioClock
<1>3. CallTypes'
  BY DEF TypeOK, CallTypes, StopBegins, callVars, bounds
<1>4. HistoryTypes'
  BY DEF TypeOK, HistoryTypes, StopBegins, history
<1> QED BY <1>1, <1>2, <1>3, <1>4 DEF TypeOK

LEMMA StopCancelsTypes == ASSUME TypeOK, StopCancels PROVE TypeOK'
<1>1. ServerTypes'
  BY DEF TypeOK, ServerTypes, StopCancels, serverVars, connVars
<1>2. ClockTypes'
  BY DEF TypeOK, ClockTypes, StopCancels, videoClock, audioClock
<1>3. CallTypes'
  BY DEF TypeOK, CallTypes, StopCancels, callVars, bounds
<1>4. HistoryTypes'
  BY DEF TypeOK, HistoryTypes, StopCancels, history
<1> QED BY <1>1, <1>2, <1>3, <1>4 DEF TypeOK

LEMMA StopReturnsTypes == ASSUME TypeOK, StopReturns PROVE TypeOK'
<1>1. ServerTypes'
  BY DEF TypeOK, ServerTypes, StopReturns, serverVars, connVars
<1>2. ClockTypes'
  BY DEF TypeOK, ClockTypes, StopReturns, videoClock, audioClock
<1>3. CallTypes'
  BY DEF TypeOK, CallTypes, StopReturns, callVars, bounds
<1>4. HistoryTypes'
  BY DEF TypeOK, HistoryTypes, StopReturns, history
<1> QED BY <1>1, <1>2, <1>3, <1>4 DEF TypeOK

LEMMA DeviceVideoTypes == ASSUME TypeOK, NEW k \in 1 .. calls, NEW d \in Steps, DeviceVideo(k, d) PROVE TypeOK'
<1>1. ServerTypes'
  BY DEF TypeOK, ServerTypes, DeviceVideo, serverVars, connVars
<1>2. ClockTypes'
  BY DEF TypeOK, ClockTypes, DeviceVideo, videoClock, audioClock
<1>3. CallTypes'
  <2>1. k \in 1 .. MaxCalls /\ d \in Int /\ device[k] \in Int
    BY StartStamps, SMTT(30) DEF TypeOK, CallTypes, Stamps, DeviceVideo
  <2>2. (device[k] + d) % TsMod \in Stamps
    BY <2>1, StampMod
  <2>3. device' = [device EXCEPT ![k] = (device[k] + d) % TsMod]
    BY DEF DeviceVideo
  <2>4. device' \in [1 .. MaxCalls -> Stamps] /\ device'[k] \in Stamps
    BY <2>1, <2>2, <2>3 DEF TypeOK, CallTypes
  <2>5. [call |-> k, ts |-> device'[k]] \in [call : 1 .. MaxCalls, ts : Stamps]
    BY <2>1, <2>4
  <2>6. rtpQueue' \in Seq([call : 1 .. MaxCalls, ts : Stamps])
    BY <2>5, QueueParts DEF TypeOK, CallTypes, DeviceVideo
  <2> QED BY <2>4, <2>6 DEF TypeOK, CallTypes, DeviceVideo
<1>4. HistoryTypes'
  BY DEF TypeOK, HistoryTypes, DeviceVideo, history
<1> QED BY <1>1, <1>2, <1>3, <1>4 DEF TypeOK

LEMMA TickTypes == ASSUME TypeOK, Tick PROVE TypeOK'
<1>1. ServerTypes'
  BY DEF TypeOK, ServerTypes, Tick, serverVars, connVars
<1>2. ClockTypes'
  <2>1. silent \in Nat /\ \E d \in {1, Discontinuity} : silent' = silent + d
    BY DEF TypeOK, ClockTypes, Tick
  <2>2. silent' \in Nat
    BY <2>1
  <2> QED BY <2>2 DEF TypeOK, ClockTypes, Tick, videoClock
<1>3. CallTypes'
  BY DEF TypeOK, CallTypes, Tick, callVars, bounds
<1>4. HistoryTypes'
  BY DEF TypeOK, HistoryTypes, Tick, history
<1> QED BY <1>1, <1>2, <1>3, <1>4 DEF TypeOK

LEMMA QueueHead ==
  ASSUME TypeOK, rtpQueue # <<>>
  PROVE  /\ Head(rtpQueue) \in [call : 1 .. MaxCalls, ts : Stamps]
         /\ Tail(rtpQueue) \in Seq([call : 1 .. MaxCalls, ts : Stamps])
BY QueueParts DEF TypeOK, CallTypes

LEMMA ReceivedTypes ==
  ASSUME NEW last \in [Conns -> Packet \cup {None}], NEW track, NEW p \in Packet
  PROVE  Received(last, track, p) \in [Conns -> Packet \cup {None}]
BY DEF Received

LEMMA TranslateTypes ==
  ASSUME TypeOK, NEW ts \in Stamps, Translate(ts)
  PROVE  /\ offset' \in Stamps /\ videoTs' \in Stamps
         /\ lastDevice' \in Stamps \cup {None} /\ rebase' \in BOOLEAN
<1>1. offset' \in Stamps
  <2>1. videoTs + 1 - ts \in Int
    BY DEF TypeOK, ClockTypes, Stamps
  <2> QED BY <2>1, StampMod DEF TypeOK, ClockTypes, Translate
<1>2. videoTs' \in Stamps
  <2>1. ts + offset' \in Int
    BY <1>1 DEF Stamps
  <2> QED BY <2>1, StampMod DEF Translate
<1> QED BY <1>1, <1>2 DEF Translate

LEMMA VideoFeedTypes == ASSUME TypeOK, VideoFeed PROVE TypeOK'
<1>h. Head(rtpQueue).ts \in Stamps /\ Head(rtpQueue).call \in 1 .. MaxCalls
  BY QueueHead DEF VideoFeed
<1>t. /\ offset' \in Stamps /\ videoTs' \in Stamps
      /\ lastDevice' \in Stamps \cup {None} /\ rebase' \in BOOLEAN
  BY <1>h, TranslateTypes DEF VideoFeed
<1>s. videoSeq' \in 0 .. NumMod - 1
  <2>1. videoSeq + 1 \in Int
    BY DEF TypeOK, ClockTypes
  <2> QED BY <2>1, SeqMod DEF VideoFeed
<1>1. ServerTypes'
  BY FewerActive DEF TypeOK, ServerTypes, VideoFeed, DropDead, FeedGoesOn, Tracks, connVars
<1>2. ClockTypes'
  BY <1>t, <1>s DEF TypeOK, ClockTypes, VideoFeed, audioClock
<1>3. CallTypes'
  BY QueueHead DEF TypeOK, CallTypes, VideoFeed, callVars, bounds
<1>4. HistoryTypes'
  <2>1. [seq |-> videoSeq, ts |-> videoTs'] \in Packet
    BY <1>t DEF TypeOK, ClockTypes, Packet
  <2>2. seen' \in [Conns -> Packet \cup {None}]
    BY <2>1, ReceivedTypes DEF TypeOK, HistoryTypes, VideoFeed
  <2> QED BY <1>h, <2>2 DEF TypeOK, HistoryTypes, VideoFeed
<1> QED BY <1>1, <1>2, <1>3, <1>4 DEF TypeOK

LEMMA AudioFeedTypes == ASSUME TypeOK, AudioFeed PROVE TypeOK'
<1>r. Resumed \in Stamps
  <2>1. CASE silent # None
    <3>1. lastAudio + silent \in Int
      BY <2>1 DEF TypeOK, ClockTypes, Stamps
    <3> QED BY <3>1, StampMod DEF TypeOK, ClockTypes, Resumed
  <2>2. CASE silent = None
    BY <2>2 DEF TypeOK, ClockTypes, Resumed
  <2> QED BY <2>1, <2>2
<1>1. ServerTypes'
  BY FewerActive DEF TypeOK, ServerTypes, AudioFeed, DropDead, FeedGoesOn, Tracks, connVars
<1>2. ClockTypes'
  <2>1. audioSeq + 1 \in Int /\ Resumed + 1 \in Int
    BY <1>r DEF TypeOK, ClockTypes, Stamps
  <2>2. audioSeq' \in 0 .. NumMod - 1 /\ audioTs' \in Stamps
    BY <2>1, SeqMod, StampMod DEF AudioFeed
  <2> QED BY <1>r, <2>2 DEF TypeOK, ClockTypes, AudioFeed, videoClock
<1>3. CallTypes'
  BY SMTT(30) DEF TypeOK, CallTypes, AudioFeed, callVars, bounds
<1>4. HistoryTypes'
  <2>1. [seq |-> audioSeq, ts |-> Resumed] \in Packet
    BY <1>r DEF TypeOK, ClockTypes, Packet
  <2>2. heard' \in [Conns -> Packet \cup {None}]
    BY <2>1, ReceivedTypes DEF TypeOK, HistoryTypes, AudioFeed
  <2> QED BY <2>2 DEF TypeOK, HistoryTypes, AudioFeed
<1> QED BY <1>1, <1>2, <1>3, <1>4 DEF TypeOK

LEMMA ReportFeedTypes == ASSUME TypeOK, ReportFeed PROVE TypeOK'
<1>1. ServerTypes'
  BY FewerActive DEF TypeOK, ServerTypes, ReportFeed, FeedGoesOn, connVars
<1>2. ClockTypes'
  BY DEF TypeOK, ClockTypes, ReportFeed, videoClock, audioClock
<1>3. CallTypes'
  BY DEF TypeOK, CallTypes, ReportFeed, callVars, bounds
<1>4. HistoryTypes'
  BY DEF TypeOK, HistoryTypes, ReportFeed, history
<1> QED BY <1>1, <1>2, <1>3, <1>4 DEF TypeOK

LEMMA TypeStep == TypeOK /\ [Next]_vars => TypeOK'
<1> SUFFICES ASSUME TypeOK, [Next]_vars PROVE TypeOK'
  OBVIOUS
<1>1. ASSUME NEW c \in Conns, ConnStep(c) PROVE TypeOK'
  BY <1>1, SetupTypes, PlayTypes, HandlerEndsTypes, PeerLostTypes DEF ConnStep, Tracks
<1>2. CASE CallStep
  BY <1>2, NewCallTypes, RenewalTypes, MarkReadyTypes, SessionEndsTypes, DeviceVideoTypes
     DEF CallStep
<1>3. CASE StopStep
  BY <1>3, StopBeginsTypes, StopCancelsTypes, StopReturnsTypes DEF StopStep
<1>4. CASE VideoFeed \/ AudioFeed \/ ReportFeed \/ Tick
  BY <1>4, VideoFeedTypes, AudioFeedTypes, ReportFeedTypes, TickTypes
<1>5. CASE UNCHANGED vars
  BY <1>5 DEF TypeOK, ServerTypes, ClockTypes, CallTypes, HistoryTypes, vars, serverVars,
     videoClock, audioClock, connVars, callVars, bounds, history
<1> QED BY <1>1, <1>2, <1>3, <1>4, <1>5 DEF Next

\* Every reachable state of the server is well typed: the numbers of packets and the
\* timestamps stay within their width, and finitely many clients are registered.
THEOREM TypeCorrect == Spec => []TypeOK
<1>1. ASSUME Init PROVE TypeOK
  <2>1. ServerTypes
    BY <1>1, FS_EmptySet DEF Init, ServerTypes, Feeds
  <2>2. ClockTypes
    <3>1. rebase \in BOOLEAN
      BY <1>1, Zenon DEF Init
    <3> QED BY <1>1, <3>1, Numbers DEF Init, ClockTypes
  <2>3. CallTypes
    BY <1>1, Numbers DEF Init, CallTypes
  <2>4. HistoryTypes
    BY <1>1 DEF Init, HistoryTypes
  <2> QED BY <2>1, <2>2, <2>3, <2>4 DEF TypeOK
<1> QED BY <1>1, TypeStep, PTL DEF Spec
-----------------------------------------------------------------------------
(* The clients that are served *)

LEMMA ServedStep == TypeOK /\ StreamsServed /\ [Next]_vars => StreamsServed'
<1> SUFFICES ASSUME TypeOK, StreamsServed, [Next]_vars PROVE StreamsServed'
  OBVIOUS
<1>t. /\ conn \in [Conns -> {"none", "request", "streaming", "closed"}]
      /\ active \subseteq Conns /\ closing \subseteq Conns
  BY DEF TypeOK, ServerTypes
<1> USE DEF StreamsServed, Running
<1>1. ASSUME NEW c \in Conns, NEW wanted \in SUBSET Tracks, Setup(c, wanted) PROVE StreamsServed'
  BY <1>t, <1>1 DEF Setup, serverVars
<1>2. ASSUME NEW c \in Conns, Play(c) PROVE StreamsServed'
  BY <1>t, <1>2 DEF Play
<1>3. ASSUME NEW c \in Conns, HandlerEnds(c) PROVE StreamsServed'
  BY <1>t, <1>3 DEF HandlerEnds
<1>4. ASSUME NEW c \in Conns, PeerLost(c) PROVE StreamsServed'
  BY <1>t, <1>4 DEF PeerLost, serverVars
<1>5. CASE NewCall \/ Renewal
  BY <1>5 DEF NewCall, Renewal, Reset, serverVars, connVars
<1>6. CASE MarkReady \/ SessionEnds
  BY <1>6 DEF MarkReady, SessionEnds, DisconnectClients, connVars
<1>7. ASSUME NEW k, NEW d, DeviceVideo(k, d) PROVE StreamsServed'
  BY <1>7 DEF DeviceVideo, serverVars, connVars
<1>8. CASE StopStep
  BY <1>8 DEF StopStep, StopBegins, StopCancels, StopReturns, connVars
<1>9. CASE VideoFeed \/ AudioFeed
  BY <1>9 DEF VideoFeed, AudioFeed, DropDead, connVars
<1>10. CASE ReportFeed
  BY <1>10 DEF ReportFeed, connVars
<1>11. CASE Tick \/ UNCHANGED vars
  BY <1>11 DEF Tick, vars, serverVars, connVars
<1> QED
  BY <1>1, <1>2, <1>3, <1>4, <1>5, <1>6, <1>7, <1>8, <1>9, <1>10, <1>11
     DEF Next, ConnStep, CallStep, Tracks

\* Whatever took a client off the list, exactly the open streams are served, and none
\* when the server has stopped: a PLAY that stop() overtakes adds nobody.
THEOREM StreamsRight == Spec => []StreamsServed
<1>1. Init => StreamsServed
  BY DEF Init, StreamsServed, Running
<1> QED BY <1>1, TypeCorrect, ServedStep, PTL DEF Spec
-----------------------------------------------------------------------------
(* Parameter sets *)

\* Every client with a video track has had the parameter sets since the last reset.
PrimedInv == \A c \in With("video") : primed[c] = resets

\* The steps that neither register nor prime a client, nor give it a track.
LEMMA OthersPrime ==
  ASSUME TypeOK, StreamsServed, Next,
         ~(\E c \in Conns : Play(c)), ~(NewCall \/ Renewal)
  PROVE  /\ active' \subseteq active /\ UNCHANGED <<primed, resets>>
         /\ \A c \in active : tracks'[c] = tracks[c]
         /\ VideoFeed \/ UNCHANGED seen
<1>1. ASSUME NEW c \in Conns, NEW wanted, Setup(c, wanted)
      PROVE  /\ active' \subseteq active /\ UNCHANGED <<primed, resets>>
             /\ \A b \in active : tracks'[b] = tracks[b]
             /\ VideoFeed \/ UNCHANGED seen
  <2>1. c \notin active
    BY <1>1 DEF StreamsServed, Setup
  <2> QED BY <1>1, <2>1 DEF Setup, serverVars, callVars, history, TypeOK, ServerTypes
<1>2. ASSUME NEW c \in Conns, HandlerEnds(c) \/ PeerLost(c)
      PROVE  active' \subseteq active /\ UNCHANGED <<tracks, primed, resets, seen>>
  BY <1>2 DEF HandlerEnds, PeerLost, serverVars, callVars, history
<1>3. CASE MarkReady \/ SessionEnds \/ StopStep
  BY <1>3 DEF MarkReady, SessionEnds, DisconnectClients, StopStep, StopBegins, StopCancels,
     StopReturns, connVars, callVars, history
<1>4. ASSUME NEW k, NEW d, DeviceVideo(k, d)
      PROVE  active' \subseteq active /\ UNCHANGED <<tracks, primed, resets, seen>>
  BY <1>4 DEF DeviceVideo, serverVars, connVars, history
<1>5. CASE VideoFeed \/ AudioFeed \/ ReportFeed
  BY <1>5 DEF VideoFeed, AudioFeed, ReportFeed, DropDead, connVars, callVars
<1>6. CASE Tick
  BY <1>6 DEF Tick, serverVars, connVars, callVars, history
<1> QED BY <1>1, <1>2, <1>3, <1>4, <1>5, <1>6 DEF Next, ConnStep, CallStep

LEMMA PrimedStep ==
  TypeOK /\ StreamsServed /\ PrimedInv /\ [Next]_vars => PrimedInv'
<1> SUFFICES ASSUME TypeOK, StreamsServed, PrimedInv, [Next]_vars PROVE PrimedInv'
  OBVIOUS
<1>t. active \subseteq Conns
  BY DEF TypeOK, ServerTypes
<1>1. CASE \E c \in Conns : Play(c)
  BY <1>1, <1>t DEF Play, Prime, PrimedInv, With, callVars
<1>2. CASE NewCall \/ Renewal
  <2>1. Reset
    BY <1>2 DEF NewCall, Renewal
  <2> QED BY <2>1, <1>t DEF Reset, Prime, PrimedInv, With, serverVars, connVars
<1>3. CASE /\ Next /\ ~(\E c \in Conns : Play(c)) /\ ~(NewCall \/ Renewal)
  BY <1>3, OthersPrime DEF PrimedInv, With
<1>4. CASE UNCHANGED vars
  BY <1>4 DEF PrimedInv, With, vars, serverVars, connVars, callVars, history
<1> QED BY <1>1, <1>2, <1>3, <1>4

LEMMA PrimedFirstStep ==
  TypeOK /\ StreamsServed /\ PrimedInv /\ [Next]_vars
  => [\A c \in Conns : seen'[c] # seen[c] => primed'[c] = resets']_vars
<1> SUFFICES ASSUME TypeOK, StreamsServed, PrimedInv, Next,
                    NEW c \in Conns, seen'[c] # seen[c]
             PROVE  primed'[c] = resets'
  BY Zenon
<1>1. CASE \E b \in Conns : Play(b)
  BY <1>1 DEF Play, Prime, callVars
<1>2. CASE NewCall \/ Renewal
  <2>1. Reset
    BY <1>2 DEF NewCall, Renewal
  <2> QED BY <2>1 DEF Reset, Prime
<1>3. CASE VideoFeed
  BY <1>3 DEF VideoFeed, Received, PrimedInv, callVars
<1> QED BY <1>1, <1>2, <1>3, OthersPrime

\* Nobody gets video of a call before its parameter sets, neither who comes in the
\* middle of it nor who stayed connected since an earlier one.
THEOREM PrimedBefore == Spec => PrimedFirst
<1>1. Init => PrimedInv
  BY DEF Init, PrimedInv, With
<1> QED
  BY <1>1, TypeCorrect, StreamsRight, PrimedStep, PrimedFirstStep, PTL DEF Spec, PrimedFirst
-----------------------------------------------------------------------------
(* The pace of the video *)

\* After a packet, and until the next reset, the video clock is the device's, moved by
\* the offset.
PaceInv ==
  lastCall # None
  => ~rebase /\ lastDevice # None /\ videoTs = (lastDevice + offset) % TsMod

\* Only a packet and a reset touch the video clock.
LEMMA OthersPace ==
  ASSUME Next, ~VideoFeed, ~(NewCall \/ Renewal)
  PROVE  /\ UNCHANGED <<videoClock, lastCall>>
         /\ rtpQueue' = rtpQueue \/ \E p : rtpQueue' = Append(rtpQueue, p)
<1>1. ASSUME NEW c \in Conns, ConnStep(c)
      PROVE  UNCHANGED <<videoClock, lastCall, rtpQueue>>
  BY <1>1 DEF ConnStep, Setup, Play, HandlerEnds, PeerLost, history
<1>2. CASE MarkReady \/ SessionEnds \/ StopStep
  BY <1>2 DEF MarkReady, SessionEnds, StopStep, StopBegins, StopCancels, StopReturns, history
<1>3. ASSUME NEW k, NEW d, DeviceVideo(k, d)
      PROVE  /\ UNCHANGED <<videoClock, lastCall>>
             /\ rtpQueue' = rtpQueue \/ \E p : rtpQueue' = Append(rtpQueue, p)
  BY <1>3 DEF DeviceVideo, history
<1>4. CASE AudioFeed \/ ReportFeed \/ Tick
  BY <1>4 DEF AudioFeed, ReportFeed, Tick, history
<1> QED BY <1>1, <1>2, <1>3, <1>4 DEF Next, CallStep

LEMMA PaceStep == TypeOK /\ PaceInv /\ [Next]_vars => PaceInv'
<1> SUFFICES ASSUME TypeOK, PaceInv, [Next]_vars PROVE PaceInv'
  OBVIOUS
<1>1. CASE VideoFeed
  <2>1. Head(rtpQueue).ts \in Stamps /\ Translate(Head(rtpQueue).ts)
    BY <1>1, QueueHead DEF VideoFeed
  <2>2. Head(rtpQueue).ts # None
    BY <2>1 DEF Stamps
  <2> QED BY <2>1, <2>2 DEF Translate, PaceInv
<1>2. CASE NewCall \/ Renewal
  BY <1>2 DEF NewCall, Renewal, Reset, PaceInv
<1>3. CASE Next /\ ~VideoFeed /\ ~(NewCall \/ Renewal)
  BY <1>3, OthersPace DEF PaceInv, videoClock
<1>4. CASE UNCHANGED vars
  BY <1>4 DEF PaceInv, vars, videoClock, history
<1> QED BY <1>1, <1>2, <1>3, <1>4

LEMMA QueueMoves ==
  ASSUME NEW S, NEW q \in Seq(S), q # <<>>
  PROVE  q # Tail(q) /\ \A p : Append(q, p) # Tail(q)
<1>1. ASSUME NEW p PROVE Append(q, p) # Tail(q)
  <2>1. q \in Seq(S \cup {p})
    OBVIOUS
  <2> QED BY <2>1, TailShorter
<1> QED BY <1>1, TailShorter

\* Two stamps that are moved by the same offset keep their distance.
LEMMA OffsetKeepsPace ==
  ASSUME NEW x \in Stamps, NEW y \in Stamps, NEW o \in Stamps
  PROVE  (((x + o) % TsMod) - ((y + o) % TsMod)) % TsMod = (x - y) % TsMod
<1> DEFINE v == (x + o) % TsMod
           u == (y + o) % TsMod
<1>1. /\ TsMod \in Nat \ {0}
      /\ x \in 0 .. TsMod - 1 /\ y \in 0 .. TsMod - 1 /\ o \in 0 .. TsMod - 1
  BY Numbers DEF Stamps
<1>2. x + o \in Int /\ y + o \in Int
  BY <1>1
<1>3. v \in 0 .. TsMod - 1 /\ u \in 0 .. TsMod - 1
  BY <1>1, <1>2, ModType
<1>4. v \in {x + o, x + o - TsMod} /\ u \in {y + o, y + o - TsMod}
  BY <1>1, ModSum
<1> HIDE DEF v, u
<1>5. (v - u) % TsMod = IF v - u < 0 THEN v - u + TsMod ELSE v - u
  BY ONLY <1>1, <1>3
<1>6. (x - y) % TsMod = IF x - y < 0 THEN x - y + TsMod ELSE x - y
  BY ONLY <1>1
<1>7. v - u \in {x - y, x - y - TsMod, x - y + TsMod}
  BY ONLY <1>1, <1>3, <1>4
<1>8. (v - u) % TsMod = (x - y) % TsMod
  BY ONLY <1>1, <1>3, <1>5, <1>6, <1>7
<1> QED BY ONLY <1>8, Zenon DEF v, u

LEMMA PaceKeptStep ==
  TypeOK /\ PaceInv /\ [Next]_vars
  => [lastCall # None /\ lastCall' = lastCall /\ rtpQueue # <<>> /\ rtpQueue' = Tail(rtpQueue)
        => LET moved == (Head(rtpQueue).ts - lastDevice) % TsMod
           IN moved <= Half => (videoTs' - videoTs) % TsMod = moved]_vars
<1> DEFINE moved == (Head(rtpQueue).ts - lastDevice) % TsMod
<1> SUFFICES ASSUME TypeOK, PaceInv, Next,
                    lastCall # None, lastCall' = lastCall, rtpQueue # <<>>,
                    rtpQueue' = Tail(rtpQueue), moved <= Half
             PROVE  (videoTs' - videoTs) % TsMod = moved
  BY Zenon
<1>1. VideoFeed
  <2>1. rtpQueue \in Seq([call : 1 .. MaxCalls, ts : Stamps])
    BY DEF TypeOK, CallTypes
  <2>2. ~(NewCall \/ Renewal)
    BY DEF NewCall, Renewal, Reset
  <2> QED BY <2>1, <2>2, OthersPace, QueueMoves
<1>2. Head(rtpQueue).ts \in Stamps /\ Translate(Head(rtpQueue).ts)
  BY <1>1, QueueHead DEF VideoFeed
<1>3. /\ ~rebase /\ lastDevice \in Stamps /\ offset \in Stamps
      /\ videoTs = (lastDevice + offset) % TsMod
  BY DEF PaceInv, TypeOK, ClockTypes
<1>4. moved \in Stamps
  <2>1. Head(rtpQueue).ts - lastDevice \in Int
    BY <1>2, <1>3 DEF Stamps
  <2> QED BY <2>1, StampMod
<1>5. offset' = offset /\ videoTs' = (Head(rtpQueue).ts + offset) % TsMod
  <2>1. ~(moved > Half) /\ lastDevice # None
    BY <1>3, <1>4, Numbers DEF Stamps
  <2> QED BY <1>2, <1>3, <2>1 DEF Translate
<1>6. (((Head(rtpQueue).ts + offset) % TsMod) - ((lastDevice + offset) % TsMod)) % TsMod
       = (Head(rtpQueue).ts - lastDevice) % TsMod
  BY ONLY <1>2, <1>3, OffsetKeepsPace
<1>7. (videoTs' - videoTs) % TsMod
       = (((Head(rtpQueue).ts + offset) % TsMod) - ((lastDevice + offset) % TsMod)) % TsMod
  BY ONLY <1>3, <1>5, Zenon
<1> QED BY ONLY <1>6, <1>7, Zenon DEF moved

\* Within a call, whatever client is connected, the video clock keeps the pace of the
\* device's, over its wrap and over packets the queue has dropped.
THEOREM PaceRight == Spec => PaceKept
<1>1. Init => PaceInv
  BY DEF Init, PaceInv
<1> QED BY <1>1, TypeCorrect, PaceStep, PaceKeptStep, PTL DEF Spec, PaceKept
-----------------------------------------------------------------------------
(* The way forward of the audio *)

\* A served client's last audio packet is the last one that was sent, and the next one
\* follows it.
AudioInv ==
  /\ \A c \in Conns : conn[c] \in {"none", "request"} => heard[c] = None
  /\ \A c \in With("audio") \ closing :
       heard[c] # None
       => silent # None /\ heard[c].ts = lastAudio /\ audioSeq = (heard[c].seq + 1) % NumMod
  /\ silent # None => audioTs = (lastAudio + 1) % TsMod

\* No step but a packet and the clock touches the audio clock, and none but PLAY adds a
\* client to those who hear it.
LEMMA OthersAudio ==
  ASSUME TypeOK, StreamsServed, Next, ~AudioFeed, ~Tick
  PROVE  /\ UNCHANGED <<audioClock, audioSeq, heard>>
         /\ \A c \in Conns : conn'[c] \in {"none", "request"} => conn[c] \in {"none", "request"}
         /\ \A c \in With("audio")' \ closing' :
              c \in With("audio") \ closing \/ conn[c] = "request"
<1>t. /\ conn \in [Conns -> {"none", "request", "streaming", "closed"}]
      /\ tracks \in [Conns -> SUBSET Tracks] /\ active \subseteq Conns
  BY DEF TypeOK, ServerTypes
<1> USE DEF With
<1>1. ASSUME NEW c \in Conns, NEW wanted, Setup(c, wanted)
      PROVE  /\ UNCHANGED <<audioClock, audioSeq, heard, active>> /\ closing \subseteq closing'
             /\ \A b \in Conns : conn'[b] \in {"none", "request"} => conn[b] \in {"none", "request"}
             /\ \A b \in active : tracks'[b] = tracks[b]
  <2>1. c \notin active
    BY <1>1 DEF StreamsServed, Setup
  <2> QED BY <1>t, <1>1, <2>1 DEF Setup, serverVars, history
<1>2. ASSUME NEW c \in Conns, Play(c)
      PROVE  /\ UNCHANGED <<audioClock, audioSeq, heard, tracks>> /\ closing \subseteq closing'
             /\ \A b \in Conns : conn'[b] \in {"none", "request"} => conn[b] \in {"none", "request"}
             /\ active' \subseteq active \cup {c} /\ conn[c] = "request"
  BY <1>t, <1>2 DEF Play
<1>3. ASSUME NEW c \in Conns, HandlerEnds(c) \/ PeerLost(c)
      PROVE  /\ UNCHANGED <<audioClock, audioSeq, heard, tracks>> /\ closing \subseteq closing'
             /\ \A b \in Conns : conn'[b] \in {"none", "request"} => conn[b] \in {"none", "request"}
             /\ active' \subseteq active
  BY <1>t, <1>3 DEF HandlerEnds, PeerLost, serverVars, history
<1>4. CASE NewCall \/ Renewal
  BY <1>4 DEF NewCall, Renewal, Reset, serverVars, connVars
<1>5. CASE MarkReady \/ SessionEnds \/ StopStep
  BY <1>5 DEF MarkReady, SessionEnds, DisconnectClients, StopStep, StopBegins, StopCancels,
     StopReturns, connVars, history
<1>6. ASSUME NEW k, NEW d, DeviceVideo(k, d)
      PROVE  UNCHANGED <<audioClock, audioSeq, heard, serverVars, connVars>>
  BY <1>6 DEF DeviceVideo, history
<1>7. CASE VideoFeed \/ ReportFeed
  BY <1>7 DEF VideoFeed, ReportFeed, DropDead, connVars
<1>8. ASSUME NEW c \in Conns, ConnStep(c)
      PROVE  /\ UNCHANGED <<audioClock, audioSeq, heard>>
             /\ \A b \in Conns : conn'[b] \in {"none", "request"} => conn[b] \in {"none", "request"}
             /\ \A b \in With("audio")' \ closing' :
                  b \in With("audio") \ closing \/ conn[b] = "request"
  BY <1>t, <1>1, <1>2, <1>3, <1>8 DEF ConnStep
<1> QED BY <1>4, <1>5, <1>6, <1>7, <1>8 DEF Next, CallStep, serverVars, connVars

LEMMA AudioFeedStep == TypeOK /\ StreamsServed /\ AudioInv /\ AudioFeed => AudioInv'
<1> SUFFICES ASSUME TypeOK, StreamsServed, AudioInv, AudioFeed PROVE AudioInv'
  OBVIOUS
<1>1. /\ UNCHANGED <<conn, closing, tracks>> /\ active' \subseteq active
      /\ lastAudio' = Resumed /\ audioTs' = (Resumed + 1) % TsMod /\ silent' = 0
      /\ audioSeq' = (audioSeq + 1) % NumMod
      /\ heard' = Received(heard, "audio", [seq |-> audioSeq, ts |-> Resumed])
  BY DEF AudioFeed, DropDead, connVars
<1>2. \A c \in Conns : conn'[c] \in {"none", "request"} => heard'[c] = None
  BY <1>1 DEF AudioInv, Received, With, StreamsServed
<1>3. silent' # None
  BY <1>1
<1>4. \A c \in With("audio")' \ closing' :
        heard'[c].ts = lastAudio' /\ audioSeq' = (heard'[c].seq + 1) % NumMod
  <2>1. With("audio")' \ closing' \subseteq With("audio") \ closing
    BY <1>1 DEF With
  <2>2. With("audio") \subseteq Conns
    BY DEF With, TypeOK, ServerTypes
  <2>3. \A c \in With("audio") \ closing : heard'[c] = [seq |-> audioSeq, ts |-> Resumed]
    BY <1>1, <2>2 DEF Received
  <2> QED BY <1>1, <2>1, <2>3
<1> QED BY <1>1, <1>2, <1>3, <1>4 DEF AudioInv

LEMMA AudioStep == TypeOK /\ StreamsServed /\ AudioInv /\ [Next]_vars => AudioInv'
<1> SUFFICES ASSUME TypeOK, StreamsServed, AudioInv, [Next]_vars PROVE AudioInv'
  OBVIOUS
<1>1. CASE AudioFeed
  BY <1>1, AudioFeedStep
<1>2. CASE Tick
  <2>1. /\ UNCHANGED <<audioTs, lastAudio, audioSeq, heard, conn, closing, tracks, active>>
        /\ silent # None
    BY <1>2 DEF Tick, connVars, serverVars, history
  <2>2. silent' # None
    <3>1. silent \in Nat /\ \E d \in Nat : silent' = silent + d
      BY <1>2, <2>1 DEF Tick, TypeOK, ClockTypes
    <3> QED BY <3>1
  <2> QED BY <2>1, <2>2 DEF AudioInv, With
<1>3. CASE Next /\ ~AudioFeed /\ ~Tick
  <2>1. With("audio")' \subseteq Conns
    <3>1. TypeOK'
      BY TypeStep
    <3> QED BY <3>1 DEF With, TypeOK, ServerTypes
  <2> QED BY <1>3, <2>1, OthersAudio DEF AudioInv, audioClock
<1>4. CASE UNCHANGED vars
  BY <1>4 DEF AudioInv, With, vars, serverVars, connVars, audioClock, history
<1> QED BY <1>1, <1>2, <1>3, <1>4

\* One ahead, and as far ahead as a pause that is no longer than half the clock's range.
LEMMA NextAhead ==
  ASSUME NEW n \in Nat, n > 1, NEW x \in 0 .. n - 1 PROVE Ahead((x + 1) % n, x, n)
<1>1. (((x + 1) % n) - x) % n = 1
  BY ModAhead
<1>2. n \div 2 \in Nat /\ n \div 2 >= 1
  OBVIOUS
<1> QED BY <1>1, <1>2 DEF Ahead

LEMMA PauseAhead ==
  ASSUME NEW x \in Stamps, NEW d \in 1 .. Half PROVE Ahead((x + d) % TsMod, x, TsMod)
<1>1. (((x + d) % TsMod) - x) % TsMod = d
  <2>1. TsMod \in Nat \ {0} /\ x \in 0 .. TsMod - 1 /\ d \in 0 .. TsMod - 1
    BY Numbers DEF Stamps
  <2> QED BY ONLY <2>1, ModAhead
<1> QED BY <1>1 DEF Ahead, Half

\* No pause of the audio is longer than half the range of its clock: 74 h at 8 kHz.
ShortPause == silent # None => silent <= Half

LEMMA OthersHeard == ASSUME Next, ~AudioFeed PROVE UNCHANGED heard
<1>1. ASSUME NEW c \in Conns, ConnStep(c) PROVE UNCHANGED heard
  BY <1>1 DEF ConnStep, Setup, Play, HandlerEnds, PeerLost, history
<1>2. ASSUME CallStep PROVE UNCHANGED heard
  BY <1>2 DEF CallStep, NewCall, Renewal, Reset, MarkReady, SessionEnds, DeviceVideo, history
<1>3. ASSUME StopStep PROVE UNCHANGED heard
  BY <1>3 DEF StopStep, StopBegins, StopCancels, StopReturns, history
<1> QED BY <1>1, <1>2, <1>3 DEF Next, VideoFeed, ReportFeed, Tick, history

LEMMA AudioForwardStep ==
  TypeOK /\ AudioInv /\ ShortPause /\ [Next]_vars
  => [\A c \in Conns : heard'[c] # heard[c] /\ heard[c] # None
       => /\ Ahead(heard'[c].seq, heard[c].seq, NumMod)
          /\ Ahead(heard'[c].ts, heard[c].ts, TsMod)]_vars
<1> SUFFICES ASSUME TypeOK, AudioInv, ShortPause, Next,
                    NEW c \in Conns, heard'[c] # heard[c], heard[c] # None
             PROVE  /\ Ahead(heard'[c].seq, heard[c].seq, NumMod)
                    /\ Ahead(heard'[c].ts, heard[c].ts, TsMod)
  BY Zenon
<1>1. AudioFeed
  BY OthersHeard
<1>2. /\ c \in With("audio") \ closing
      /\ heard'[c] = [seq |-> audioSeq, ts |-> Resumed]
  BY <1>1 DEF AudioFeed, Received
<1>3. /\ silent \in Nat /\ heard[c].ts = lastAudio
      /\ audioSeq = (heard[c].seq + 1) % NumMod /\ audioTs = (lastAudio + 1) % TsMod
  BY <1>2 DEF AudioInv, TypeOK, ClockTypes
<1>4. heard[c] \in Packet
  BY DEF TypeOK, HistoryTypes
<1>5. Ahead(heard'[c].seq, heard[c].seq, NumMod)
  <2>1. heard[c].seq \in 0 .. NumMod - 1 /\ NumMod \in Nat /\ NumMod > 1
    BY <1>4, Numbers DEF Packet
  <2>2. heard'[c].seq = (heard[c].seq + 1) % NumMod
    BY <1>2, <1>3
  <2> QED BY ONLY <2>1, <2>2, NextAhead
<1>6. Ahead(heard'[c].ts, heard[c].ts, TsMod)
  <2>1. lastAudio \in Stamps /\ heard'[c].ts = Resumed
    BY <1>2 DEF TypeOK, ClockTypes
  <2>2. 1 \in 1 .. Half
    BY Numbers
  <2>3. silent >= Discontinuity => silent \in 1 .. Half
    BY <1>3, Numbers DEF ShortPause
  <2>4. \E d \in 1 .. Half : Resumed = (lastAudio + d) % TsMod
    BY <1>3, <2>2, <2>3 DEF Resumed
  <2> QED BY <1>3, <2>1, <2>4, PauseAhead
<1> QED BY <1>5, <1>6

\* What a client that stays connected hears never goes back, over silence, calls and any
\* number of pauses, as long as no single pause lasts half the range of the clock.
THEOREM AudioRight == Spec /\ []ShortPause => AudioForward
<1>1. Init => AudioInv
  BY DEF Init, AudioInv, With
<1> QED
  BY <1>1, TypeCorrect, StreamsRight, AudioStep, AudioForwardStep, PTL DEF Spec, AudioForward
-----------------------------------------------------------------------------
(* The way forward of the video *)

\* Connections that have played, or were refused.
Past == {c \in Conns : conn[c] \notin {"none", "request"}}

\* Between resets the outgoing clock is the device's, moved by the offset.
ClockInv == ~rebase /\ lastDevice # None => videoTs = (lastDevice + offset) % TsMod

\* What a served client saw last has the time of the video clock, and lies behind the next
\* sequence number by no more than two for each other connection that has played.
SeenInv ==
  /\ \A c \in Conns \ Past : seen[c] = None
  /\ \A c \in With("video") \ closing :
       /\ seen[c] \in Packet /\ seen[c].ts = videoTs
       /\ \E g \in 0 .. 2 * Cardinality(Past \ {c}) : videoSeq = (seen[c].seq + (1 + g)) % NumMod

\* Two moves are one, as long as they stay below n together.
LEMMA ModSteps ==
  ASSUME NEW n \in Nat \ {0}, NEW x \in 0 .. n - 1, NEW d \in Nat, NEW e \in Nat, d + e < n
  PROVE  (((x + d) % n) + e) % n = (x + (d + e)) % n
<1> DEFINE y == (x + d) % n
           z == (y + e) % n
           w == (x + (d + e)) % n
<1>1. d \in 0 .. n - 1 /\ e \in 0 .. n - 1 /\ d + e \in 0 .. n - 1
  OBVIOUS
<1>2. y \in {x + d, x + d - n} /\ y \in 0 .. n - 1
  BY ONLY <1>1, ModSum, ModType, x + d \in Int
<1> HIDE DEF y
<1>3. z \in {y + e, y + e - n} /\ z \in 0 .. n - 1
  BY ONLY <1>1, <1>2, ModSum, ModType, y + e \in Int
<1>4. w \in {x + (d + e), x + (d + e) - n} /\ w \in 0 .. n - 1
  BY ONLY <1>1, ModSum, ModType, x + (d + e) \in Int
<1> HIDE DEF z, w
<1>5. z = w
  BY ONLY <1>1, <1>2, <1>3, <1>4
<1> QED BY ONLY <1>5, Zenon DEF y, z, w

LEMMA MovedAhead ==
  ASSUME NEW n \in Nat \ {0}, NEW x \in 0 .. n - 1, NEW d \in 1 .. n \div 2
  PROVE  Ahead((x + d) % n, x, n)
<1>1. d \in 0 .. n - 1
  OBVIOUS
<1>2. (((x + d) % n) - x) % n = d
  BY ONLY <1>1, ModAhead
<1> QED BY ONLY <1>2, d \in 1 .. n \div 2 DEF Ahead

\* A packet that rebases the clock moves it by one.
LEMMA RebaseMoves ==
  ASSUME NEW t \in Stamps, NEW v \in Stamps
  PROVE  (t + ((v + 1 - t) % TsMod)) % TsMod = (v + 1) % TsMod
<1> DEFINE o == (v + 1 - t) % TsMod
           z == (t + o) % TsMod
           w == (v + 1) % TsMod
<1>1. TsMod \in Nat \ {0} /\ TsMod > 1 /\ t \in 0 .. TsMod - 1 /\ v \in 0 .. TsMod - 1
  BY Numbers DEF Stamps
<1>2. o \in {v + 1 - t, v + 1 - t + TsMod, v + 1 - t - TsMod} /\ o \in 0 .. TsMod - 1
  BY ONLY <1>1
<1> HIDE DEF o
<1>3. z \in {t + o, t + o - TsMod} /\ z \in 0 .. TsMod - 1
  BY ONLY <1>1, <1>2
<1>4. w \in {v + 1, v + 1 - TsMod} /\ w \in 0 .. TsMod - 1
  BY ONLY <1>1
<1> HIDE DEF z, w
<1>5. z = w
  BY ONLY <1>1, <1>2, <1>3, <1>4
<1> QED BY ONLY <1>5, Zenon DEF o, z, w

\* No more connections in all than the sequence numbers leave room for: 8192.
FewConns == IsFiniteSet(Conns) /\ 4 * Cardinality(Conns) <= NumMod \div 2

LEMMA Counts ==
  ASSUME FewConns
  PROVE  /\ Cardinality(Conns) \in Nat
         /\ \A S \in SUBSET Conns : /\ IsFiniteSet(S) /\ Cardinality(S) \in Nat
                                    /\ Cardinality(S) <= Cardinality(Conns)
         /\ \A S \in SUBSET Conns : \A T \in SUBSET S : Cardinality(T) <= Cardinality(S)
         /\ \A S \in SUBSET Conns : \A c \in S : Cardinality(S) = Cardinality(S \ {c}) + 1
         /\ \A S \in SUBSET Conns : \A c \in Conns \ S : Cardinality(S \cup {c}) = Cardinality(S) + 1
<1>1. IsFiniteSet(Conns)
  BY DEF FewConns
<1>2. \A S \in SUBSET Conns : /\ IsFiniteSet(S) /\ Cardinality(S) \in Nat
                              /\ Cardinality(S) <= Cardinality(Conns)
  BY ONLY <1>1, FS_Subset, FS_CardinalityType
<1>3. \A S \in SUBSET Conns : \A T \in SUBSET S : Cardinality(T) <= Cardinality(S)
  BY ONLY <1>2, FS_Subset
<1>4. \A S \in SUBSET Conns : \A c \in S : Cardinality(S) = Cardinality(S \ {c}) + 1
  <2> SUFFICES ASSUME NEW S \in SUBSET Conns, NEW c \in S
               PROVE  Cardinality(S) = Cardinality(S \ {c}) + 1
    OBVIOUS
  <2>1. Cardinality(S \ {c}) = Cardinality(S) - 1 /\ Cardinality(S) \in Nat
    BY ONLY <1>2, FS_RemoveElement
  <2> QED BY ONLY <2>1
<1>5. \A S \in SUBSET Conns : \A c \in Conns \ S : Cardinality(S \cup {c}) = Cardinality(S) + 1
  BY ONLY <1>2, FS_AddElement
<1>6. Cardinality(Conns) \in Nat
  BY <1>1, FS_CardinalityType
<1> QED BY ONLY <1>2, <1>3, <1>4, <1>5, <1>6

\* Only a packet and a reset touch the video clock.
LEMMA ClockStep == TypeOK /\ ClockInv /\ [Next]_vars => ClockInv'
<1> SUFFICES ASSUME TypeOK, ClockInv, [Next]_vars PROVE ClockInv'
  OBVIOUS
<1>1. CASE VideoFeed
  <2>1. Translate(Head(rtpQueue).ts)
    BY <1>1 DEF VideoFeed
  <2> QED BY <2>1 DEF Translate, ClockInv
<1>2. CASE NewCall \/ Renewal
  BY <1>2 DEF NewCall, Renewal, Reset, ClockInv
<1>3. CASE Next /\ ~VideoFeed /\ ~(NewCall \/ Renewal)
  BY <1>3, OthersPace DEF ClockInv, videoClock
<1>4. CASE UNCHANGED vars
  BY <1>4 DEF ClockInv, vars, videoClock
<1> QED BY <1>1, <1>2, <1>3, <1>4

\* The steps that take no sequence number of the video.
LEMMA OthersSee ==
  ASSUME TypeOK, StreamsServed, Next,
         ~VideoFeed, ~(\E c \in Conns : Play(c)), ~(NewCall \/ Renewal)
  PROVE  /\ UNCHANGED <<seen, videoSeq, videoTs>> /\ Past \subseteq Past'
         /\ With("video")' \ closing' \subseteq With("video") \ closing
<1>t. conn \in [Conns -> {"none", "request", "streaming", "closed"}] /\ active \subseteq Conns
  BY DEF TypeOK, ServerTypes
<1>1. UNCHANGED seen /\ active' \subseteq active /\ \A c \in active : tracks'[c] = tracks[c]
  BY OthersPrime
<1>2. ASSUME NEW c \in Conns, ConnStep(c)
      PROVE  UNCHANGED <<videoSeq, videoTs>> /\ Past \subseteq Past' /\ closing \subseteq closing'
  <2>1. ASSUME NEW wanted, Setup(c, wanted)
        PROVE  UNCHANGED <<videoSeq, videoTs>> /\ Past \subseteq Past' /\ closing \subseteq closing'
    BY <1>t, <2>1 DEF Setup, Past, videoClock
  <2>2. CASE HandlerEnds(c) \/ PeerLost(c)
    BY <1>t, <2>2 DEF HandlerEnds, PeerLost, Past, videoClock
  <2> QED BY <1>2, <2>1, <2>2 DEF ConnStep
<1>3. ASSUME MarkReady \/ SessionEnds \/ StopStep
      PROVE  UNCHANGED <<videoSeq, videoTs, conn>> /\ closing \subseteq closing'
  BY <1>3 DEF MarkReady, SessionEnds, DisconnectClients, StopStep, StopBegins, StopCancels,
     StopReturns, connVars, videoClock
<1>4. ASSUME NEW k, NEW d, DeviceVideo(k, d)
      PROVE  UNCHANGED <<videoSeq, videoTs, conn, closing>>
  BY <1>4 DEF DeviceVideo, connVars, videoClock
<1>5. ASSUME AudioFeed \/ ReportFeed \/ Tick
      PROVE  UNCHANGED <<videoSeq, videoTs, conn, closing>>
  BY <1>5 DEF AudioFeed, ReportFeed, Tick, connVars, videoClock
<1>6. UNCHANGED <<videoSeq, videoTs>> /\ Past \subseteq Past' /\ closing \subseteq closing'
  BY <1>2, <1>3, <1>4, <1>5 DEF Next, CallStep, Past
<1> QED BY <1>t, <1>1, <1>6 DEF With

LEMMA PlaySees ==
  ASSUME TypeOK, StreamsServed, FewConns, SeenInv, NEW b \in Conns, Play(b)
  PROVE  SeenInv'
<1> DEFINE clients == {c \in {b} : "video" \in tracks[c]}
           n == Cardinality(clients)
<1>t. /\ conn \in [Conns -> {"none", "request", "streaming", "closed"}]
      /\ active \subseteq Conns /\ tracks \in [Conns -> SUBSET Tracks]
      /\ seen \in [Conns -> Packet \cup {None}] /\ videoSeq \in 0 .. NumMod - 1 /\ videoTs \in Stamps
  BY DEF TypeOK, ServerTypes, ClockTypes, HistoryTypes
<1>1. /\ conn[b] = "request" /\ active' \subseteq active \cup {b} /\ closing \subseteq closing'
      /\ b \in active' => closing' = closing
      /\ tracks' = tracks /\ videoTs' = videoTs
      /\ conn' \in {[conn EXCEPT ![b] = "streaming"], [conn EXCEPT ![b] = "closed"]}
  BY <1>t DEF Play, StreamsServed, videoClock
<1>2. PICK turn \in Bijection(clients, 1 .. n) :
        seen' = [c \in Conns |-> IF c \in clients \ closing
                                 THEN [seq |-> (videoSeq + 2 * turn[c] - 1) % NumMod, ts |-> videoTs]
                                 ELSE seen[c]]
  BY DEF Play, Prime
<1>3. videoSeq' = (videoSeq + 2 * n) % NumMod
  BY DEF Play, Prime
<1>4. Past' = Past \cup {b} /\ b \in Conns \ Past /\ Past \subseteq Conns
  BY <1>t, <1>1 DEF Past
<1>5. NumMod \in Nat \ {0} /\ 4 * Cardinality(Conns) < NumMod /\ Cardinality(Conns) \in Nat
      /\ 1 <= Cardinality(Conns)
  <2>1. Cardinality(Conns) = Cardinality(Conns \ {b}) + 1 /\ Cardinality(Conns \ {b}) \in Nat
    BY Counts
  <2> QED BY <2>1, Numbers DEF FewConns
<1>6. (n = 0 /\ b \notin clients) \/ (n = 1 /\ clients = {b})
  <2>1. clients = {} \/ clients = {b}
    OBVIOUS
  <2> HIDE DEF clients
  <2> QED BY ONLY <2>1, FS_EmptySet, FS_Singleton
<1>7. \A c \in Conns \ Past' : seen'[c] = None
  BY <1>2, <1>4 DEF SeenInv
<1>8. ASSUME NEW c \in With("video")' \ closing'
      PROVE  /\ seen'[c] \in Packet /\ seen'[c].ts = videoTs'
             /\ \E g \in 0 .. 2 * Cardinality(Past' \ {c}) : videoSeq' = (seen'[c].seq + (1 + g)) % NumMod
  <2>1. CASE c = b
    <3>1. b \in clients \ closing
      BY <1>1, <1>8, <2>1 DEF With
    <3>2. n = 1 /\ turn[b] = 1
      <4>1. n = 1
        BY <1>6, <3>1
      <4>2. turn[b] \in 1 .. n
        BY <1>2, <3>1 DEF Bijection, Injection
      <4> QED BY <4>1, <4>2
    <3>3. seen'[b] = [seq |-> (videoSeq + 1) % NumMod, ts |-> videoTs]
      <4>1. seen'[b] = [seq |-> (videoSeq + 2 * turn[b] - 1) % NumMod, ts |-> videoTs]
        BY <1>2, <3>1
      <4>2. videoSeq + 2 * 1 - 1 = videoSeq + 1
        BY <1>t
      <4> QED BY <3>2, <4>1, <4>2
    <3>4. (videoSeq + 1) % NumMod \in 0 .. NumMod - 1
      BY <1>t, SeqMod, videoSeq + 1 \in Int
    <3>5. (((videoSeq + 1) % NumMod) + 1) % NumMod = (videoSeq + (1 + 1)) % NumMod
      BY <1>t, <1>5, ModSteps
    <3>6. videoSeq' = (seen'[b].seq + (1 + 0)) % NumMod
      BY <1>3, <3>2, <3>3, <3>5
    <3>7. 0 \in 0 .. 2 * Cardinality(Past' \ {c})
      BY <1>4, Counts
    <3> QED BY <1>1, <1>t, <2>1, <3>3, <3>4, <3>6, <3>7 DEF Packet
  <2>2. CASE c # b
    <3>1. c \in With("video") \ closing
      BY <1>1, <1>8, <2>2 DEF With
    <3>2. c \in Conns /\ seen'[c] = seen[c] /\ seen[c] \in Packet /\ seen[c].ts = videoTs
      BY <1>t, <1>2, <2>2, <3>1 DEF SeenInv, With
    <3>3. PICK g \in 0 .. 2 * Cardinality(Past \ {c}) : videoSeq = (seen[c].seq + (1 + g)) % NumMod
      BY <3>1 DEF SeenInv
    <3>4. /\ Cardinality(Past' \ {c}) = Cardinality(Past \ {c}) + 1
          /\ Cardinality(Past' \ {c}) < Cardinality(Conns)
          /\ Cardinality(Past \ {c}) \in Nat
      <4>1. Past' \ {c} = (Past \ {c}) \cup {b} /\ b \in Conns \ (Past \ {c})
        BY <1>4, <2>2
      <4>2. Past' \ {c} \subseteq Conns \ {c} /\ Cardinality(Conns) = Cardinality(Conns \ {c}) + 1
        BY <1>4, <3>2, Counts
      <4>3. Cardinality(Past' \ {c}) <= Cardinality(Conns \ {c})
        BY <4>2, Counts
      <4>4. Past \ {c} \in SUBSET Conns /\ Conns \ {c} \in SUBSET Conns
        BY <1>4
      <4>5. /\ Cardinality(Past \ {c}) \in Nat /\ Cardinality(Conns \ {c}) \in Nat
            /\ Cardinality((Past \ {c}) \cup {b}) = Cardinality(Past \ {c}) + 1
        BY ONLY <4>1, <4>4, Counts, FewConns
      <4>6. Cardinality(Past' \ {c}) = Cardinality(Past \ {c}) + 1
        BY ONLY <4>1, <4>5
      <4> HIDE DEF n
      <4> QED BY ONLY <1>5, <4>2, <4>3, <4>5, <4>6
    <3>5. g \in Nat /\ 2 * n \in Nat /\ 2 * n <= 2 /\ (1 + g) + 2 * n < NumMod
          /\ g + 2 * n \in 0 .. 2 * Cardinality(Past' \ {c})
      <4> HIDE DEF n
      <4>1. n \in {0, 1} /\ g \in Nat /\ g <= 2 * Cardinality(Past \ {c})
        BY ONLY <1>6, <3>3, <3>4
      <4> QED BY ONLY <1>5, <3>4, <4>1
    <3>6. seen[c].seq \in 0 .. NumMod - 1
      BY <3>2 DEF Packet
    <3> HIDE DEF n
    <3>7. videoSeq' = (seen[c].seq + ((1 + g) + 2 * n)) % NumMod
      <4>1. 1 + g \in Nat
        BY <3>5
      <4> QED BY ONLY <1>3, <1>5, <3>3, <3>5, <3>6, <4>1, ModSteps
    <3>8. (1 + g) + 2 * n = 1 + (g + 2 * n)
      BY <3>5
    <3>9. videoSeq' = (seen'[c].seq + (1 + (g + 2 * n))) % NumMod
      BY ONLY <3>2, <3>7, <3>8
    <3> QED BY <1>1, <3>2, <3>5, <3>9
  <2> QED BY <2>1, <2>2
<1>9. \A c \in (Conns \ Past)' : seen'[c] = None
  BY <1>7 DEF Past
<1> QED BY <1>8, <1>9 DEF SeenInv

\* What a reset sends to each client: its turn says which numbers it takes.
LEMMA ResetSends ==
  ASSUME TypeOK, StreamsServed, FewConns, Reset, NEW c \in With("video") \ closing
  PROVE  \E n \in Nat : \E k \in 1 .. n :
           /\ n <= Cardinality(Conns) /\ n - 1 <= Cardinality(Past \ {c})
           /\ videoSeq' = (videoSeq + 2 * n) % NumMod
           /\ seen'[c] = [seq |-> (videoSeq + (2 * k - 1)) % NumMod, ts |-> videoTs']
<1> DEFINE clients == {b \in active : "video" \in tracks[b]}
           n == Cardinality(clients)
<1>t. /\ conn \in [Conns -> {"none", "request", "streaming", "closed"}] /\ active \subseteq Conns
      /\ videoSeq \in 0 .. NumMod - 1
  BY DEF TypeOK, ServerTypes, ClockTypes
<1>1. PICK turn \in Bijection(clients, 1 .. n) :
        seen' = [b \in Conns |-> IF b \in clients \ closing
                                 THEN [seq |-> (videoSeq + 2 * turn[b] - 1) % NumMod, ts |-> videoTs']
                                 ELSE seen[b]]
  BY DEF Reset, Prime
<1>2. videoSeq' = (videoSeq + 2 * n) % NumMod
  BY DEF Reset, Prime
<1>3. c \in clients \ closing /\ c \in Conns /\ turn[c] \in 1 .. n
  BY <1>t, <1>1 DEF With, Bijection, Injection
<1>4. clients \in SUBSET Conns /\ clients \ {c} \in SUBSET (Past \ {c}) /\ Past \ {c} \in SUBSET Conns
  BY <1>t DEF StreamsServed, Past
<1>5. n \in Nat /\ n <= Cardinality(Conns)
  BY <1>4, Counts
<1>6. n - 1 <= Cardinality(Past \ {c})
  <2> HIDE DEF clients
  <2>1. /\ Cardinality(clients) = Cardinality(clients \ {c}) + 1
        /\ Cardinality(clients \ {c}) <= Cardinality(Past \ {c})
        /\ Cardinality(clients \ {c}) \in Nat /\ Cardinality(Past \ {c}) \in Nat
    <3>1. clients \ {c} \in SUBSET Conns
      BY <1>4
    <3> QED BY ONLY <1>3, <1>4, <3>1, Counts, FewConns
  <2> QED BY ONLY <2>1
<1>7. seen'[c] = [seq |-> (videoSeq + 2 * turn[c] - 1) % NumMod, ts |-> videoTs']
  BY <1>1, <1>3
<1> HIDE DEF n
<1>8. videoSeq + 2 * turn[c] - 1 = videoSeq + (2 * turn[c] - 1)
  BY <1>t, <1>3, <1>5
<1> QED BY <1>2, <1>3, <1>5, <1>6, <1>7, <1>8

LEMMA ResetSees ==
  ASSUME TypeOK, TypeOK', StreamsServed, FewConns, SeenInv, Reset
  PROVE  SeenInv'
<1>t. /\ conn \in [Conns -> {"none", "request", "streaming", "closed"}] /\ active \subseteq Conns
      /\ videoSeq \in 0 .. NumMod - 1 /\ videoTs' \in Stamps
  BY DEF TypeOK, ServerTypes, ClockTypes
<1>1. UNCHANGED <<conn, active, closing, tracks>>
  BY DEF Reset, serverVars, connVars
<1>2. Past' = Past /\ With("video")' = With("video")
  BY <1>1 DEF Past, With
<1>3. \A c \in Conns \ Past : seen'[c] = None
  BY <1>t DEF Reset, Prime, SeenInv, StreamsServed, Past
<1>4. NumMod \in Nat \ {0} /\ 4 * Cardinality(Conns) < NumMod /\ Cardinality(Conns) \in Nat
  BY Counts, Numbers DEF FewConns
<1>5. ASSUME NEW c \in With("video") \ closing
      PROVE  /\ seen'[c] \in Packet /\ seen'[c].ts = videoTs'
             /\ \E g \in 0 .. 2 * Cardinality(Past \ {c}) : videoSeq' = (seen'[c].seq + (1 + g)) % NumMod
  <2>0. PICK n \in Nat : \E k \in 1 .. n :
           /\ n <= Cardinality(Conns) /\ n - 1 <= Cardinality(Past \ {c})
           /\ videoSeq' = (videoSeq + 2 * n) % NumMod
           /\ seen'[c] = [seq |-> (videoSeq + (2 * k - 1)) % NumMod, ts |-> videoTs']
    BY ResetSends
  <2>1. PICK k \in 1 .. n :
           /\ n <= Cardinality(Conns) /\ n - 1 <= Cardinality(Past \ {c})
           /\ videoSeq' = (videoSeq + 2 * n) % NumMod
           /\ seen'[c] = [seq |-> (videoSeq + (2 * k - 1)) % NumMod, ts |-> videoTs']
    BY <2>0
  <2>2. Cardinality(Past \ {c}) \in Nat
    <3>1. Past \ {c} \in SUBSET Conns
      BY DEF Past
    <3> QED BY <3>1, Counts
  <2> DEFINE d == 2 * k - 1
             g == 2 * (n - k)
  <2>3. /\ d \in Nat /\ g \in Nat /\ 1 + g \in Nat /\ d + (1 + g) = 2 * n /\ d + (1 + g) < NumMod
        /\ g \in 0 .. 2 * Cardinality(Past \ {c}) /\ videoSeq + d \in Int
    BY ONLY <1>t, <1>4, <2>1, <2>2
  <2>s. seen'[c] = [seq |-> (videoSeq + d) % NumMod, ts |-> videoTs']
    BY <2>1
  <2> HIDE DEF d, g
  <2>4. (((videoSeq + d) % NumMod) + (1 + g)) % NumMod = (videoSeq + (d + (1 + g))) % NumMod
    <3>1. NumMod \in Nat \ {0} /\ videoSeq \in 0 .. NumMod - 1
      BY <1>t, <1>4
    <3>2. d \in Nat /\ 1 + g \in Nat /\ d + (1 + g) < NumMod
      BY <2>3
    <3> QED BY ONLY <3>1, <3>2, ModSteps
  <2>5. (videoSeq + d) % NumMod \in 0 .. NumMod - 1
    BY <2>3, SeqMod
  <2>6. videoSeq' = (seen'[c].seq + (1 + g)) % NumMod
    BY ONLY <2>1, <2>3, <2>4, <2>s
  <2> QED BY <1>t, <2>3, <2>5, <2>6, <2>s DEF Packet
<1> QED BY <1>1, <1>2, <1>3, <1>5 DEF SeenInv

LEMMA FeedSees ==
  ASSUME TypeOK, TypeOK', StreamsServed, FewConns, SeenInv, VideoFeed
  PROVE  SeenInv'
<1>t. /\ conn \in [Conns -> {"none", "request", "streaming", "closed"}] /\ active \subseteq Conns
      /\ videoSeq \in 0 .. NumMod - 1 /\ videoTs' \in Stamps
  BY DEF TypeOK, ServerTypes, ClockTypes
<1>1. /\ UNCHANGED <<conn, closing, tracks>> /\ active' \subseteq active
      /\ seen' = Received(seen, "video", [seq |-> videoSeq, ts |-> videoTs'])
      /\ videoSeq' = (videoSeq + (1 + 0)) % NumMod
  BY <1>t DEF VideoFeed, DropDead, connVars
<1>2. Past' = Past /\ With("video")' \subseteq With("video")
  BY <1>1 DEF Past, With
<1>3. \A c \in Conns \ Past : seen'[c] = None
  BY <1>t, <1>1 DEF Received, With, SeenInv, StreamsServed, Past
<1>4. ASSUME NEW c \in With("video") \ closing
      PROVE  /\ seen'[c] = [seq |-> videoSeq, ts |-> videoTs']
             /\ 0 \in 0 .. 2 * Cardinality(Past \ {c})
  <2>1. Cardinality(Past \ {c}) \in Nat
    <3>1. Past \ {c} \in SUBSET Conns
      BY DEF Past
    <3> QED BY <3>1, Counts
  <2> QED BY <1>t, <1>1, <2>1 DEF Received, With
<1>5. ASSUME NEW c \in With("video")' \ closing'
      PROVE  /\ seen'[c] \in Packet /\ seen'[c].ts = videoTs'
             /\ \E g \in 0 .. 2 * Cardinality(Past' \ {c}) : videoSeq' = (seen'[c].seq + (1 + g)) % NumMod
  <2>1. c \in With("video") \ closing
    BY <1>1, <1>2
  <2>2. seen'[c] = [seq |-> videoSeq, ts |-> videoTs'] /\ 0 \in 0 .. 2 * Cardinality(Past' \ {c})
    BY <1>2, <1>4, <2>1
  <2>3. seen'[c] \in Packet /\ seen'[c].ts = videoTs' /\ seen'[c].seq = videoSeq
    BY <1>t, <2>2 DEF Packet
  <2> QED BY ONLY <1>1, <2>2, <2>3
<1>6. \A c \in Conns \ Past' : seen'[c] = None
  BY <1>2, <1>3
<1> QED BY <1>5, <1>6 DEF SeenInv, Past

LEMMA SeenStep ==
  TypeOK /\ TypeOK' /\ StreamsServed /\ FewConns /\ SeenInv /\ [Next]_vars => SeenInv'
<1> SUFFICES ASSUME TypeOK, TypeOK', StreamsServed, FewConns, SeenInv, [Next]_vars PROVE SeenInv'
  OBVIOUS
<1>1. CASE \E b \in Conns : Play(b)
  BY <1>1, PlaySees
<1>2. CASE NewCall \/ Renewal
  BY <1>2, ResetSees DEF NewCall, Renewal
<1>3. CASE VideoFeed
  BY <1>3, FeedSees
<1>4. CASE Next /\ ~VideoFeed /\ ~(\E c \in Conns : Play(c)) /\ ~(NewCall \/ Renewal)
  <2>1. /\ UNCHANGED <<seen, videoSeq, videoTs>> /\ Past \subseteq Past'
        /\ With("video")' \ closing' \subseteq With("video") \ closing
    BY <1>4, OthersSee
  <2>2. \A c \in Conns : /\ Cardinality(Past \ {c}) <= Cardinality(Past' \ {c})
                         /\ Cardinality(Past \ {c}) \in Nat /\ Cardinality(Past' \ {c}) \in Nat
    <3> SUFFICES ASSUME NEW c \in Conns
                 PROVE  /\ Cardinality(Past \ {c}) <= Cardinality(Past' \ {c})
                        /\ Cardinality(Past \ {c}) \in Nat /\ Cardinality(Past' \ {c}) \in Nat
      OBVIOUS
    <3>1. Past' \ {c} \in SUBSET Conns /\ Past \ {c} \in SUBSET (Past' \ {c}) /\ Past \ {c} \in SUBSET Conns
      BY <2>1 DEF Past
    <3> QED BY ONLY <3>1, Counts, FewConns
  <2>3. With("video") \subseteq Conns
    BY DEF With, TypeOK, ServerTypes
  <2>4. \A c \in With("video") \ closing :
          \E g \in 0 .. 2 * Cardinality(Past' \ {c}) : videoSeq = (seen[c].seq + (1 + g)) % NumMod
    <3> SUFFICES ASSUME NEW c \in With("video") \ closing
                 PROVE  \E g \in 0 .. 2 * Cardinality(Past' \ {c}) : videoSeq = (seen[c].seq + (1 + g)) % NumMod
      OBVIOUS
    <3>1. PICK g \in 0 .. 2 * Cardinality(Past \ {c}) : videoSeq = (seen[c].seq + (1 + g)) % NumMod
      BY DEF SeenInv
    <3>2. /\ Cardinality(Past \ {c}) <= Cardinality(Past' \ {c})
          /\ Cardinality(Past \ {c}) \in Nat /\ Cardinality(Past' \ {c}) \in Nat
      BY <2>2, <2>3
    <3>3. g \in 0 .. 2 * Cardinality(Past' \ {c})
      BY ONLY <3>1, <3>2
    <3> QED BY <3>1, <3>3
  <2>5. Conns \ Past' \subseteq Conns \ Past
    BY <2>1
  <2> QED BY <2>1, <2>4, <2>5 DEF SeenInv
<1>5. CASE UNCHANGED vars
  BY <1>5 DEF SeenInv, Past, With, vars, serverVars, connVars, videoClock, history
<1> QED BY <1>1, <1>2, <1>3, <1>4, <1>5

LEMMA SameStamp ==
  ASSUME NEW n \in Nat \ {0}, NEW x \in 0 .. n - 1, NEW y \in 0 .. n - 1, (x - y) % n = 0
  PROVE  x = y
<1>1. (x - y) % n = IF x - y < 0 THEN x - y + n ELSE x - y
  OBVIOUS
<1> QED BY <1>1

\* A translated packet keeps the time or goes forward.
LEMMA TranslatedForward ==
  ASSUME TypeOK, ClockInv, NEW t \in Stamps, Translate(t)
  PROVE  videoTs' = videoTs \/ Ahead(videoTs', videoTs, TsMod)
<1> DEFINE forward == (t - lastDevice) % TsMod
<1>t. /\ videoTs \in 0 .. TsMod - 1 /\ videoTs \in Stamps /\ offset \in Stamps
      /\ lastDevice \in Stamps \cup {None} /\ rebase \in BOOLEAN
      /\ TsMod \in Nat \ {0} /\ Half \in Nat \ {0} /\ Half = TsMod \div 2
  BY Numbers DEF TypeOK, ClockTypes, Stamps, Half
<1>1. CASE lastDevice = None \/ rebase \/ forward > Half
  <2>1. videoTs' = (t + ((videoTs + 1 - t) % TsMod)) % TsMod
    BY <1>1 DEF Translate
  <2>2. videoTs' = (videoTs + 1) % TsMod /\ 1 \in 1 .. TsMod \div 2
    BY <1>t, <2>1, RebaseMoves
  <2> QED BY ONLY <1>t, <2>2, MovedAhead
<1>2. CASE ~(lastDevice = None \/ rebase \/ forward > Half)
  <2>1. /\ videoTs' = (t + offset) % TsMod /\ videoTs = (lastDevice + offset) % TsMod
        /\ lastDevice \in Stamps
    BY <1>2, <1>t DEF Translate, ClockInv
  <2>2. (((t + offset) % TsMod) - ((lastDevice + offset) % TsMod)) % TsMod = forward
    BY ONLY <1>t, <2>1, t \in Stamps, OffsetKeepsPace
  <2>3. (videoTs' - videoTs) % TsMod = forward
    BY ONLY <2>1, <2>2, Zenon
  <2>4. videoTs' \in 0 .. TsMod - 1
    <3>1. t + offset \in Int
      BY <1>t DEF Stamps
    <3> QED BY <1>t, <2>1, <3>1, ModType
  <2>5. forward \in 0 .. TsMod - 1
    <3>1. t - lastDevice \in Int
      BY <2>1 DEF Stamps
    <3> QED BY <1>t, <3>1, ModType
  <2>6. ~(forward > Half)
    BY <1>2
  <2> HIDE DEF forward
  <2>8. forward = 0 => videoTs' = videoTs
    <3>1. TsMod \in Nat \ {0} /\ videoTs \in 0 .. TsMod - 1
      BY <1>t
    <3> QED BY ONLY <2>3, <2>4, <3>1, SameStamp
  <2>9. forward # 0 => forward \in 1 .. TsMod \div 2
    BY ONLY <1>t, <2>5, <2>6
  <2> QED BY ONLY <2>3, <2>8, <2>9 DEF Ahead
<1> QED BY <1>1, <1>2

LEMMA VideoForwardStep ==
  TypeOK /\ TypeOK' /\ StreamsServed /\ FewConns /\ ClockInv /\ SeenInv /\ [Next]_vars
  => [\A c \in Conns : seen'[c] # seen[c] /\ seen[c] # None
       => /\ Ahead(seen'[c].seq, seen[c].seq, NumMod)
          /\ ClocksNear \/ resets' = resets
               => seen'[c].ts = seen[c].ts \/ Ahead(seen'[c].ts, seen[c].ts, TsMod)]_vars
<1> SUFFICES ASSUME TypeOK, TypeOK', StreamsServed, FewConns, ClockInv, SeenInv, Next,
                    NEW c \in Conns, seen'[c] # seen[c], seen[c] # None
             PROVE  /\ Ahead(seen'[c].seq, seen[c].seq, NumMod)
                    /\ ClocksNear \/ resets' = resets
                         => seen'[c].ts = seen[c].ts \/ Ahead(seen'[c].ts, seen[c].ts, TsMod)
  BY Zenon
<1>t. /\ videoTs \in 0 .. TsMod - 1 /\ videoTs' \in 0 .. TsMod - 1
      /\ TsMod \in Nat \ {0} /\ Half = TsMod \div 2 /\ active \subseteq Conns
  BY Numbers DEF TypeOK, ServerTypes, ClockTypes, Stamps, Half
<1>n. /\ NumMod \in Nat \ {0} /\ Cardinality(Conns) \in Nat /\ 4 * Cardinality(Conns) <= NumMod \div 2
      /\ NumMod \div 2 \in Nat /\ NumMod \div 2 < NumMod
  BY Counts, Numbers DEF FewConns
<1>p. Cardinality(Past \ {c}) \in Nat /\ Cardinality(Past \ {c}) < Cardinality(Conns)
  <2>1. Conns \in SUBSET Conns /\ Conns \ {c} \in SUBSET Conns /\ Past \ {c} \in SUBSET (Conns \ {c})
        /\ Past \ {c} \in SUBSET Conns
    BY DEF Past
  <2>2. /\ Cardinality(Conns) = Cardinality(Conns \ {c}) + 1
        /\ Cardinality(Past \ {c}) <= Cardinality(Conns \ {c})
        /\ Cardinality(Past \ {c}) \in Nat /\ Cardinality(Conns \ {c}) \in Nat
    BY ONLY <2>1, Counts, FewConns, c \in Conns
  <2> QED BY ONLY <2>2, <1>n
<1>1. CASE VideoFeed
  <2>1. /\ c \in With("video") \ closing
        /\ seen'[c] = [seq |-> videoSeq, ts |-> videoTs']
    BY <1>1 DEF VideoFeed, Received
  <2>2. seen[c] \in Packet /\ seen[c].ts = videoTs
    BY <2>1 DEF SeenInv
  <2>3. PICK g \in 0 .. 2 * Cardinality(Past \ {c}) : videoSeq = (seen[c].seq + (1 + g)) % NumMod
    BY <2>1 DEF SeenInv
  <2>4. Ahead(seen'[c].seq, seen[c].seq, NumMod)
    <3>1. 1 + g \in 1 .. NumMod \div 2
      BY ONLY <1>n, <1>p, <2>3
    <3>2. seen[c].seq \in 0 .. NumMod - 1
      BY <2>2 DEF Packet
    <3>3. Ahead((seen[c].seq + (1 + g)) % NumMod, seen[c].seq, NumMod)
      BY ONLY <1>n, <3>1, <3>2, MovedAhead
    <3>4. seen'[c].seq = (seen[c].seq + (1 + g)) % NumMod
      BY <2>1, <2>3
    <3> QED BY ONLY <3>3, <3>4, Zenon
  <2>5. Head(rtpQueue).ts \in Stamps /\ Translate(Head(rtpQueue).ts)
    BY <1>1, QueueHead DEF VideoFeed
  <2>6. videoTs' = videoTs \/ Ahead(videoTs', videoTs, TsMod)
    BY <2>5, TranslatedForward
  <2>7. seen'[c].ts = videoTs'
    BY <2>1
  <2> QED BY <2>2, <2>4, <2>6, <2>7, Zenon
<1>2. CASE NewCall \/ Renewal
  <2>1. Reset
    BY <1>2 DEF NewCall, Renewal
  <2>2. c \in With("video") \ closing
    BY <2>1 DEF Reset, Prime, With
  <2>3. seen[c] \in Packet /\ seen[c].ts = videoTs
    BY <2>2 DEF SeenInv
  <2>4. PICK g \in 0 .. 2 * Cardinality(Past \ {c}) : videoSeq = (seen[c].seq + (1 + g)) % NumMod
    BY <2>2 DEF SeenInv
  <2>5. PICK n \in Nat : \E k \in 1 .. n :
           /\ n <= Cardinality(Conns) /\ n - 1 <= Cardinality(Past \ {c})
           /\ videoSeq' = (videoSeq + 2 * n) % NumMod
           /\ seen'[c] = [seq |-> (videoSeq + (2 * k - 1)) % NumMod, ts |-> videoTs']
    BY <2>1, <2>2, ResetSends
  <2>6. PICK k \in 1 .. n :
           /\ n <= Cardinality(Conns)
           /\ seen'[c] = [seq |-> (videoSeq + (2 * k - 1)) % NumMod, ts |-> videoTs']
    BY <2>5
  <2>7. Ahead(seen'[c].seq, seen[c].seq, NumMod)
    <3> DEFINE d == 1 + g
               e == 2 * k - 1
    <3>1. d \in Nat /\ e \in Nat /\ d + e \in 1 .. NumMod \div 2 /\ d + e < NumMod
      BY ONLY <1>n, <1>p, <2>4, <2>5, <2>6
    <3>2. seen[c].seq \in 0 .. NumMod - 1
      BY <2>3 DEF Packet
    <3>3. videoSeq = (seen[c].seq + d) % NumMod /\ seen'[c].seq = (videoSeq + e) % NumMod
      BY <2>4, <2>6
    <3> HIDE DEF d, e
    <3>4. (((seen[c].seq + d) % NumMod) + e) % NumMod = (seen[c].seq + (d + e)) % NumMod
      BY ONLY <1>n, <3>1, <3>2, ModSteps
    <3>5. Ahead((seen[c].seq + (d + e)) % NumMod, seen[c].seq, NumMod)
      BY ONLY <1>n, <3>1, <3>2, MovedAhead
    <3>6. seen'[c].seq = (seen[c].seq + (d + e)) % NumMod
      BY ONLY <3>3, <3>4, Zenon
    <3> QED BY ONLY <3>5, <3>6, Zenon
  <2>8. ClocksNear \/ resets' = resets => videoTs' = videoTs \/ Ahead(videoTs', videoTs, TsMod)
    <3> SUFFICES ASSUME ClocksNear \/ resets' = resets
                 PROVE  videoTs' = videoTs \/ Ahead(videoTs', videoTs, TsMod)
      OBVIOUS
    <3>0. ClocksNear
      BY <2>1, Counts DEF Reset, TypeOK, CallTypes
    <3>1. CASE AudioClock90k > videoTs
      <4>1. videoTs' = AudioClock90k
        BY <2>1, <3>1 DEF Reset
      <4>2. videoTs' - videoTs \in 1 .. TsMod \div 2
        BY <1>t, <3>0, <3>1, <4>1 DEF ClocksNear
      <4>3. (videoTs' - videoTs) % TsMod = videoTs' - videoTs
        <5> DEFINE x == videoTs' - videoTs
        <5>0. x \in 1 .. TsMod \div 2
          BY <4>2
        <5> HIDE DEF x
        <5>1. x \in 0 .. TsMod - 1 /\ TsMod \in Nat \ {0}
          BY <1>t, <5>0
        <5>2. x % TsMod = x
          BY ONLY <5>1
        <5> QED BY <5>2 DEF x
      <4> QED BY ONLY <4>2, <4>3 DEF Ahead
    <3>2. CASE ~(AudioClock90k > videoTs)
      BY <2>1, <3>2 DEF Reset
    <3> QED BY <3>1, <3>2
  <2>9. seen'[c].ts = videoTs'
    BY <2>6
  <2> QED BY <2>3, <2>7, <2>8, <2>9, Zenon
<1>3. CASE \E b \in Conns : Play(b)
  <2>1. PICK b \in Conns : Play(b)
    BY <1>3
  <2>2. c = b
    BY <2>1 DEF Play, Prime
  <2>3. conn[c] = "request"
    BY <2>1, <2>2 DEF Play
  <2> QED BY <2>3 DEF SeenInv, Past
<1> QED BY <1>1, <1>2, <1>3, OthersSee

\* What a client that stays connected sees does not go back, in sequence numbers and, but for
\* a reset after the audio clock ran away from the video clock, in time, over calls, renewals,
\* restarts of the device's clock, packets out of order and packets of two calls, as long as
\* the server has no more than 8192 connections.
THEOREM VideoRight == ASSUME FewConns PROVE Spec => VideoForward
<1>1. Init => ClockInv /\ SeenInv
  BY DEF Init, ClockInv, SeenInv, With, Past
<1>2. FewConns
  OBVIOUS
<1>3. TypeOK /\ TypeOK' /\ StreamsServed /\ SeenInv /\ [Next]_vars => SeenInv'
  BY <1>2, SeenStep
<1>4. TypeOK /\ TypeOK' /\ StreamsServed /\ ClockInv /\ SeenInv /\ [Next]_vars
      => [\A c \in Conns : seen'[c] # seen[c] /\ seen[c] # None
           => /\ Ahead(seen'[c].seq, seen[c].seq, NumMod)
              /\ ClocksNear \/ resets' = resets
                   => seen'[c].ts = seen[c].ts \/ Ahead(seen'[c].ts, seen[c].ts, TsMod)]_vars
  BY <1>2, VideoForwardStep
<1> QED
  BY <1>1, <1>3, <1>4, TypeCorrect, StreamsRight, ClockStep, PTL DEF Spec, VideoForward
=============================================================================
