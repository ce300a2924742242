-------------------------- MODULE CoordinatorProofs --------------------------
(* Proofs about Coordinator, for every pool of tasks, sessions, listeners,    *)
(* clients and rings.                                                         *)
EXTENDS Coordinator, TLAPS

USE ConstantsAssumption DEF Starts, Ops, StopPCs, ReconnectPCs, NegotiationPCs,
  PCs, Phases
-----------------------------------------------------------------------------
(* Typing of the helpers the actions are built from *)

LEMMA SetTypes ==
  ASSUME TaskTypes, NEW t \in Tasks, NEW o \in Ops, NEW p \in PCs,
         NEW s \in Sessions \cup {None}, NEW r \in Rings \cup {None},
         Set(t, o, p, s, r)
  PROVE  TaskTypes'
BY DEF TaskTypes, Set

LEMMA GotoTypes ==
  ASSUME TaskTypes, NEW t \in Tasks, NEW p \in PCs, Goto(t, p)
  PROVE  TaskTypes'
BY DEF TaskTypes, Goto

LEMMA FinishTypes ==
  ASSUME TaskTypes, NEW t \in Tasks, Finish(t)
  PROVE  TaskTypes'
BY DEF TaskTypes, Finish, Set

LEMMA SpawnTypes ==
  ASSUME TaskTypes, NEW o \in Ops, NEW r \in Rings \cup {None}, Spawn(o, r)
  PROVE  TaskTypes'
BY DEF TaskTypes, Spawn, Set

LEMMA CleanupStartsTypes ==
  ASSUME SessionTypes, NEW s, CleanupStarts(s)
  PROVE  SessionTypes'
BY DEF SessionTypes, CleanupStarts

LEMMA LeftTypes ==
  ASSUME LinkTypes, NEW s
  PROVE  /\ MediaLeft(s) \in [Clients -> Sessions \cup {None}]
         /\ CtppLeft(s) \in SUBSET Clients
BY DEF LinkTypes, MediaLeft, CtppLeft

LEMMA RemoveChannelsTypes ==
  ASSUME LinkTypes, NEW s, RemoveChannels(s)
  PROVE  LinkTypes'
BY DEF LinkTypes, RemoveChannels, MediaLeft, CtppLeft

LEMMA ConsumeTypes ==
  ASSUME LinkTypes, NEW c, \E f \in Frames : HeadOf(c, f), Consume(c)
  PROVE  LinkTypes'
<1>1. ctpp' \in [Clients -> Seq(Frames)]
  <2>1. CASE c \in Clients
    <3>1. ctpp[c] \in Seq(Frames) /\ ctpp[c] # <<>>
      BY <2>1 DEF LinkTypes, HeadOf
    <3>2. Tail(ctpp[c]) \in Seq(Frames)
      BY <3>1
    <3> QED BY <3>2 DEF LinkTypes, Consume
  <2>2. CASE c \notin Clients
    BY <2>2 DEF LinkTypes, Consume
  <2> QED BY <2>1, <2>2
<1> QED BY <1>1 DEF LinkTypes, Consume

LEMMA CountTypes ==
  ASSUME HistoryTypes, NEW r
  PROVE  /\ MissedCall(r) => missed' \in [Rings -> Nat]
         /\ AnnounceRing(r) => announced' \in [Rings -> Nat]
BY DEF HistoryTypes, MissedCall, AnnounceRing

LEMMA StartListenerTypes ==
  ASSUME ListenerTypes, NEW c \in Clients \cup {None}, StartListener(c)
  PROVE  ListenerTypes'
BY DEF ListenerTypes, StartListener

LEMMA CancelListenerTypes ==
  ASSUME ListenerTypes, CancelListener
  PROVE  ListenerTypes'
BY DEF ListenerTypes, CancelListener

LEMMA EnsureVipListenerTypes ==
  ASSUME ListenerTypes, LinkTypes, NEW open, EnsureVipListener(open)
  PROVE  ListenerTypes'
BY StartListenerTypes DEF ListenerTypes, LinkTypes, EnsureVipListener, listenerVars

LEMMA TakeSessionTypes ==
  ASSUME TaskTypes, SlotTypes, RingTypes, HistoryTypes,
         NEW t \in Tasks, NEW o \in Ops, TakeSession(t, o)
  PROVE  /\ TaskTypes' /\ session' = None /\ ready' = FALSE
         /\ pending' = None /\ missed' \in [Rings -> Nat]
<1>1. TaskTypes'
  BY SetTypes DEF TakeSession, TaskTypes, SlotTypes
<1>2. missed' \in [Rings -> Nat]
  BY DEF TakeSession, HistoryTypes, RingTypes, MissedCall
<1> QED BY <1>1, <1>2 DEF TakeSession

LEMMA CreateSessionTypes ==
  ASSUME TaskTypes, SessionTypes, LinkTypes,
         NEW t \in Tasks, NEW o \in Ops, CreateSession(t, o)
  PROVE  TaskTypes' /\ SessionTypes' /\ LinkTypes'
<1> DEFINE doomed == client = None \/ (o = "inbound" /\ client \notin ctppOpen)
<1>1. PICK s \in Sessions :
       /\ phase' = [phase EXCEPT ![s] = IF doomed THEN "ended" ELSE "negotiating"]
       /\ on' = [on EXCEPT ![s] = client]
       /\ owns' = IF doomed \/ client \in ctppOpen THEN owns \ {s} ELSE owns \cup {s}
       /\ media' = IF doomed THEN media ELSE [media EXCEPT ![client] = s]
       /\ Set(t, o, IF doomed THEN "failing" ELSE "negotiating", s, ring[t])
       /\ UNCHANGED <<timer, client, connected, ctppOpen, ctpp>>
  BY DEF CreateSession
<1>2. TaskTypes'
  BY <1>1, SetTypes, ring[t] \in Rings \cup {None} DEF TaskTypes
<1>3. SessionTypes'
  BY <1>1 DEF SessionTypes, LinkTypes
<1>4. LinkTypes'
  BY <1>1 DEF LinkTypes
<1> QED BY <1>2, <1>3, <1>4

LEMMA PauseOrCreateTypes ==
  ASSUME TypeOK, NEW t \in Tasks, NEW o \in Ops, PauseOrCreate(t, o)
  PROVE  TaskTypes' /\ SessionTypes' /\ LinkTypes' /\ ListenerTypes'
<1>1. CASE /\ CancelListener /\ Set(t, o, "pausing", None, ring[t])
           /\ UNCHANGED <<sessionVars, linkVars>>
  <2>1. TaskTypes'
    BY <1>1, SetTypes, ring[t] \in Rings \cup {None} DEF TypeOK, TaskTypes
  <2> QED
    BY <1>1, <2>1, CancelListenerTypes
    DEF TypeOK, SessionTypes, LinkTypes, sessionVars, linkVars
<1>2. CASE CreateSession(t, o) /\ UNCHANGED listenerVars
  BY <1>2, CreateSessionTypes DEF TypeOK, ListenerTypes, listenerVars
<1> QED BY <1>1, <1>2 DEF PauseOrCreate

LEMMA LockedStartTypes ==
  ASSUME TypeOK, NEW t \in Tasks, NEW o \in Ops, LockedStart(t, o)
  PROVE  /\ TaskTypes' /\ SessionTypes' /\ LinkTypes' /\ ListenerTypes'
         /\ RingTypes' /\ missed' \in [Rings -> Nat]
         /\ session' \in Sessions \cup {None} /\ ready' \in BOOLEAN
         /\ stopped' = FALSE
<1>1. CASE /\ TakeSession(t, o)
           /\ UNCHANGED <<sessionVars, listenerVars, linkVars, recent, lastRing, answered>>
  BY <1>1, TakeSessionTypes
  DEF TypeOK, LockedStart, SessionTypes, LinkTypes, ListenerTypes, RingTypes,
      sessionVars, listenerVars, linkVars
<1>2. CASE /\ PauseOrCreate(t, o)
           /\ UNCHANGED <<session, ready, ringVars, missed>>
  BY <1>2, PauseOrCreateTypes
  DEF TypeOK, LockedStart, SlotTypes, RingTypes, HistoryTypes, ringVars
<1> QED BY <1>1, <1>2 DEF LockedStart

LEMMA StopVideoTypes ==
  ASSUME TypeOK, NEW t \in Tasks, StopVideo(t), stopped' \in BOOLEAN
  PROVE  TypeOK'
<1>1. TaskTypes'
  BY TakeSessionTypes, FinishTypes DEF TypeOK, StopVideo
<1>2. /\ session' \in Sessions \cup {None} /\ ready' \in BOOLEAN
      /\ missed' \in [Rings -> Nat] /\ RingTypes'
  BY TakeSessionTypes
  DEF TypeOK, StopVideo, SlotTypes, HistoryTypes, RingTypes, ringVars
<1>3. SessionTypes' /\ ListenerTypes' /\ LinkTypes' /\ DeviceTypes'
  BY DEF TypeOK, StopVideo, SessionTypes, ListenerTypes, LinkTypes, DeviceTypes,
         sessionVars, listenerVars, linkVars, deviceVars
<1>4. SlotTypes' /\ HistoryTypes'
  BY <1>2 DEF TypeOK, StopVideo, SlotTypes, HistoryTypes
<1> QED BY <1>1, <1>2, <1>3, <1>4 DEF TypeOK

LEMMA DialTypes ==
  ASSUME TypeOK, NEW t \in Tasks, NEW o \in Ops,
         NEW left \in [Clients -> Sessions \cup {None}],
         NEW open \in SUBSET Clients, Dial(t, o, left, open)
  PROVE  TaskTypes' /\ LinkTypes'
<1>1. PICK c \in Clients :
        /\ client' = None
        /\ connected' = connected \ {client}
        /\ ctppOpen' = open \ {client}
        /\ media' = [d \in Clients |-> IF d = client THEN None ELSE left[d]]
        /\ op' = [op EXCEPT ![t] = o] /\ pc' = [pc EXCEPT ![t] = "rConnect"]
        /\ conn' = [conn EXCEPT ![t] = c]
        /\ sess' = [sess EXCEPT ![t] = None] /\ ring' = [ring EXCEPT ![t] = None]
        /\ UNCHANGED ctpp
  BY DEF Dial
<1>2. TaskTypes'
  BY <1>1 DEF TypeOK, TaskTypes
<1>3. LinkTypes'
  BY <1>1 DEF TypeOK, LinkTypes
<1> QED BY <1>2, <1>3

LEMMA DropListenerTypes ==
  ASSUME TypeOK, NEW t \in Tasks, NEW o \in Ops,
         NEW left \in [Clients -> Sessions \cup {None}],
         NEW open \in SUBSET Clients, DropListener(t, o, left, open)
  PROVE  TaskTypes' /\ LinkTypes' /\ ListenerTypes'
<1>1. CASE /\ CancelListener
           /\ Set(t, o, "rListener", None, None)
           /\ media' = left /\ ctppOpen' = open
           /\ UNCHANGED <<client, connected, ctpp>>
  BY <1>1, CancelListenerTypes, SetTypes DEF TypeOK, LinkTypes
<1>2. CASE Dial(t, o, left, open) /\ UNCHANGED listenerVars
  BY <1>2, DialTypes DEF TypeOK, ListenerTypes, listenerVars
<1> QED BY <1>1, <1>2 DEF DropListener

LEMMA ReconnectBeginsTypes ==
  ASSUME TypeOK, NEW t \in Tasks, NEW o \in Ops, ReconnectBegins(t, o)
  PROVE  TaskTypes' /\ LinkTypes' /\ ListenerTypes' /\ SessionTypes'
<1>1. CASE /\ CleanupStarts(session)
           /\ Set(t, o, "rSession", session, None)
           /\ UNCHANGED <<listenerVars, linkVars>>
  BY <1>1, CleanupStartsTypes, SetTypes
  DEF TypeOK, SlotTypes, ListenerTypes, LinkTypes, listenerVars, linkVars
<1>2. CASE DropListener(t, o, media, ctppOpen) /\ UNCHANGED sessionVars
  BY <1>2, DropListenerTypes DEF TypeOK, LinkTypes, SessionTypes, sessionVars
<1> QED BY <1>1, <1>2 DEF ReconnectBegins

LEMMA StartVideoTypes ==
  ASSUME TypeOK, NEW t \in Tasks, NEW o \in Ops, StartVideo(t, o)
  PROVE  TypeOK'
<1>1. /\ TaskTypes' /\ LinkTypes' /\ ListenerTypes' /\ SessionTypes'
      /\ RingTypes' /\ missed' \in [Rings -> Nat]
      /\ session' \in Sessions \cup {None} /\ ready' \in BOOLEAN
      /\ stopped' \in BOOLEAN
  <2>1. CASE LockedStart(t, o)
    BY <2>1, LockedStartTypes
  <2>2. CASE /\ ReconnectBegins(t, o)
             /\ UNCHANGED <<session, ready, stopped, ringVars, missed>>
    BY <2>2, ReconnectBeginsTypes
    DEF TypeOK, SlotTypes, RingTypes, HistoryTypes, ringVars
  <2> QED BY <2>1, <2>2 DEF StartVideo
<1>2. SlotTypes' /\ DeviceTypes' /\ HistoryTypes'
  BY <1>1 DEF StartVideo, TypeOK, SlotTypes, DeviceTypes, HistoryTypes, deviceVars
<1> QED BY <1>1, <1>2 DEF TypeOK

-----------------------------------------------------------------------------
(* Typing of the actions *)

\* What typing needs to know of the control state: a task that dials holds a
\* client.
DialsClient == \A t \in Tasks : pc[t] = "rConnect" => conn[t] \in Clients

\* A group of variables that a step leaves alone keeps its types.
LEMMA FrameTypes ==
  /\ TaskTypes /\ UNCHANGED taskVars => TaskTypes'
  /\ SlotTypes /\ UNCHANGED slotVars => SlotTypes'
  /\ SessionTypes /\ UNCHANGED sessionVars => SessionTypes'
  /\ ListenerTypes /\ UNCHANGED listenerVars => ListenerTypes'
  /\ LinkTypes /\ UNCHANGED linkVars => LinkTypes'
  /\ RingTypes /\ UNCHANGED ringVars => RingTypes'
  /\ DeviceTypes /\ UNCHANGED deviceVars => DeviceTypes'
  /\ HistoryTypes /\ UNCHANGED history => HistoryTypes'
BY DEF TaskTypes, SlotTypes, SessionTypes, ListenerTypes, LinkTypes, RingTypes, DeviceTypes, HistoryTypes,
       taskVars, slotVars, sessionVars, listenerVars, linkVars, ringVars, deviceVars, history

LEMMA TypeStutter ==
  ASSUME TypeOK, UNCHANGED vars
  PROVE  TypeOK'
BY DEF TypeOK, TaskTypes, SlotTypes, SessionTypes, ListenerTypes, LinkTypes, RingTypes, DeviceTypes, HistoryTypes,
       vars, taskVars, slotVars, sessionVars, listenerVars, linkVars, ringVars, deviceVars, history

LEMMA StopStepTypes ==
  ASSUME TypeOK, NEW t \in Tasks, StopStep(t)
  PROVE  TypeOK'
<1>1. CASE StopCleanup(t)
  BY <1>1, CleanupStartsTypes, GotoTypes, FrameTypes
  DEF StopCleanup, TypeOK, TaskTypes, SessionTypes
<1>2. CASE StopReleases(t)
  BY <1>2, RemoveChannelsTypes, GotoTypes, EnsureVipListenerTypes, FrameTypes
  DEF StopReleases, TypeOK, TaskTypes, SlotTypes, LinkTypes
<1>3. CASE StopReturns(t)
  BY <1>3, FinishTypes, FrameTypes
  DEF StopReturns, TypeOK, TaskTypes
<1> QED BY <1>1, <1>2, <1>3 DEF StopStep

LEMMA StartStepTypes ==
  ASSUME TypeOK, NEW t \in Tasks, StartStep(t)
  PROVE  TypeOK'
<1>1. CASE StopReturnsToStart(t)
  BY <1>1, PauseOrCreateTypes, FrameTypes
  DEF StopReturnsToStart, TypeOK, TaskTypes, SessionTypes, ListenerTypes, LinkTypes
<1>2. CASE ListenerPaused(t)
  BY <1>2, CreateSessionTypes, FrameTypes
  DEF ListenerPaused, TypeOK, TaskTypes, SessionTypes, ListenerTypes, LinkTypes
<1>3. CASE NegotiationSucceeds(t)
  <2>1. on[sess[t]] \in Clients
    BY <1>3 DEF NegotiationSucceeds, TypeOK, LinkTypes
  <2>2. SessionTypes'
    BY <1>3 DEF NegotiationSucceeds, TypeOK, SessionTypes
  <2>3. LinkTypes'
    BY <1>3, <2>1 DEF NegotiationSucceeds, TypeOK, LinkTypes
  <2>4. TaskTypes'
    BY <1>3, GotoTypes DEF NegotiationSucceeds, TypeOK
  <2> QED
    BY <1>3, <2>2, <2>3, <2>4
    DEF NegotiationSucceeds, TypeOK, SlotTypes, ListenerTypes, RingTypes, DeviceTypes, HistoryTypes,
        slotVars, listenerVars, ringVars, deviceVars, history
<1>4. CASE NegotiationFails(t)
  BY <1>4, CleanupStartsTypes, GotoTypes, FrameTypes
  DEF NegotiationFails, TypeOK, TaskTypes, SessionTypes
<1>5. CASE StartFails(t)
  BY <1>5, RemoveChannelsTypes, EnsureVipListenerTypes, FinishTypes, CountTypes, FrameTypes
  DEF StartFails, TypeOK, TaskTypes, SlotTypes, ListenerTypes, LinkTypes, RingTypes, HistoryTypes
<1>6. CASE Publish(t)
  BY <1>6, GotoTypes, FrameTypes
  DEF Publish, Awaits, TypeOK, TaskTypes, SlotTypes, SessionTypes
<1>7. CASE StartReturns(t)
  BY <1>7, FinishTypes, FrameTypes
  DEF StartReturns, TypeOK, TaskTypes, SlotTypes
<1>8. CASE InboundAnnounces(t)
  BY <1>8, FinishTypes, CountTypes, ring[t] \in Rings \cup {None}, FrameTypes
  DEF InboundAnnounces, TypeOK, TaskTypes, SlotTypes, RingTypes, HistoryTypes
<1> QED BY <1>1, <1>2, <1>3, <1>4, <1>5, <1>6, <1>7, <1>8 DEF StartStep

LEMMA ReconnectStepTypes ==
  ASSUME TypeOK, DialsClient, NEW t \in Tasks, ReconnectStep(t)
  PROVE  TypeOK'
<1>1. CASE ReconnectDropsSession(t)
  BY <1>1, DropListenerTypes, LeftTypes, FrameTypes
  DEF ReconnectDropsSession, TypeOK, TaskTypes, SlotTypes, ListenerTypes, LinkTypes
<1>2. CASE ReconnectDropsListener(t)
  BY <1>2, DialTypes, FrameTypes
  DEF ReconnectDropsListener, TypeOK, TaskTypes, ListenerTypes, LinkTypes
<1>3. CASE ReconnectFails(t)
  BY <1>3, FinishTypes, FrameTypes
  DEF ReconnectFails, TypeOK, TaskTypes, SlotTypes
<1>4. CASE ReconnectConnects(t)
  BY <1>4, GotoTypes, <<>> \in Seq(Frames), FrameTypes
  DEF ReconnectConnects, Awaits, DialsClient, TypeOK, TaskTypes, LinkTypes
<1>5. CASE ReconnectOpensCtpp(t)
  BY <1>5, GotoTypes, FrameTypes
  DEF ReconnectOpensCtpp, TypeOK, TaskTypes, LinkTypes
<1>6. CASE ReconnectWithoutListener(t)
  BY <1>6, FinishTypes, LockedStartTypes, FrameTypes
  DEF ReconnectWithoutListener, ReconnectReturns, TypeOK, SlotTypes, HistoryTypes, slotVars
<1>7. CASE ReconnectStartsListener(t)
  BY <1>7, FinishTypes, SetTypes, StartListenerTypes, FrameTypes
  DEF ReconnectStartsListener, TypeOK, TaskTypes, SlotTypes, ListenerTypes
<1> QED BY <1>1, <1>2, <1>3, <1>4, <1>5, <1>6, <1>7 DEF ReconnectStep

LEMMA ButtonStepTypes ==
  ASSUME TypeOK, NEW t \in Tasks, ButtonStep(t)
  PROVE  TypeOK'
<1>1. CASE AnswerSends(t)
  BY <1>1, GotoTypes, FrameTypes
  DEF AnswerSends, TypeOK, RingTypes, HistoryTypes
<1>2. CASE AnswerReturns(t)
  BY <1>2, FinishTypes, FrameTypes
  DEF AnswerReturns, TypeOK, TaskTypes, RingTypes
<1>3. CASE AnswerFails(t)
  BY <1>3, FinishTypes, FrameTypes
  DEF AnswerFails, TypeOK, TaskTypes
<1>4. CASE DoorReads(t)
  BY <1>4, GotoTypes, ConsumeTypes,
     NextDoorPC(t) \in PCs, FrameTypes
  DEF DoorReads, NextDoorPC, TypeOK, TaskTypes, LinkTypes
<1>5. CASE DoorReadTimesOut(t)
  BY <1>5, GotoTypes, FrameTypes
  DEF DoorReadTimesOut, NextDoorPC, TypeOK, TaskTypes
<1>6. CASE DoorOpened(t)
  <2>1. TaskTypes' /\ stopped' \in BOOLEAN
    <3>1. CASE stopped' = TRUE /\ Set(t, "door", "doorDelay", None, None)
      BY <3>1, SetTypes DEF TypeOK
    <3>2. CASE Finish(t) /\ UNCHANGED stopped
      BY <3>2, FinishTypes DEF TypeOK, SlotTypes
    <3> QED BY <1>6, <3>1, <3>2 DEF DoorOpened
  <2> QED
    BY <1>6, <2>1
    DEF DoorOpened, TypeOK, TaskTypes, SlotTypes, SessionTypes, ListenerTypes, LinkTypes, RingTypes, DeviceTypes,
      HistoryTypes, taskVars, slotVars, sessionVars, listenerVars, linkVars, ringVars, deviceVars,
      history
<1>7. CASE DoorFails(t)
  BY <1>7, FinishTypes, FrameTypes
  DEF DoorFails, TypeOK, TaskTypes
<1>8. CASE DoorDelayEnds(t)
  BY <1>8, StopVideoTypes, FinishTypes, FrameTypes
  DEF DoorDelayEnds, TypeOK, SlotTypes
<1> QED BY <1>1, <1>2, <1>3, <1>4, <1>5, <1>6, <1>7, <1>8 DEF ButtonStep

LEMMA RequestTypes ==
  ASSUME TypeOK, NEW t \in Tasks, Request(t)
  PROVE  TypeOK'
<1>1. CASE UserStart(t)
  BY <1>1, StartVideoTypes, FrameTypes
  DEF UserStart, TypeOK, TaskTypes, SlotTypes, SessionTypes, ListenerTypes, LinkTypes, RingTypes,
      DeviceTypes, HistoryTypes
<1>2. CASE UserStop(t)
  BY <1>2, StopVideoTypes, FrameTypes
  DEF UserStop, TypeOK, TaskTypes, SlotTypes, SessionTypes, ListenerTypes, LinkTypes, RingTypes,
      DeviceTypes, HistoryTypes
<1>3. CASE UserAnswer(t)
  <2>1. TaskTypes'
    BY <1>3, SetTypes DEF UserAnswer, TypeOK, TaskTypes, SlotTypes, taskVars
  <2>2. RingTypes'
    BY <1>3 DEF UserAnswer, TypeOK, RingTypes, ringVars
  <2> QED BY <1>3, <2>1, <2>2, FrameTypes DEF UserAnswer, TypeOK
<1>4. CASE DoorPress(t)
  BY <1>4, FrameTypes
  DEF DoorPress, TypeOK, TaskTypes, LinkTypes
<1>5. CASE CameraRemoved(t)
  BY <1>5, StopVideoTypes, FrameTypes
  DEF CameraRemoved, TypeOK, TaskTypes, SlotTypes, SessionTypes, ListenerTypes, LinkTypes,
      RingTypes, DeviceTypes, HistoryTypes
<1>6. CASE HealthCheck(t)
  BY <1>6, ReconnectBeginsTypes, FrameTypes
  DEF HealthCheck, TypeOK, TaskTypes, SessionTypes, ListenerTypes, LinkTypes
<1> QED BY <1>1, <1>2, <1>3, <1>4, <1>5, <1>6 DEF Request

LEMMA BeginStepTypes ==
  ASSUME TypeOK, NEW t \in Tasks, BeginStep(t)
  PROVE  TypeOK'
<1>1. CASE RestartWatched(t)
  BY <1>1, StartVideoTypes, FrameTypes
  DEF RestartWatched, TypeOK, TaskTypes, SlotTypes, SessionTypes, ListenerTypes, LinkTypes,
      RingTypes, DeviceTypes, HistoryTypes
<1>2. CASE RestartRefused(t)
  BY <1>2, FinishTypes, FrameTypes
  DEF RestartRefused, TypeOK, TaskTypes
<1>3. CASE RestartUnwatched(t)
  BY <1>3, StopVideoTypes, FrameTypes
  DEF RestartUnwatched, TypeOK, TaskTypes, SlotTypes, SessionTypes, ListenerTypes, LinkTypes,
      RingTypes, DeviceTypes, HistoryTypes
<1>4. CASE InboundBegins(t)
  BY <1>4, LockedStartTypes, FrameTypes
  DEF InboundBegins, TypeOK, TaskTypes, SlotTypes, SessionTypes, ListenerTypes, LinkTypes,
      RingTypes, HistoryTypes
<1>5. CASE InboundSkipped(t)
  BY <1>5, FinishTypes, FrameTypes
  DEF InboundSkipped, TypeOK, TaskTypes
<1> QED BY <1>1, <1>2, <1>3, <1>4, <1>5 DEF BeginStep

LEMMA SessionStepTypes ==
  ASSUME TypeOK, NEW s \in Sessions, SessionStep(s)
  PROVE  TypeOK'
<1>1. CASE MonitorReads(s)
  <2>1. LinkTypes'
    BY <1>1, ConsumeTypes
    DEF MonitorReads, TypeOK, SessionTypes
  <2>2. phase' \in [Sessions -> Phases] /\ RingTypes' /\ announced' \in [Rings -> Nat]
    <3>1. PICK f \in Frames :
            \/ f \in Rings /\ OnRingDuringVideo(f) /\ UNCHANGED phase
            \/ f = Idle /\ UNCHANGED <<ringVars, announced, phase>>
            \/ /\ f = CallEnd
               /\ phase' = [phase EXCEPT ![s] = "renewing"]
               /\ UNCHANGED <<ringVars, announced>>
      BY <1>1 DEF MonitorReads
    <3>2. phase' \in [Sessions -> Phases]
      BY <3>1 DEF TypeOK, SessionTypes, ringVars
    <3>3. CASE f \in Rings /\ OnRingDuringVideo(f)
      BY <3>2, <3>3, CountTypes
      DEF OnRingDuringVideo, TypeOK, RingTypes, HistoryTypes, ringVars
    <3>4. CASE UNCHANGED <<ringVars, announced>>
      BY <3>2, <3>4 DEF TypeOK, RingTypes, HistoryTypes, ringVars
    <3> QED BY <3>1, <3>3, <3>4
  <2> QED
    BY <1>1, <2>1, <2>2
    DEF MonitorReads, TypeOK, TaskTypes, SlotTypes, SessionTypes, ListenerTypes,
        DeviceTypes, HistoryTypes, taskVars, slotVars, listenerVars, deviceVars
<1>2. CASE RenewalReads(s)
  BY <1>2, ConsumeTypes, FrameTypes
  DEF RenewalReads, TypeOK, LinkTypes
<1>3. CASE RenewalSucceeds(s)
  BY <1>3, FrameTypes
  DEF RenewalSucceeds, TypeOK, SessionTypes
<1>4. CASE RenewalFails(s)
  BY <1>4, SpawnTypes, FrameTypes
  DEF RenewalFails, OnVideoCallEnd, TypeOK, SessionTypes
<1> QED BY <1>1, <1>2, <1>3, <1>4 DEF SessionStep

LEMMA TimerStepTypes ==
  ASSUME TypeOK, NEW s \in Sessions, TimerStep(s)
  PROVE  TypeOK'
<1>1. CASE TimeoutFires(s)
  BY <1>1, FrameTypes
  DEF TimeoutFires, TypeOK, SessionTypes
<1>2. CASE TimeoutReports(s)
  BY <1>2, SpawnTypes, RemoveChannelsTypes, FrameTypes
  DEF TimeoutReports, OnVideoCallEnd, TypeOK, SessionTypes, LinkTypes
<1> QED BY <1>1, <1>2 DEF TimerStep

LEMMA ListenerReadsTypes ==
  ASSUME TypeOK, NEW l \in Listeners, ListenerReads(l)
  PROVE  TypeOK'
<1>1. LinkTypes'
  BY ConsumeTypes
  DEF ListenerReads, TypeOK, ListenerTypes
<1>2. TaskTypes' /\ RingTypes' /\ missed' \in [Rings -> Nat]
  <2>1. PICK f \in Frames :
          \/ f \in Rings /\ OnInboundRing(f) /\ UNCHANGED missed
          \/ f = Idle /\ OnCallIdle /\ UNCHANGED taskVars
          \/ f = CallEnd /\ UNCHANGED <<taskVars, ringVars, missed>>
    BY DEF ListenerReads
  <2>2. CASE f \in Rings /\ OnInboundRing(f) /\ UNCHANGED missed
    <3>1. CASE f \in recent
      BY <2>2, <3>1
      DEF OnInboundRing, TypeOK, TaskTypes, RingTypes, HistoryTypes, taskVars, ringVars
    <3>2. CASE f \notin recent
      <4>1. TaskTypes'
        BY <2>2, <3>2, SpawnTypes DEF OnInboundRing, TypeOK
      <4> QED
        BY <2>2, <3>2, <4>1 DEF OnInboundRing, TypeOK, RingTypes, HistoryTypes
    <3> QED BY <3>1, <3>2
  <2>3. CASE OnCallIdle /\ UNCHANGED taskVars
    BY <2>3, CountTypes
    DEF OnCallIdle, TypeOK, TaskTypes, RingTypes, HistoryTypes, taskVars, ringVars
  <2>4. CASE UNCHANGED <<taskVars, ringVars, missed>>
    BY <2>4 DEF TypeOK, TaskTypes, RingTypes, HistoryTypes, taskVars, ringVars
  <2> QED BY <2>1, <2>2, <2>3, <2>4
<1> QED
  BY <1>1, <1>2
  DEF ListenerReads, TypeOK, SlotTypes, SessionTypes, ListenerTypes, DeviceTypes,
      HistoryTypes, slotVars, sessionVars, listenerVars, deviceVars

LEMMA EnvironmentTypes ==
  ASSUME TypeOK, Environment
  PROVE  TypeOK'
<1>1. CASE \E f \in Frames : DeviceSends(f)
  <2>1. PICK f \in Frames : DeviceSends(f)
    BY <1>1
  <2>2. PICK c \in Clients : ctpp' = [ctpp EXCEPT ![c] = Append(@, f)]
    BY <2>1 DEF DeviceSends, TypeOK, LinkTypes
  <2>3. ctpp' \in [Clients -> Seq(Frames)] /\ sent' \in [Frames -> Nat]
    BY <2>1, <2>2 DEF DeviceSends, TypeOK, LinkTypes, DeviceTypes
  <2> QED
    BY <2>1, <2>3, SMTT(30)
    DEF DeviceSends, TypeOK, TaskTypes, SlotTypes, SessionTypes, ListenerTypes, LinkTypes, RingTypes, DeviceTypes,
      HistoryTypes,
        taskVars, slotVars, sessionVars, listenerVars, ringVars, history
<1>2. CASE \E c \in Clients : ConnectionDrops(c)
  BY <1>2
  DEF ConnectionDrops, TypeOK, TaskTypes, SlotTypes, SessionTypes, ListenerTypes, LinkTypes, RingTypes, DeviceTypes,
      HistoryTypes,
      taskVars, slotVars, sessionVars, listenerVars, ringVars, history
<1>3. CASE RingGetsOld
  BY <1>3
  DEF RingGetsOld, TypeOK, TaskTypes, SlotTypes, SessionTypes, ListenerTypes, LinkTypes, RingTypes, DeviceTypes,
      HistoryTypes,
      taskVars, slotVars, sessionVars, listenerVars, linkVars, deviceVars, history
<1> QED BY <1>1, <1>2, <1>3 DEF Environment

LEMMA TypeStep ==
  ASSUME TypeOK, DialsClient, [Next]_vars
  PROVE  TypeOK'
<1>1. CASE \E t \in Tasks : BeginStep(t)
  BY <1>1, BeginStepTypes
<1>2. CASE \E t \in Tasks : Request(t)
  BY <1>2, RequestTypes
<1>3. CASE \E t \in Tasks : TaskStep(t)
  <2>1. PICK t \in Tasks : TaskStep(t)
    BY <1>3
  <2>2. CASE NegotiationReads(t)
    BY <2>2, ConsumeTypes, SMTT(30)
    DEF NegotiationReads, TypeOK, TaskTypes, SlotTypes, SessionTypes, ListenerTypes, LinkTypes, RingTypes, DeviceTypes,
      HistoryTypes, taskVars, slotVars, sessionVars, listenerVars, linkVars, ringVars, deviceVars,
      history
  <2> QED
    BY <2>1, <2>2, StopStepTypes, StartStepTypes, ReconnectStepTypes,
       ButtonStepTypes DEF TaskStep
<1>4. CASE \E s \in Sessions : SessionStep(s) \/ TimerStep(s)
  BY <1>4, SessionStepTypes, TimerStepTypes
<1>5. CASE \E l \in Listeners : ListenerReads(l)
  BY <1>5, ListenerReadsTypes
<1>6. CASE Environment
  BY <1>6, EnvironmentTypes
<1>7. CASE UNCHANGED vars
  BY <1>7, TypeStutter
<1> QED BY <1>1, <1>2, <1>3, <1>4, <1>5, <1>6, <1>7 DEF Next

LEMMA TypeInit ==
  ASSUME Init PROVE TypeOK
<1>1. TaskTypes /\ SlotTypes /\ SessionTypes
  BY DEF Init, TaskTypes, SlotTypes, SessionTypes
<1>2. ListenerTypes /\ RingTypes
  BY DEF Init, ListenerTypes, RingTypes
<1>3. LinkTypes
  <2>1. <<>> \in Seq(Frames)
    OBVIOUS
  <2> QED BY <2>1 DEF Init, LinkTypes
<1>4. DeviceTypes /\ HistoryTypes
  BY DEF Init, DeviceTypes, HistoryTypes
<1> QED BY <1>1, <1>2, <1>3, <1>4 DEF TypeOK
=============================================================================
