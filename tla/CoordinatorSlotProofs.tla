------------------------ MODULE CoordinatorSlotProofs ------------------------
(* The slot invariant of Coordinator, and that Coordinator implements         *)
(* SessionSlot.                                                               *)
EXTENDS CoordinatorProofs

USE ConstantsAssumption
    DEF ConstantsAssumption, Starts, Ops, StopPCs, ReconnectPCs, NegotiationPCs,
        PCs, Phases

\* What a step in which the task t moves may do to the lock, the slot and the
\* sessions in negotiation.
TaskMoves(t) ==
  /\ \A u \in Tasks \ {t} :
       pc'[u] = pc[u] /\ op'[u] = op[u] /\ sess'[u] = sess[u] /\ conn'[u] = conn[u]
  /\ \A s \in Sessions :
       \/ phase'[s] = phase[s]
       \/ phase'[s] \in {"active", "renewing", "ended"}
       \/ phase'[s] = "negotiating" /\ pc'[t] = "negotiating" /\ sess'[t] = s
  /\ pc[t] = "negotiating" =>
       \/ pc'[t] = "negotiating" /\ sess'[t] = sess[t]
       \/ phase'[sess[t]] # "negotiating"
  /\ Fits(t)'
  /\ InLock(t)' <=> lock' = t
  /\ \/ lock' = lock /\ session' \in {session, None}
     \/ lock = None /\ lock' = t /\ session' \in {session, None}
     \/ lock = t /\ lock' = None /\ session' = session
     \/ /\ lock = t /\ lock' = t /\ session = None
        /\ pc[t] = "gate" /\ pc'[t] = "notify" /\ session' = sess[t]
  /\ InLock(t)' /\ pc'[t] \notin {"rSession", "notify"} => session' = None
  /\ ready' = (session' # None)

\* A step in which no task moves.
Quiet ==
  /\ UNCHANGED <<pc, op, sess, conn, lock, session, ready>>
  /\ \A s \in Sessions :
       phase'[s] = phase[s] \/ phase'[s] \in {"active", "renewing", "ended"}

LEMMA TaskMovesInv ==
  ASSUME TypeOK, SlotInv, NEW t \in Tasks, TaskMoves(t)
  PROVE  SlotInv'
<1> USE DEF TypeOK, TaskTypes, SlotTypes, SessionTypes, TaskMoves
<1>1. ASSUME NEW s \in Sessions, phase[s] # "none" PROVE phase'[s] # "none"
  BY <1>1
<1>2. ASSUME NEW u \in Tasks PROVE Fits(u)'
  BY <1>1 DEF SlotInv, Fits
<1>3. LockHeldByStart'
  BY DEF SlotInv, LockHeldByStart, InLock
<1>4. SlotEmptyForHolder'
  BY DEF SlotInv, LockHeldByStart, SlotEmptyForHolder, InLock
<1>5. NegotiatorKnown'
  <2> SUFFICES ASSUME NEW s \in Sessions, phase'[s] = "negotiating"
               PROVE  \E u \in Tasks : pc'[u] = "negotiating" /\ sess'[u] = s
    BY DEF NegotiatorKnown
  <2>1. CASE phase[s] = "negotiating"
    BY <2>1 DEF SlotInv, NegotiatorKnown
  <2> QED BY <2>1
<1>6. session' # None => phase'[session'] # "none"
  BY <1>1 DEF SlotInv, Fits
<1> QED BY <1>2, <1>3, <1>4, <1>5, <1>6 DEF SlotInv

LEMMA QuietInv ==
  ASSUME TypeOK, SlotInv, Quiet
  PROVE  SlotInv'
BY DEF Quiet, TypeOK, TaskTypes, SlotTypes, SessionTypes, SlotInv, Fits, InLock,
       LockHeldByStart, SlotEmptyForHolder, NegotiatorKnown

LEMMA StopVideoMoves ==
  ASSUME TypeOK, SlotInv, NEW t \in Tasks, ~InLock(t), pc[t] # "negotiating",
         StopVideo(t)
  PROVE  TaskMoves(t)
<1> USE DEF TaskMoves, SlotInv, Fits, InLock, LockHeldByStart, SlotEmptyForHolder,
            TypeOK, TaskTypes, SlotTypes, SessionTypes, sessionVars
<1>1. CASE TakeSession(t, "stop")
  BY <1>1, ZenonT(40) DEF StopVideo, TakeSession, Set
<1>2. CASE session = None /\ Finish(t) /\ UNCHANGED <<session, ready>>
  BY <1>2 DEF StopVideo, Finish, Set
<1> QED BY <1>1, <1>2 DEF StopVideo

LEMMA LockedStartMoves ==
  ASSUME TypeOK, SlotInv, NEW t \in Tasks, NEW o \in Starts, lock = None, lock' = t,
         pc[t] \in {"idle", "begin"}, LockedStart(t, o)
  PROVE  TaskMoves(t)
<1> USE DEF TaskMoves, SlotInv, Fits, InLock, LockHeldByStart, SlotEmptyForHolder,
            TypeOK, TaskTypes, SlotTypes, SessionTypes, sessionVars
<1>1. CASE TakeSession(t, o) /\ UNCHANGED sessionVars
  <2>1. /\ pc' = [pc EXCEPT ![t] = "stopCallbacks"] /\ op' = [op EXCEPT ![t] = o]
        /\ sess' = [sess EXCEPT ![t] = session] /\ conn' = [conn EXCEPT ![t] = None]
        /\ session' = None /\ ready' = FALSE
    BY <1>1 DEF TakeSession, Set
  <2>2. pc'[t] = "stopCallbacks" /\ op'[t] = o /\ phase' = phase
    BY <1>1, <2>1
  <2>3. Fits(t)'
    BY <2>2
  <2>4. InLock(t)' <=> lock' = t
    BY <2>2
  <2>5. \A u \in Tasks \ {t} :
          pc'[u] = pc[u] /\ op'[u] = op[u] /\ sess'[u] = sess[u] /\ conn'[u] = conn[u]
    BY <2>1
  <2> HIDE DEF SlotInv, Fits, InLock
  <2> QED BY <2>1, <2>2, <2>3, <2>4, <2>5
<1>2. CASE session = None /\ PauseOrCreate(t, o) /\ UNCHANGED <<session, ready>>
  <2>1. CASE Set(t, o, "pausing", None, ring[t]) /\ UNCHANGED sessionVars
    BY <1>2, <2>1 DEF Set
  <2>2. CASE CreateSession(t, o)
    BY <1>2, <2>2 DEF CreateSession, FreeSession, Set
  <2> QED BY <1>2, <2>1, <2>2 DEF PauseOrCreate
<1> QED BY <1>1, <1>2 DEF LockedStart

LEMMA StartVideoMoves ==
  ASSUME TypeOK, SlotInv, NEW t \in Tasks, NEW o \in Starts,
         pc[t] \in {"idle", "begin"}, StartVideo(t, o)
  PROVE  TaskMoves(t)
<1>1. CASE LockedStart(t, o)
  BY <1>1, LockedStartMoves DEF StartVideo
<1>2. CASE ReconnectBegins(t, o) /\ UNCHANGED <<session, ready>>
  <2> USE DEF TaskMoves, SlotInv, Fits, InLock, LockHeldByStart, SlotEmptyForHolder,
              TypeOK, TaskTypes, SlotTypes, SessionTypes, sessionVars
  <2>1. CASE CleanupStarts(session) /\ Set(t, o, "rSession", session, None)
    BY <1>2, <2>1 DEF StartVideo, CleanupStarts, Set
  <2>2. CASE /\ session = None /\ DropListener(t, o, media, ctppOpen)
             /\ UNCHANGED sessionVars
    BY <1>2, <2>2 DEF StartVideo, DropListener, Dial, Set
  <2> QED BY <1>2, <2>1, <2>2 DEF ReconnectBegins
<1> QED BY <1>1, <1>2 DEF StartVideo

LEMMA StopStepMoves ==
  ASSUME TypeOK, SlotInv, NEW t \in Tasks, StopStep(t)
  PROVE  TaskMoves(t)
<1>1. CASE StopCleanup(t)
  BY <1>1
  DEF StopCleanup, Awaits, CleanupStarts, Goto, TaskMoves,
      SlotInv, Fits, InLock, LockHeldByStart, SlotEmptyForHolder,
      TypeOK, TaskTypes, SlotTypes, SessionTypes, taskVars, slotVars, sessionVars
<1>2. CASE StopReleases(t)
  BY <1>2
  DEF StopReleases, Awaits, Goto, TaskMoves,
      SlotInv, Fits, InLock, LockHeldByStart, SlotEmptyForHolder,
      TypeOK, TaskTypes, SlotTypes, SessionTypes, taskVars, slotVars, sessionVars
<1>3. CASE StopReturns(t)
  BY <1>3
  DEF StopReturns, Awaits, Finish, Set, TaskMoves,
      SlotInv, Fits, InLock, LockHeldByStart, SlotEmptyForHolder,
      TypeOK, TaskTypes, SlotTypes, SessionTypes, taskVars, slotVars, sessionVars
<1> QED BY <1>1, <1>2, <1>3 DEF StopStep

LEMMA StartStepMoves ==
  ASSUME TypeOK, SlotInv, NEW t \in Tasks, StartStep(t)
  PROVE  TaskMoves(t)
<1>1. CASE StopReturnsToStart(t)
  BY <1>1
  DEF StopReturnsToStart, Awaits, PauseOrCreate, CreateSession, FreeSession, Set, TaskMoves,
      SlotInv, Fits, InLock, LockHeldByStart, SlotEmptyForHolder,
      TypeOK, TaskTypes, SlotTypes, SessionTypes, taskVars, slotVars, sessionVars
<1>2. CASE ListenerPaused(t)
  BY <1>2
  DEF ListenerPaused, Awaits, CreateSession, FreeSession, Set, TaskMoves,
      SlotInv, Fits, InLock, LockHeldByStart, SlotEmptyForHolder,
      TypeOK, TaskTypes, SlotTypes, SessionTypes, taskVars, slotVars, sessionVars
<1>3. CASE NegotiationSucceeds(t)
  BY <1>3
  DEF NegotiationSucceeds, Awaits, Goto, TaskMoves,
      SlotInv, Fits, InLock, LockHeldByStart, SlotEmptyForHolder,
      TypeOK, TaskTypes, SlotTypes, SessionTypes, taskVars, slotVars, sessionVars
<1>4. CASE NegotiationFails(t)
  BY <1>4
  DEF NegotiationFails, Awaits, CleanupStarts, Goto, TaskMoves,
      SlotInv, Fits, InLock, LockHeldByStart, SlotEmptyForHolder,
      TypeOK, TaskTypes, SlotTypes, SessionTypes, taskVars, slotVars, sessionVars
<1>5. CASE StartFails(t)
  BY <1>5
  DEF StartFails, Awaits, Finish, Set, TaskMoves,
      SlotInv, Fits, InLock, LockHeldByStart, SlotEmptyForHolder,
      TypeOK, TaskTypes, SlotTypes, SessionTypes, taskVars, slotVars, sessionVars
<1>6. CASE Publish(t)
  BY <1>6, ZenonT(40)
  DEF Publish, Awaits, Goto, TaskMoves,
      SlotInv, Fits, InLock, LockHeldByStart, SlotEmptyForHolder,
      TypeOK, TaskTypes, SlotTypes, SessionTypes, taskVars, slotVars, sessionVars
<1>7. CASE StartReturns(t)
  BY <1>7
  DEF StartReturns, Awaits, Finish, Set, TaskMoves,
      SlotInv, Fits, InLock, LockHeldByStart, SlotEmptyForHolder,
      TypeOK, TaskTypes, SlotTypes, SessionTypes, taskVars, slotVars, sessionVars
<1>8. CASE InboundAnnounces(t)
  BY <1>8
  DEF InboundAnnounces, Awaits, Finish, Set, TaskMoves,
      SlotInv, Fits, InLock, LockHeldByStart, SlotEmptyForHolder,
      TypeOK, TaskTypes, SlotTypes, SessionTypes, taskVars, slotVars, sessionVars
<1> QED BY <1>1, <1>2, <1>3, <1>4, <1>5, <1>6, <1>7, <1>8 DEF StartStep

LEMMA ReconnectStepMoves ==
  ASSUME TypeOK, SlotInv, NEW t \in Tasks, ReconnectStep(t)
  PROVE  TaskMoves(t)
<1>1. CASE ReconnectDropsSession(t)
  <2> USE DEF TaskMoves, SlotInv, Fits, InLock, LockHeldByStart, SlotEmptyForHolder,
              TypeOK, TaskTypes, SlotTypes, SessionTypes, sessionVars
  <2>1. CASE Set(t, op[t], "rListener", None, None)
    BY <1>1, <2>1, ZenonT(40) DEF ReconnectDropsSession, Awaits, Set
  <2>2. CASE Dial(t, op[t], MediaLeft(sess[t]), CtppLeft(sess[t]))
    <3>1. /\ pc[t] = "rSession" /\ lock' = lock /\ phase' = phase
          /\ session' = None /\ ready' = FALSE
      BY <1>1 DEF ReconnectDropsSession, Awaits
    <3>2. PICK c \in Clients :
            /\ pc' = [pc EXCEPT ![t] = "rConnect"] /\ op' = [op EXCEPT ![t] = op[t]]
            /\ conn' = [conn EXCEPT ![t] = c] /\ sess' = [sess EXCEPT ![t] = None]
      BY <2>2 DEF Dial
    <3>3. pc'[t] = "rConnect" /\ op'[t] = op[t] /\ conn'[t] # None
      BY <3>2
    <3>4. Fits(t)'
      BY <3>3
    <3>5. InLock(t)' <=> lock' = t
      BY <3>1, <3>3
    <3> QED BY <3>1, <3>2, <3>3, <3>4, <3>5, ZenonT(40)
  <2> QED BY <1>1, <2>1, <2>2 DEF ReconnectDropsSession, DropListener
<1>2. CASE ReconnectDropsListener(t)
  BY <1>2
  DEF ReconnectDropsListener, Awaits, Dial, TaskMoves,
      SlotInv, Fits, InLock, LockHeldByStart, SlotEmptyForHolder,
      TypeOK, TaskTypes, SlotTypes, SessionTypes, taskVars, slotVars, sessionVars
<1>3. CASE ReconnectFails(t)
  BY <1>3
  DEF ReconnectFails, Awaits, Finish, Set, TaskMoves,
      SlotInv, Fits, InLock, LockHeldByStart, SlotEmptyForHolder,
      TypeOK, TaskTypes, SlotTypes, SessionTypes, taskVars, slotVars, sessionVars
<1>4. CASE ReconnectConnects(t)
  BY <1>4
  DEF ReconnectConnects, Awaits, Goto, TaskMoves,
      SlotInv, Fits, InLock, LockHeldByStart, SlotEmptyForHolder,
      TypeOK, TaskTypes, SlotTypes, SessionTypes, taskVars, slotVars, sessionVars
<1>5. CASE ReconnectOpensCtpp(t)
  BY <1>5
  DEF ReconnectOpensCtpp, Awaits, Goto, TaskMoves,
      SlotInv, Fits, InLock, LockHeldByStart, SlotEmptyForHolder,
      TypeOK, TaskTypes, SlotTypes, SessionTypes, taskVars, slotVars, sessionVars
<1>6. CASE ReconnectWithoutListener(t)
  BY <1>6
  DEF ReconnectWithoutListener, Awaits, ReconnectReturns, Finish, LockedStart, TakeSession, PauseOrCreate, CreateSession, FreeSession, Set, TaskMoves,
      SlotInv, Fits, InLock, LockHeldByStart, SlotEmptyForHolder,
      TypeOK, TaskTypes, SlotTypes, SessionTypes, taskVars, slotVars, sessionVars
<1>7. CASE ReconnectStartsListener(t)
  BY <1>7
  DEF ReconnectStartsListener, Awaits, Finish, Set, TaskMoves,
      SlotInv, Fits, InLock, LockHeldByStart, SlotEmptyForHolder,
      TypeOK, TaskTypes, SlotTypes, SessionTypes, taskVars, slotVars, sessionVars
<1> QED BY <1>1, <1>2, <1>3, <1>4, <1>5, <1>6, <1>7 DEF ReconnectStep

LEMMA ButtonStepMoves ==
  ASSUME TypeOK, SlotInv, NEW t \in Tasks, ButtonStep(t)
  PROVE  TaskMoves(t)
<1>1. CASE AnswerSends(t)
  BY <1>1
  DEF AnswerSends, Awaits, Goto, TaskMoves,
      SlotInv, Fits, InLock, LockHeldByStart, SlotEmptyForHolder,
      TypeOK, TaskTypes, SlotTypes, SessionTypes, taskVars, slotVars, sessionVars
<1>2. CASE AnswerReturns(t)
  BY <1>2
  DEF AnswerReturns, Awaits, Finish, Set, TaskMoves,
      SlotInv, Fits, InLock, LockHeldByStart, SlotEmptyForHolder,
      TypeOK, TaskTypes, SlotTypes, SessionTypes, taskVars, slotVars, sessionVars
<1>3. CASE AnswerFails(t)
  BY <1>3
  DEF AnswerFails, Awaits, Finish, Set, TaskMoves,
      SlotInv, Fits, InLock, LockHeldByStart, SlotEmptyForHolder,
      TypeOK, TaskTypes, SlotTypes, SessionTypes, taskVars, slotVars, sessionVars
<1>4. CASE DoorReads(t)
  BY <1>4
  DEF DoorReads, Awaits, Goto, NextDoorPC, TaskMoves,
      SlotInv, Fits, InLock, LockHeldByStart, SlotEmptyForHolder,
      TypeOK, TaskTypes, SlotTypes, SessionTypes, taskVars, slotVars, sessionVars
<1>5. CASE DoorReadTimesOut(t)
  BY <1>5
  DEF DoorReadTimesOut, Awaits, Goto, NextDoorPC, TaskMoves,
      SlotInv, Fits, InLock, LockHeldByStart, SlotEmptyForHolder,
      TypeOK, TaskTypes, SlotTypes, SessionTypes, taskVars, slotVars, sessionVars
<1>6. CASE DoorOpened(t)
  BY <1>6
  DEF DoorOpened, Awaits, Finish, Set, TaskMoves,
      SlotInv, Fits, InLock, LockHeldByStart, SlotEmptyForHolder,
      TypeOK, TaskTypes, SlotTypes, SessionTypes, taskVars, slotVars, sessionVars
<1>7. CASE DoorFails(t)
  BY <1>7
  DEF DoorFails, Awaits, Finish, Set, TaskMoves,
      SlotInv, Fits, InLock, LockHeldByStart, SlotEmptyForHolder,
      TypeOK, TaskTypes, SlotTypes, SessionTypes, taskVars, slotVars, sessionVars
<1>8. CASE DoorDelayEnds(t)
  <2>1. ~InLock(t) /\ pc[t] = "doorDelay"
    BY <1>8 DEF DoorDelayEnds, Awaits, SlotInv, Fits, InLock
  <2>2. CASE StopVideo(t)
    BY <2>1, <2>2, StopVideoMoves
  <2>3. CASE Finish(t) /\ UNCHANGED <<slotVars, sessionVars>>
    BY <2>1, <2>3
    DEF Finish, Set, TaskMoves, SlotInv, Fits, InLock, LockHeldByStart, SlotEmptyForHolder,
        TypeOK, TaskTypes, SlotTypes, SessionTypes, slotVars, sessionVars
  <2> QED BY <1>8, <2>2, <2>3 DEF DoorDelayEnds
<1> QED BY <1>1, <1>2, <1>3, <1>4, <1>5, <1>6, <1>7, <1>8 DEF ButtonStep

LEMMA RequestMoves ==
  ASSUME TypeOK, SlotInv, NEW t \in Tasks, Request(t)
  PROVE  TaskMoves(t)
<1>1. CASE UserStart(t)
  BY <1>1, StartVideoMoves DEF UserStart, Awaits
<1>2. CASE UserStop(t)
  BY <1>2, StopVideoMoves DEF UserStop, Awaits, SlotInv, Fits, InLock
<1>3. CASE UserAnswer(t)
  BY <1>3
  DEF UserAnswer, Awaits, Set, TaskMoves,
      SlotInv, Fits, InLock, LockHeldByStart, SlotEmptyForHolder,
      TypeOK, TaskTypes, SlotTypes, SessionTypes, taskVars, slotVars, sessionVars
<1>4. CASE DoorPress(t)
  BY <1>4
  DEF DoorPress, Awaits, TaskMoves,
      SlotInv, Fits, InLock, LockHeldByStart, SlotEmptyForHolder,
      TypeOK, TaskTypes, SlotTypes, SessionTypes, taskVars, slotVars, sessionVars
<1>5. CASE CameraRemoved(t)
  BY <1>5, StopVideoMoves DEF CameraRemoved, Awaits, SlotInv, Fits, InLock
<1>6. CASE HealthCheck(t)
  BY <1>6
  DEF HealthCheck, Awaits, ReconnectBegins, CleanupStarts, DropListener, Dial, Set, TaskMoves,
      SlotInv, Fits, InLock, LockHeldByStart, SlotEmptyForHolder,
      TypeOK, TaskTypes, SlotTypes, SessionTypes, taskVars, slotVars, sessionVars
<1> QED BY <1>1, <1>2, <1>3, <1>4, <1>5, <1>6 DEF Request

LEMMA BeginStepMoves ==
  ASSUME TypeOK, SlotInv, NEW t \in Tasks, BeginStep(t)
  PROVE  TaskMoves(t)
<1>1. CASE RestartWatched(t)
  BY <1>1, StartVideoMoves DEF RestartWatched, Begins
<1>2. CASE RestartRefused(t)
  BY <1>2
  DEF RestartRefused, Begins, Finish, Set, TaskMoves,
      SlotInv, Fits, InLock, LockHeldByStart, SlotEmptyForHolder,
      TypeOK, TaskTypes, SlotTypes, SessionTypes, taskVars, slotVars, sessionVars
<1>3. CASE RestartUnwatched(t)
  BY <1>3, StopVideoMoves DEF RestartUnwatched, Begins, InLock
<1>4. CASE InboundBegins(t)
  BY <1>4, LockedStartMoves DEF InboundBegins, Begins
<1>5. CASE InboundSkipped(t)
  BY <1>5
  DEF InboundSkipped, Begins, Finish, Set, TaskMoves,
      SlotInv, Fits, InLock, LockHeldByStart, SlotEmptyForHolder,
      TypeOK, TaskTypes, SlotTypes, SessionTypes, taskVars, slotVars, sessionVars
<1> QED BY <1>1, <1>2, <1>3, <1>4, <1>5 DEF BeginStep

LEMMA SpawnMoves ==
  ASSUME TypeOK, SlotInv, NEW o \in Ops, NEW r, Spawn(o, r),
         UNCHANGED <<lock, session, ready>>,
         \A s \in Sessions :
           phase'[s] = phase[s] \/ phase'[s] \in {"active", "renewing", "ended"}
  PROVE  \E t \in Tasks : TaskMoves(t)
<1>1. PICK t \in Tasks : pc[t] = "idle" /\ Set(t, o, "begin", None, r)
  BY DEF Spawn
<1>2. TaskMoves(t)
  BY <1>1
  DEF TaskMoves, SlotInv, Fits, InLock, LockHeldByStart, SlotEmptyForHolder,
      TypeOK, TaskTypes, SlotTypes, SessionTypes, Set
<1> QED BY <1>2

\* Every step of Coordinator moves one task or none.
LEMMA NextMoves ==
  ASSUME TypeOK, SlotInv, [Next]_vars
  PROVE  Quiet \/ \E t \in Tasks : TaskMoves(t)
<1> USE DEF Quiet, TypeOK, SessionTypes, taskVars, slotVars, sessionVars
<1>1. CASE \E t \in Tasks : BeginStep(t)
  BY <1>1, BeginStepMoves
<1>2. CASE \E t \in Tasks : Request(t)
  BY <1>2, RequestMoves
<1>3. CASE \E t \in Tasks : TaskStep(t)
  <2>1. PICK t \in Tasks : TaskStep(t)
    BY <1>3
  <2>2. CASE NegotiationReads(t)
    BY <2>2 DEF NegotiationReads
  <2> QED
    BY <2>1, <2>2, StopStepMoves, StartStepMoves, ReconnectStepMoves,
       ButtonStepMoves DEF TaskStep
<1>4. CASE \E s \in Sessions : SessionStep(s)
  <2>1. PICK s \in Sessions : SessionStep(s)
    BY <1>4
  <2>2. CASE MonitorReads(s)
    BY <2>2 DEF MonitorReads
  <2>3. CASE RenewalReads(s) \/ RenewalSucceeds(s)
    BY <2>3 DEF RenewalReads, RenewalSucceeds
  <2>4. CASE RenewalFails(s)
    BY <2>4, SpawnMoves DEF RenewalFails, OnVideoCallEnd
  <2> QED BY <2>1, <2>2, <2>3, <2>4 DEF SessionStep
<1>5. CASE \E s \in Sessions : TimerStep(s)
  <2>1. PICK s \in Sessions : TimerStep(s)
    BY <1>5
  <2>2. CASE TimeoutFires(s)
    BY <2>2 DEF TimeoutFires
  <2>3. CASE TimeoutReports(s)
    BY <2>3, SpawnMoves DEF TimeoutReports, OnVideoCallEnd
  <2> QED BY <2>1, <2>2, <2>3 DEF TimerStep
<1>6. CASE \E l \in Listeners : ListenerReads(l)
  BY <1>6, SpawnMoves DEF ListenerReads, OnInboundRing
<1>7. CASE Environment
  BY <1>7 DEF Environment, DeviceSends, ConnectionDrops, RingGetsOld
<1>8. CASE UNCHANGED vars
  BY <1>8 DEF vars
<1> QED BY <1>1, <1>2, <1>3, <1>4, <1>5, <1>6, <1>7, <1>8 DEF Next
-----------------------------------------------------------------------------
LEMMA SlotInvInit ==
  ASSUME Init PROVE SlotInv
BY DEF Init, SlotInv, Fits, InLock, LockHeldByStart, SlotEmptyForHolder,
       NegotiatorKnown

LEMMA FitsDials ==
  ASSUME TypeOK, SlotInv PROVE DialsClient
BY DEF TypeOK, TaskTypes, SlotInv, Fits, DialsClient

\* The types and the slot invariant hold in every state, whatever the number of
\* tasks, sessions, listeners, clients and rings, and whatever the device sends.
THEOREM Invariance == Spec => [](TypeOK /\ SlotInv)
<1>1. Init => TypeOK /\ SlotInv
  BY TypeInit, SlotInvInit
<1>2. TypeOK /\ SlotInv /\ [Next]_vars => (TypeOK /\ SlotInv)'
  BY FitsDials, TypeStep, NextMoves, TaskMovesInv, QuietInv
<1> QED BY <1>1, <1>2, PTL DEF Spec

\* Every variable keeps its type.
THEOREM TypeCorrect == Spec => []TypeOK
BY Invariance, PTL

\* The start lock is held exactly by the task inside a start coroutine.
THEOREM LockSafe == Spec => []LockHeldByStart
<1>1. SlotInv => LockHeldByStart
  BY DEF SlotInv
<1> QED BY <1>1, Invariance, PTL

\* No two sessions negotiate with the device at the same time: each belongs to a
\* task inside the lock, and the lock has one holder.
THEOREM NegotiationExclusive == Spec => []OneNegotiation
<1>1. TypeOK /\ SlotInv => OneNegotiation
  <2> SUFFICES ASSUME TypeOK, SlotInv, NEW s \in Sessions, NEW z \in Sessions,
                      phase[s] = "negotiating", phase[z] = "negotiating"
               PROVE  s = z
    BY DEF OneNegotiation
  <2>1. PICK t \in Tasks : pc[t] = "negotiating" /\ sess[t] = s
    BY DEF SlotInv, NegotiatorKnown
  <2>2. PICK u \in Tasks : pc[u] = "negotiating" /\ sess[u] = z
    BY DEF SlotInv, NegotiatorKnown
  <2>3. InLock(t) /\ InLock(u)
    BY <2>1, <2>2 DEF SlotInv, Fits, InLock
  <2>4. t = u
    BY <2>3 DEF SlotInv, LockHeldByStart
  <2> QED BY <2>1, <2>2, <2>4
<1> QED BY <1>1, Invariance, PTL

\* A published session is past its negotiation, and no start still awaits it.
THEOREM PublicationSafe == Spec => []PublishedOnlyWhenStarted
<1>1. TypeOK /\ SlotInv => PublishedOnlyWhenStarted
  <2> SUFFICES ASSUME TypeOK, SlotInv, session # None
               PROVE  /\ phase[session] \notin {"none", "negotiating"}
                      /\ \A t \in Tasks : pc[t] \notin NegotiationPCs
    BY DEF PublishedOnlyWhenStarted
  <2>1. \A t \in Tasks : pc[t] \notin NegotiationPCs
    BY DEF SlotInv, Fits, InLock, SlotEmptyForHolder
  <2>2. session \in Sessions
    BY DEF TypeOK, SlotTypes
  <2>3. phase[session] # "negotiating"
    BY <2>1, <2>2 DEF SlotInv, NegotiatorKnown
  <2> QED BY <2>1, <2>3 DEF SlotInv
<1> QED BY <1>1, Invariance, PTL

\* The coordinator implements the abstract slot: a start holds it exclusively, only
\* the holder publishes, a published session is withdrawn before another one takes
\* its place, and the ready event follows the slot.
THEOREM SlotRefined == Spec => SlotImplemented
<1> USE DEF Slot!Init, Slot!Next, Slot!vars, Slot!Acquire, Slot!Withdraw,
            Slot!Publish, Slot!Release
<1>1. Init => Slot!Init
  BY DEF Init
<1>2. TypeOK /\ SlotInv /\ [Next]_vars => [Slot!Next]_(Slot!vars)
  <2> SUFFICES ASSUME TypeOK, SlotInv, [Next]_vars
               PROVE  [Slot!Next]_(Slot!vars)
    OBVIOUS
  <2>1. CASE Quiet
    BY <2>1 DEF Quiet
  <2>2. ASSUME NEW t \in Tasks, TaskMoves(t) PROVE [Slot!Next]_(Slot!vars)
    <3>1. ready = (session # None) /\ ready' = (session' # None)
      BY <2>2 DEF SlotInv, TaskMoves
    <3>2. CASE lock' = lock /\ session' \in {session, None}
      BY <3>1, <3>2
    <3>3. CASE lock = None /\ lock' = t /\ session' \in {session, None}
      BY <3>1, <3>3
    <3>4. CASE lock = t /\ lock' = None /\ session' = session
      BY <3>1, <3>4
    <3>5. CASE /\ lock = t /\ lock' = t /\ session = None
               /\ pc[t] = "gate" /\ pc'[t] = "notify" /\ session' = sess[t]
      <4>1. sess[t] \in Sessions
        BY <3>5 DEF SlotInv, Fits, TypeOK, TaskTypes
      <4> QED BY <3>1, <3>5, <4>1
    <3> QED BY <2>2, <3>2, <3>3, <3>4, <3>5 DEF TaskMoves
  <2> QED BY <2>1, <2>2, NextMoves
<1> QED BY <1>1, <1>2, Invariance, PTL DEF Spec, Slot!Spec, SlotImplemented
-----------------------------------------------------------------------------
(* Who holds which session *)

Stopping == {"stopCallbacks", "stopCleanup"}
Holding == Stopping \cup {"negotiating", "gate", "failing"}
Alive(s) == phase[s] \in {"negotiating", "active", "renewing"}

\* A session that is being stopped is out of the slot, and no other task stops it, awaits its
\* negotiation or is about to publish it.
StopsApart ==
  /\ \A t \in Tasks : pc[t] \in Stopping => sess[t] # session /\ sess[t] # None
  /\ \A t, u \in Tasks : t # u /\ pc[t] \in Stopping /\ pc[u] \in Holding => sess[t] # sess[u]

\* A session with a call on the device is published, or a task awaits its negotiation, is about
\* to publish it or is about to stop it.
AliveKnown ==
  \A s \in Sessions : Alive(s) =>
    session = s \/ \E t \in Tasks : pc[t] \in {"negotiating", "gate", "stopCallbacks"} /\ sess[t] = s

\* What the step of a task does to the session it holds: it takes the published one,
Takes(t) ==
  /\ session # None /\ session' = None
  /\ pc[t] \notin Holding /\ pc'[t] = "stopCallbacks" /\ sess'[t] = session
  /\ phase' = phase /\ rtspReady' = rtspReady

\* makes a new one,
Creates(t) ==
  /\ pc[t] \notin Holding /\ pc'[t] \in {"negotiating", "failing"}
  /\ sess'[t] \in Sessions \ {session} /\ \A u \in Tasks : sess[u] # sess'[t]
  /\ \A s \in Sessions : s # sess'[t] => phase'[s] = phase[s]
  /\ pc'[t] = "failing" => phase'[sess'[t]] = "ended"
  /\ session' = session /\ rtspReady' = rtspReady

\* goes on with its own,
Proceeds(t) ==
  /\ \/ /\ \/ pc[t] = "stopCallbacks" /\ pc'[t] = "stopCleanup"
           \/ pc[t] = "negotiating" /\ pc'[t] = "failing"
        /\ \A s \in Sessions : s = sess[t] => phase'[s] = "ended"
     \/ pc[t] = "negotiating" /\ pc'[t] = "gate"
  /\ \A s \in Sessions : s # sess[t] => phase'[s] = phase[s]
  /\ sess'[t] = sess[t] /\ session' = session /\ rtspReady' = rtspReady

\* publishes it,
Publishes(t) ==
  /\ pc[t] = "gate" /\ pc'[t] = "notify"
  /\ session' = sess[t] /\ sess'[t] = sess[t] /\ phase' = phase

\* or has none, or lets go of it when it has ended.
Leaves(t) ==
  /\ pc[t] \notin {"stopCallbacks", "negotiating", "gate"} /\ pc'[t] \notin Holding
  /\ \/ session' = session
     \/ pc[t] = "rSession" /\ session' = None /\ ~rtspReady'
  /\ pc[t] = "stopCleanup" => ~rtspReady'
  /\ rtspReady' => rtspReady
  /\ \A s \in Sessions : Alive(s)' => Alive(s)

HandMoves(t) ==
  /\ \A u \in Tasks \ {t} : pc'[u] = pc[u] /\ sess'[u] = sess[u]
  /\ Takes(t) \/ Creates(t) \/ Proceeds(t) \/ Publishes(t) \/ Leaves(t)

\* A step in which no task moves.
Still ==
  /\ UNCHANGED <<pc, sess, session, rtspReady>>
  /\ \A s \in Sessions : Alive(s)' => Alive(s)

LEMMA StopsApartKept ==
  ASSUME TypeOK, SlotInv, StopsApart, Still \/ \E t \in Tasks : HandMoves(t)
  PROVE  StopsApart'
<1>1. CASE Still
  BY <1>1 DEF Still, StopsApart
<1>2. ASSUME NEW t \in Tasks, HandMoves(t)
      PROVE  StopsApart'
  <2>1. \A u \in Tasks \ {t} : pc'[u] = pc[u] /\ sess'[u] = sess[u]
    BY <1>2 DEF HandMoves
  <2>2. \A u \in Tasks : pc[u] \in {"negotiating", "gate", "failing"} =>
          session = None /\ sess[u] \in Sessions
    BY DEF TypeOK, TaskTypes, SlotInv, Fits, InLock, SlotEmptyForHolder
  <2>3. CASE Takes(t)
    BY <2>1, <2>2, <2>3 DEF Takes, StopsApart, Stopping, Holding
  <2>4. CASE Creates(t)
    BY <2>1, <2>4 DEF Creates, StopsApart, Stopping, Holding
  <2>5. CASE Proceeds(t)
    BY <2>1, <2>5 DEF Proceeds, StopsApart, Stopping, Holding
  <2>6. CASE Publishes(t)
    BY <2>1, <2>6 DEF Publishes, StopsApart, Stopping, Holding
  <2>7. CASE Leaves(t)
    BY <2>1, <2>7 DEF Leaves, StopsApart, Stopping, Holding
  <2> QED BY <1>2, <2>3, <2>4, <2>5, <2>6, <2>7 DEF HandMoves
<1> QED BY <1>1, <1>2

LEMMA PlaysBlockedKept ==
  ASSUME TypeOK, SlotInv, PlaysBlockedWithoutSession, Still \/ \E t \in Tasks : HandMoves(t)
  PROVE  PlaysBlockedWithoutSession'
<1>1. CASE Still
  BY <1>1 DEF Still, PlaysBlockedWithoutSession
<1>2. ASSUME NEW t \in Tasks, HandMoves(t)
      PROVE  PlaysBlockedWithoutSession'
  <2>1. \A u \in Tasks \ {t} : pc'[u] = pc[u] /\ sess'[u] = sess[u]
    BY <1>2 DEF HandMoves
  <2>2. CASE Publishes(t)
    <3>1. sess[t] # None
      BY <2>2 DEF Publishes, SlotInv, Fits
    <3> QED BY <2>2, <3>1 DEF Publishes, PlaysBlockedWithoutSession
  <2>3. CASE Takes(t)
    BY <2>3 DEF Takes, PlaysBlockedWithoutSession
  <2>4. CASE Creates(t) \/ Proceeds(t)
    BY <2>1, <2>4 DEF Creates, Proceeds, Holding, Stopping, PlaysBlockedWithoutSession
  <2>5. CASE Leaves(t)
    BY <2>1, <2>5 DEF Leaves, Holding, Stopping, PlaysBlockedWithoutSession
  <2> QED BY <1>2, <2>2, <2>3, <2>4, <2>5 DEF HandMoves
<1> QED BY <1>1, <1>2

LEMMA AliveKnownKept ==
  ASSUME TypeOK, SlotInv, AliveKnown, \A t \in Tasks : pc[t] # "rSession",
         Still \/ \E t \in Tasks : HandMoves(t)
  PROVE  AliveKnown'
<1>1. CASE Still
  BY <1>1 DEF Still, AliveKnown
<1>2. ASSUME NEW t \in Tasks, HandMoves(t)
      PROVE  AliveKnown'
  <2>1. \A u \in Tasks \ {t} : pc'[u] = pc[u] /\ sess'[u] = sess[u]
    BY <1>2 DEF HandMoves
  <2>2. CASE Takes(t)
    BY <2>1, <2>2 DEF Takes, Holding, Stopping, AliveKnown, Alive
  <2>3. CASE Creates(t)
    BY <2>1, <2>3 DEF Creates, Holding, Stopping, AliveKnown, Alive
  <2>4. CASE Proceeds(t)
    BY <2>1, <2>4 DEF Proceeds, AliveKnown, Alive
  <2>5. CASE Publishes(t)
    <3>1. session = None
      BY <2>5 DEF Publishes, SlotInv, Fits, InLock, SlotEmptyForHolder
    <3> QED BY <2>1, <2>5, <3>1 DEF Publishes, AliveKnown, Alive
  <2>6. CASE Leaves(t)
    BY <2>1, <2>6 DEF Leaves, AliveKnown
  <2> QED BY <1>2, <2>2, <2>3, <2>4, <2>5, <2>6 DEF HandMoves
<1> QED BY <1>1, <1>2

LEMMA CreateHands ==
  ASSUME TypeOK, NEW t \in Tasks, NEW o, CreateSession(t, o), pc[t] \notin Holding,
         session' = session, rtspReady' = rtspReady
  PROVE  HandMoves(t)
<1>1. PICK s \in Sessions :
        /\ FreeSession(s)
        /\ pc' = [pc EXCEPT ![t] = pc'[t]] /\ sess' = [sess EXCEPT ![t] = s]
        /\ \/ pc'[t] = "failing" /\ phase' = [phase EXCEPT ![s] = "ended"]
           \/ pc'[t] = "negotiating" /\ phase' = [phase EXCEPT ![s] = "negotiating"]
  <2>1. PICK s \in Sessions :
          LET doomed == client = None \/ (o = "inbound" /\ client \notin ctppOpen)
          IN  /\ FreeSession(s)
              /\ phase' = [phase EXCEPT ![s] = IF doomed THEN "ended" ELSE "negotiating"]
              /\ Set(t, o, IF doomed THEN "failing" ELSE "negotiating", s, ring[t])
    BY DEF CreateSession
  <2> QED BY <2>1 DEF Set, TypeOK, TaskTypes
<1>2. pc'[t] \in {"negotiating", "failing"} /\ sess'[t] = s
  BY <1>1 DEF TypeOK, TaskTypes
<1>3. \A u \in Tasks \ {t} : pc'[u] = pc[u] /\ sess'[u] = sess[u]
  BY <1>1 DEF TypeOK, TaskTypes
<1>4. Creates(t)
  BY <1>1, <1>2 DEF Creates, FreeSession, TypeOK, SessionTypes
<1> QED BY <1>3, <1>4 DEF HandMoves

\* A task that holds no session before or after the step.
LEMMA LeaveHands ==
  ASSUME TypeOK, NEW t \in Tasks, NEW p, NEW z,
         pc' = [pc EXCEPT ![t] = p], sess' = [sess EXCEPT ![t] = z],
         pc[t] \notin Holding, p \notin Holding,
         \/ session' = session
         \/ pc[t] = "rSession" /\ session' = None /\ ~rtspReady',
         rtspReady' => rtspReady,
         \A s \in Sessions : phase'[s] = phase[s] \/ phase'[s] = "ended"
  PROVE  HandMoves(t)
<1>1. pc'[t] = p /\ \A u \in Tasks \ {t} : pc'[u] = pc[u] /\ sess'[u] = sess[u]
  BY DEF TypeOK, TaskTypes
<1>2. Leaves(t)
  BY <1>1 DEF Leaves, Holding, Stopping, Alive
<1> QED BY <1>1, <1>2 DEF HandMoves

LEMMA GotoHands ==
  ASSUME TypeOK, NEW t \in Tasks, NEW p, Goto(t, p), pc[t] \notin Holding, p \notin Holding,
         UNCHANGED <<session, rtspReady, phase>>
  PROVE  HandMoves(t)
<1>1. sess' = [sess EXCEPT ![t] = sess[t]]
  BY DEF Goto, TypeOK, TaskTypes
<1> QED BY <1>1, LeaveHands DEF Goto

LEMMA TakeHands ==
  ASSUME TypeOK, NEW t \in Tasks, NEW o, TakeSession(t, o), pc[t] \notin Holding,
         phase' = phase, rtspReady' = rtspReady
  PROVE  HandMoves(t)
BY DEF TakeSession, Set, HandMoves, Takes, TypeOK, TaskTypes

LEMMA StopVideoHands ==
  ASSUME TypeOK, NEW t \in Tasks, pc[t] \notin Holding, StopVideo(t)
  PROVE  HandMoves(t)
<1>1. phase' = phase /\ rtspReady' = rtspReady
  BY DEF StopVideo, sessionVars
<1>2. CASE TakeSession(t, "stop")
  BY <1>1, <1>2, TakeHands
<1>3. CASE Finish(t) /\ session' = session
  BY <1>1, <1>3, LeaveHands DEF Finish, Set, Holding, Stopping
<1> QED BY <1>2, <1>3 DEF StopVideo

LEMMA PauseOrCreateHands ==
  ASSUME TypeOK, NEW t \in Tasks, NEW o, PauseOrCreate(t, o), pc[t] \notin Holding,
         session' = session, rtspReady' = rtspReady
  PROVE  HandMoves(t)
<1>1. CASE Set(t, o, "pausing", None, ring[t]) /\ UNCHANGED sessionVars
  BY <1>1, LeaveHands DEF Set, sessionVars, Holding, Stopping
<1>2. CASE CreateSession(t, o)
  BY <1>2, CreateHands
<1> QED BY <1>1, <1>2 DEF PauseOrCreate

LEMMA LockedStartHands ==
  ASSUME TypeOK, NEW t \in Tasks, NEW o, LockedStart(t, o), pc[t] \notin Holding,
         rtspReady' = rtspReady
  PROVE  HandMoves(t)
<1>1. CASE TakeSession(t, o) /\ UNCHANGED sessionVars
  BY <1>1, TakeHands DEF sessionVars
<1>2. CASE PauseOrCreate(t, o) /\ UNCHANGED session
  BY <1>2, PauseOrCreateHands
<1> QED BY <1>1, <1>2 DEF LockedStart

LEMMA ReconnectBeginsHands ==
  ASSUME TypeOK, NEW t \in Tasks, NEW o, ReconnectBegins(t, o), pc[t] \notin Holding,
         session' = session, rtspReady' = rtspReady
  PROVE  HandMoves(t)
<1>1. CASE CleanupStarts(session) /\ Set(t, o, "rSession", session, None)
  BY <1>1, LeaveHands DEF CleanupStarts, Set, Holding, Stopping, TypeOK, SessionTypes
<1>2. CASE DropListener(t, o, media, ctppOpen) /\ UNCHANGED sessionVars
  BY <1>2, LeaveHands DEF DropListener, Dial, Set, sessionVars, Holding, Stopping
<1> QED BY <1>1, <1>2 DEF ReconnectBegins

LEMMA StartVideoHands ==
  ASSUME TypeOK, NEW t \in Tasks, NEW o, pc[t] \notin Holding, StartVideo(t, o)
  PROVE  HandMoves(t)
BY LockedStartHands, ReconnectBeginsHands DEF StartVideo

LEMMA StopStepHands ==
  ASSUME TypeOK, NEW t \in Tasks, StopStep(t)
  PROVE  HandMoves(t)
<1> USE DEF Holding, Stopping, TypeOK, TaskTypes, SessionTypes
<1>1. CASE StopCleanup(t)
  <2>1. Proceeds(t)
    BY <1>1 DEF StopCleanup, Awaits, CleanupStarts, Goto, slotVars, Proceeds
  <2>2. \A u \in Tasks \ {t} : pc'[u] = pc[u] /\ sess'[u] = sess[u]
    BY <1>1 DEF StopCleanup, Goto
  <2> QED BY <2>1, <2>2 DEF HandMoves
<1>2. CASE StopReleases(t)
  <2>1. Leaves(t)
    BY <1>2 DEF StopReleases, Awaits, Goto, sessionVars, Leaves, Alive
  <2>2. \A u \in Tasks \ {t} : pc'[u] = pc[u] /\ sess'[u] = sess[u]
    BY <1>2 DEF StopReleases, Goto
  <2> QED BY <2>1, <2>2 DEF HandMoves
<1>3. CASE StopReturns(t)
  BY <1>3, LeaveHands DEF StopReturns, Awaits, Finish, Set, slotVars, sessionVars
<1> QED BY <1>1, <1>2, <1>3 DEF StopStep

LEMMA StartStepHands ==
  ASSUME TypeOK, NEW t \in Tasks, StartStep(t)
  PROVE  HandMoves(t)
<1> USE DEF Holding, Stopping, TypeOK, TaskTypes, SessionTypes
<1>1. CASE StopReturnsToStart(t)
  BY <1>1, PauseOrCreateHands DEF StopReturnsToStart, Awaits, slotVars
<1>2. CASE ListenerPaused(t)
  BY <1>2, CreateHands DEF ListenerPaused, Awaits, slotVars
<1>3. CASE NegotiationSucceeds(t) \/ NegotiationFails(t)
  <2>1. Proceeds(t)
    <3>1. CASE NegotiationSucceeds(t)
      BY <3>1 DEF NegotiationSucceeds, Awaits, Goto, slotVars, Proceeds
    <3>2. CASE NegotiationFails(t)
      BY <3>2 DEF NegotiationFails, Awaits, CleanupStarts, Goto, slotVars, Proceeds
    <3> QED BY <1>3, <3>1, <3>2
  <2>2. \A u \in Tasks \ {t} : pc'[u] = pc[u] /\ sess'[u] = sess[u]
    BY <1>3 DEF NegotiationSucceeds, NegotiationFails, Goto
  <2> QED BY <2>1, <2>2 DEF HandMoves
<1>4. CASE StartFails(t)
  <2>1. Leaves(t)
    BY <1>4 DEF StartFails, Awaits, Finish, Set, sessionVars, Leaves, Alive
  <2>2. \A u \in Tasks \ {t} : pc'[u] = pc[u] /\ sess'[u] = sess[u]
    BY <1>4 DEF StartFails, Finish, Set
  <2> QED BY <2>1, <2>2 DEF HandMoves
<1>5. CASE Publish(t)
  <2>1. Publishes(t)
    BY <1>5 DEF Publish, Awaits, Goto, Publishes
  <2>2. \A u \in Tasks \ {t} : pc'[u] = pc[u] /\ sess'[u] = sess[u]
    BY <1>5 DEF Publish, Goto
  <2> QED BY <2>1, <2>2 DEF HandMoves
<1>6. CASE StartReturns(t)
  BY <1>6, LeaveHands DEF StartReturns, Awaits, Finish, Set, sessionVars
<1>7. CASE InboundAnnounces(t)
  BY <1>7, LeaveHands DEF InboundAnnounces, Awaits, Finish, Set, sessionVars
<1> QED BY <1>1, <1>2, <1>3, <1>4, <1>5, <1>6, <1>7 DEF StartStep

LEMMA ReconnectStepHands ==
  ASSUME TypeOK, NEW t \in Tasks, ReconnectStep(t)
  PROVE  HandMoves(t)
<1> USE DEF Holding, Stopping
<1>1. CASE ReconnectDropsSession(t)
  <2>1. PICK p \in {"rListener", "rConnect"} :
          pc' = [pc EXCEPT ![t] = p] /\ sess' = [sess EXCEPT ![t] = None]
    BY <1>1 DEF ReconnectDropsSession, DropListener, Dial, Set
  <2>2. pc[t] = "rSession" /\ session' = None /\ rtspReady' = FALSE /\ phase' = phase
    BY <1>1 DEF ReconnectDropsSession, Awaits, sessionVars
  <2> QED BY <2>1, <2>2, LeaveHands
<1>2. CASE ReconnectDropsListener(t)
  BY <1>2, LeaveHands DEF ReconnectDropsListener, Awaits, Dial, slotVars, sessionVars
<1>3. CASE ReconnectFails(t)
  BY <1>3, LeaveHands DEF ReconnectFails, Awaits, Finish, Set, sessionVars
<1>4. CASE ReconnectConnects(t)
  BY <1>4, GotoHands DEF ReconnectConnects, Awaits, slotVars, sessionVars
<1>5. CASE ReconnectOpensCtpp(t)
  BY <1>5, GotoHands DEF ReconnectOpensCtpp, Awaits, slotVars, sessionVars
<1>6. CASE ReconnectWithoutListener(t)
  <2>1. CASE Finish(t) /\ UNCHANGED <<slotVars, sessionVars>>
    BY <1>6, <2>1, LeaveHands
    DEF ReconnectWithoutListener, Awaits, Finish, Set, slotVars, sessionVars
  <2>2. CASE LockedStart(t, op[t]) /\ UNCHANGED rtspReady
    BY <1>6, <2>2, LockedStartHands DEF ReconnectWithoutListener, Awaits
  <2> QED BY <1>6, <2>1, <2>2 DEF ReconnectWithoutListener, ReconnectReturns
<1>7. CASE ReconnectStartsListener(t)
  BY <1>7, LeaveHands DEF ReconnectStartsListener, Awaits, Finish, Set, sessionVars
<1> QED BY <1>1, <1>2, <1>3, <1>4, <1>5, <1>6, <1>7 DEF ReconnectStep

LEMMA ButtonStepHands ==
  ASSUME TypeOK, NEW t \in Tasks, ButtonStep(t)
  PROVE  HandMoves(t)
<1> USE DEF Holding, Stopping
<1>1. CASE AnswerSends(t)
  BY <1>1, GotoHands DEF AnswerSends, Awaits, slotVars, sessionVars
<1>2. CASE AnswerReturns(t) \/ AnswerFails(t)
  <2>1. /\ pc[t] \in {"answering", "draining"} /\ Finish(t)
        /\ UNCHANGED <<session, rtspReady, phase>>
    BY <1>2 DEF AnswerReturns, AnswerFails, Awaits, slotVars, sessionVars
  <2> QED BY <2>1, LeaveHands DEF Finish, Set
<1>3. CASE DoorReads(t) \/ DoorReadTimesOut(t)
  BY <1>3, GotoHands DEF DoorReads, DoorReadTimesOut, Awaits, NextDoorPC, slotVars, sessionVars
<1>4. CASE DoorOpened(t) \/ DoorFails(t)
  <2>1. PICK p \in {"idle", "doorDelay"} :
          pc' = [pc EXCEPT ![t] = p] /\ sess' = [sess EXCEPT ![t] = None]
    BY <1>4 DEF DoorOpened, DoorFails, Finish, Set
  <2>2. pc[t] = "doorOpen" /\ UNCHANGED <<session, rtspReady, phase>>
    BY <1>4 DEF DoorOpened, DoorFails, Awaits, slotVars, sessionVars
  <2> QED BY <2>1, <2>2, LeaveHands
<1>5. CASE DoorDelayEnds(t)
  <2>1. pc[t] = "doorDelay"
    BY <1>5 DEF DoorDelayEnds, Awaits
  <2>2. CASE Finish(t) /\ UNCHANGED <<slotVars, sessionVars>>
    BY <2>1, <2>2, LeaveHands DEF Finish, Set, slotVars, sessionVars
  <2> QED BY <1>5, <2>1, <2>2, StopVideoHands DEF DoorDelayEnds
<1> QED BY <1>1, <1>2, <1>3, <1>4, <1>5 DEF ButtonStep

LEMMA RequestHands ==
  ASSUME TypeOK, NEW t \in Tasks, Request(t)
  PROVE  HandMoves(t)
<1> USE DEF Holding, Stopping, Awaits
<1>1. CASE UserStart(t)
  BY <1>1, StartVideoHands DEF UserStart
<1>2. CASE UserStop(t) \/ CameraRemoved(t)
  BY <1>2, StopVideoHands DEF UserStop, CameraRemoved
<1>3. CASE UserAnswer(t)
  <2>1. PICK p \in {"answering", "idle"}, z \in {session, sess[t]} :
          pc' = [pc EXCEPT ![t] = p] /\ sess' = [sess EXCEPT ![t] = z]
    BY <1>3 DEF UserAnswer, Set, Awaits, taskVars, TypeOK, TaskTypes
  <2> QED BY <1>3, <2>1, LeaveHands DEF UserAnswer, slotVars, sessionVars
<1>4. CASE DoorPress(t)
  <2>1. PICK p \in {"doorRead2", "doorOpen"} :
          pc' = [pc EXCEPT ![t] = p] /\ sess' = [sess EXCEPT ![t] = sess[t]]
    BY <1>4 DEF DoorPress, TypeOK, TaskTypes
  <2> QED BY <1>4, <2>1, LeaveHands DEF DoorPress, slotVars, sessionVars
<1>5. CASE HealthCheck(t)
  BY <1>5, ReconnectBeginsHands DEF HealthCheck, slotVars
<1> QED BY <1>1, <1>2, <1>3, <1>4, <1>5 DEF Request

LEMMA BeginStepHands ==
  ASSUME TypeOK, NEW t \in Tasks, BeginStep(t)
  PROVE  HandMoves(t)
<1> USE DEF Holding, Stopping, Begins
<1>1. CASE RestartWatched(t)
  BY <1>1, StartVideoHands DEF RestartWatched
<1>2. CASE RestartUnwatched(t)
  BY <1>2, StopVideoHands DEF RestartUnwatched
<1>3. CASE InboundBegins(t)
  BY <1>3, LockedStartHands DEF InboundBegins
<1>4. CASE RestartRefused(t) \/ InboundSkipped(t)
  <2>1. /\ pc[t] = "begin" /\ Finish(t) /\ UNCHANGED <<session, rtspReady, phase>>
    BY <1>4 DEF RestartRefused, InboundSkipped, slotVars, sessionVars
  <2> QED BY <2>1, LeaveHands DEF Finish, Set
<1> QED BY <1>1, <1>2, <1>3, <1>4 DEF BeginStep

LEMMA SpawnHands ==
  ASSUME TypeOK, NEW o, NEW r, Spawn(o, r), UNCHANGED <<session, rtspReady>>,
         \A s \in Sessions : phase'[s] = phase[s] \/ phase'[s] = "ended"
  PROVE  \E t \in Tasks : HandMoves(t)
BY LeaveHands DEF Spawn, Set, Holding, Stopping

\* Every step hands a session on in one of these ways, or moves no task.
LEMMA NextHands ==
  ASSUME TypeOK, [Next]_vars
  PROVE  Still \/ \E t \in Tasks : HandMoves(t)
<1> USE DEF Still, Alive, TypeOK, SessionTypes, taskVars, slotVars, sessionVars
<1>1. CASE \E t \in Tasks : BeginStep(t)
  BY <1>1, BeginStepHands
<1>2. CASE \E t \in Tasks : Request(t)
  BY <1>2, RequestHands
<1>3. CASE \E t \in Tasks : TaskStep(t)
  <2>1. PICK t \in Tasks : TaskStep(t)
    BY <1>3
  <2>2. CASE NegotiationReads(t)
    BY <2>2 DEF NegotiationReads
  <2> QED
    BY <2>1, <2>2, StopStepHands, StartStepHands, ReconnectStepHands,
       ButtonStepHands DEF TaskStep
<1>4. CASE \E s \in Sessions : SessionStep(s)
  <2>1. PICK s \in Sessions : SessionStep(s)
    BY <1>4
  <2>2. CASE MonitorReads(s)
    BY <2>2 DEF MonitorReads
  <2>3. CASE RenewalReads(s) \/ RenewalSucceeds(s)
    BY <2>3 DEF RenewalReads, RenewalSucceeds
  <2>4. CASE RenewalFails(s)
    BY <2>4, SpawnHands DEF RenewalFails, OnVideoCallEnd
  <2> QED BY <2>1, <2>2, <2>3, <2>4 DEF SessionStep
<1>5. CASE \E s \in Sessions : TimerStep(s)
  <2>1. PICK s \in Sessions : TimerStep(s)
    BY <1>5
  <2>2. CASE TimeoutFires(s)
    BY <2>2 DEF TimeoutFires
  <2>3. CASE TimeoutReports(s)
    BY <2>3, SpawnHands DEF TimeoutReports, OnVideoCallEnd
  <2> QED BY <2>1, <2>2, <2>3 DEF TimerStep
<1>6. CASE \E l \in Listeners : ListenerReads(l)
  BY <1>6, SpawnHands DEF ListenerReads, OnInboundRing
<1>7. CASE Environment
  BY <1>7 DEF Environment, DeviceSends, ConnectionDrops, RingGetsOld
<1>8. CASE UNCHANGED vars
  BY <1>8 DEF vars
<1> QED BY <1>1, <1>2, <1>3, <1>4, <1>5, <1>6, <1>7, <1>8 DEF Next

\* async_stop_video takes the session out of the slot before its first await, so whoever calls
\* it meanwhile, the stop button, the door's delayed stop, a restart or a new ring, stops
\* another session or none.
THEOREM StopsSingle == Spec => []StoppedByOneCall
<1>1. Init => StopsApart
  BY DEF Init, StopsApart, Stopping
<1>2. TypeOK /\ SlotInv /\ StopsApart /\ [Next]_vars => StopsApart'
  BY NextHands, StopsApartKept
<1>3. StopsApart => StoppedByOneCall
  BY DEF StopsApart, Stopping, Holding, StoppedByOneCall
<1> QED BY <1>1, <1>2, <1>3, Invariance, PTL DEF Spec

\* PLAY requests pass only while a session is published or a stop has yet to block them: every
\* step that empties the slot blocks them itself (_reconnect) or is async_stop_video, which
\* does once the session's cleanup is over.
THEOREM PlaysBlocked == Spec => []PlaysBlockedWithoutSession
<1>1. Init => PlaysBlockedWithoutSession
  BY DEF Init, PlaysBlockedWithoutSession
<1>2. TypeOK /\ SlotInv /\ PlaysBlockedWithoutSession /\ [Next]_vars
        => PlaysBlockedWithoutSession'
  BY NextHands, PlaysBlockedKept
<1> QED BY <1>1, <1>2, Invariance, PTL DEF Spec
-----------------------------------------------------------------------------
(* While the first connection lasts *)

\* Until a connection is lost nothing reconnects, so the client is the one async_setup made.
FirstLink ==
  /\ client # None /\ connected = {client}
  /\ \A t \in Tasks : pc[t] \notin ReconnectPCs

\* Only the listener the coordinator remembers runs, and it does not while a start waits for it
\* to stop.
ListenerKnown ==
  /\ OneListener
  /\ \A t \in Tasks : pc[t] = "pausing" => listener # None /\ running = {}

\* What the step of a task does to the listener: nothing,
Listens(t) == UNCHANGED listenerVars /\ pc'[t] # "pausing"

\* it cancels the listener's task,
Pauses(t) == listener # None /\ CancelListener

\* forgets the listener it has cancelled,
Forgets(t) ==
  pc[t] = "pausing" /\ pc'[t] # "pausing" /\ listener' = None /\ running' = running

\* or starts one where there is none.
Resumes(t) ==
  /\ listener = None /\ pc'[t] # "pausing"
  /\ \E l \in Listeners : listener' = l /\ running' = running \cup {l}

LinkMoves(t) ==
  /\ \A u \in Tasks \ {t} : pc'[u] = pc[u]
  /\ client' = client /\ connected' = connected
  /\ pc'[t] \notin ReconnectPCs
  /\ Listens(t) \/ Pauses(t) \/ Forgets(t) \/ Resumes(t)

\* A step in which no task moves.
LinkStill == UNCHANGED <<pc, listenerVars, client, connected>>

LEMMA FirstLinkKept ==
  ASSUME FirstLink, LinkStill \/ \E t \in Tasks : LinkMoves(t)
  PROVE  FirstLink'
BY DEF FirstLink, LinkStill, LinkMoves

LEMMA ListenerKnownKept ==
  ASSUME TypeOK, SlotInv, ListenerKnown, LinkStill \/ \E t \in Tasks : LinkMoves(t)
  PROVE  ListenerKnown'
<1> USE DEF ListenerKnown, OneListener, listenerVars, TypeOK, ListenerTypes
<1>1. CASE LinkStill
  BY <1>1 DEF LinkStill
<1>2. ASSUME NEW t \in Tasks, LinkMoves(t)
      PROVE  ListenerKnown'
  <2>1. \A u \in Tasks \ {t} : pc'[u] = pc[u]
    BY <1>2 DEF LinkMoves
  <2>2. CASE Listens(t)
    BY <2>1, <2>2 DEF Listens
  <2>3. CASE Pauses(t)
    BY <2>1, <2>3 DEF Pauses, CancelListener
  <2>4. CASE Forgets(t)
    <3>1. \A u \in Tasks : pc[u] = "pausing" => u = t
      BY <2>4 DEF Forgets, SlotInv, Fits, InLock, LockHeldByStart
    <3> QED BY <2>1, <2>4, <3>1 DEF Forgets
  <2>5. CASE Resumes(t)
    BY <2>1, <2>5 DEF Resumes
  <2> QED BY <1>2, <2>2, <2>3, <2>4, <2>5 DEF LinkMoves
<1> QED BY <1>1, <1>2

\* A task that leaves the listener and the connection alone.
LEMMA ListensOn ==
  ASSUME TypeOK, NEW t \in Tasks, NEW p, pc' = [pc EXCEPT ![t] = p],
         p \notin ReconnectPCs \cup {"pausing"}, UNCHANGED <<listenerVars, client, connected>>
  PROVE  LinkMoves(t)
BY DEF LinkMoves, Listens, TypeOK, TaskTypes

LEMMA EnsureMoves ==
  ASSUME TypeOK, NEW t \in Tasks, NEW p, pc' = [pc EXCEPT ![t] = p],
         p \notin ReconnectPCs \cup {"pausing"}, client' = client, connected' = connected,
         NEW open, EnsureVipListener(open)
  PROVE  LinkMoves(t)
<1>1. pc'[t] = p /\ \A u \in Tasks \ {t} : pc'[u] = pc[u]
  BY DEF TypeOK, TaskTypes
<1>2. Listens(t) \/ Resumes(t)
  BY <1>1 DEF EnsureVipListener, StartListener, Listens, Resumes
<1> QED BY <1>1, <1>2 DEF LinkMoves

LEMMA CreateLinks ==
  ASSUME TypeOK, NEW t \in Tasks, NEW o, CreateSession(t, o),
         \/ UNCHANGED listenerVars
         \/ pc[t] = "pausing" /\ listener' = None /\ running' = running
  PROVE  LinkMoves(t)
<1>1. PICK p \in {"failing", "negotiating"} : pc' = [pc EXCEPT ![t] = p]
  BY DEF CreateSession, Set
<1>2. client' = client /\ connected' = connected
  BY DEF CreateSession
<1>3. pc'[t] = p /\ \A u \in Tasks \ {t} : pc'[u] = pc[u]
  BY <1>1 DEF TypeOK, TaskTypes
<1> QED BY <1>2, <1>3 DEF LinkMoves, Listens, Forgets

LEMMA PauseOrCreateLinks ==
  ASSUME TypeOK, NEW t \in Tasks, NEW o, PauseOrCreate(t, o)
  PROVE  LinkMoves(t)
<1>1. CASE /\ listener # None /\ CancelListener
           /\ Set(t, o, "pausing", None, ring[t]) /\ UNCHANGED linkVars
  BY <1>1 DEF Set, linkVars, LinkMoves, Pauses, TypeOK, TaskTypes
<1>2. CASE CreateSession(t, o) /\ UNCHANGED listenerVars
  BY <1>2, CreateLinks
<1> QED BY <1>1, <1>2 DEF PauseOrCreate

LEMMA LockedStartLinks ==
  ASSUME TypeOK, NEW t \in Tasks, NEW o, LockedStart(t, o)
  PROVE  LinkMoves(t)
<1>1. CASE TakeSession(t, o) /\ UNCHANGED <<listenerVars, linkVars>>
  BY <1>1, ListensOn DEF TakeSession, Set, linkVars
<1>2. CASE PauseOrCreate(t, o)
  BY <1>2, PauseOrCreateLinks
<1> QED BY <1>1, <1>2 DEF LockedStart

LEMMA StopVideoLinks ==
  ASSUME TypeOK, NEW t \in Tasks, StopVideo(t)
  PROVE  LinkMoves(t)
BY ListensOn DEF StopVideo, TakeSession, Finish, Set, linkVars

LEMMA StartVideoLinks ==
  ASSUME TypeOK, FirstLink, NEW t \in Tasks, NEW o, StartVideo(t, o)
  PROVE  LinkMoves(t)
BY LockedStartLinks DEF StartVideo, FirstLink

LEMMA TaskStepLinks ==
  ASSUME TypeOK, FirstLink, NEW t \in Tasks,
         StopStep(t) \/ StartStep(t) \/ ReconnectStep(t) \/ ButtonStep(t)
  PROVE  LinkMoves(t)
<1> USE DEF Awaits, Goto, Finish, Set, linkVars, RemoveChannels
<1>1. CASE StopStep(t)
  <2>1. CASE StopCleanup(t) \/ StopReturns(t)
    BY <2>1, ListensOn DEF StopCleanup, StopReturns
  <2>2. CASE StopReleases(t)
    BY <2>2, ListensOn, EnsureMoves DEF StopReleases
  <2> QED BY <1>1, <2>1, <2>2 DEF StopStep
<1>2. CASE StartStep(t)
  <2>1. CASE StopReturnsToStart(t)
    BY <2>1, PauseOrCreateLinks DEF StopReturnsToStart
  <2>2. CASE ListenerPaused(t)
    BY <2>2, CreateLinks DEF ListenerPaused
  <2>3. CASE NegotiationSucceeds(t) \/ NegotiationFails(t)
    BY <2>3, ListensOn DEF NegotiationSucceeds, NegotiationFails
  <2>4. CASE StartFails(t)
    BY <2>4, EnsureMoves DEF StartFails
  <2>5. CASE Publish(t) \/ StartReturns(t) \/ InboundAnnounces(t)
    BY <2>5, ListensOn DEF Publish, StartReturns, InboundAnnounces
  <2> QED BY <1>2, <2>1, <2>2, <2>3, <2>4, <2>5 DEF StartStep
<1>3. CASE ReconnectStep(t)
  BY <1>3 DEF ReconnectStep, ReconnectDropsSession, ReconnectDropsListener, ReconnectFails,
              ReconnectConnects, ReconnectOpensCtpp, ReconnectWithoutListener,
              ReconnectStartsListener, FirstLink
<1>4. CASE ButtonStep(t)
  <2>1. CASE AnswerSends(t) \/ AnswerReturns(t) \/ AnswerFails(t)
    BY <2>1, ListensOn DEF AnswerSends, AnswerReturns, AnswerFails
  <2>2. CASE DoorReads(t) \/ DoorReadTimesOut(t)
    BY <2>2, ListensOn DEF DoorReads, DoorReadTimesOut, NextDoorPC, Consume
  <2>3. CASE DoorOpened(t) \/ DoorFails(t)
    BY <2>3, ListensOn DEF DoorOpened, DoorFails
  <2>4. CASE DoorDelayEnds(t)
    BY <2>4, StopVideoLinks, ListensOn DEF DoorDelayEnds
  <2> QED BY <1>4, <2>1, <2>2, <2>3, <2>4 DEF ButtonStep
<1> QED BY <1>1, <1>2, <1>3, <1>4

LEMMA RequestLinks ==
  ASSUME TypeOK, FirstLink, NEW t \in Tasks, Request(t)
  PROVE  LinkMoves(t)
<1> USE DEF linkVars
<1>1. CASE UserStart(t)
  BY <1>1, StartVideoLinks DEF UserStart
<1>2. CASE UserStop(t) \/ CameraRemoved(t)
  BY <1>2, StopVideoLinks DEF UserStop, CameraRemoved
<1>3. CASE UserAnswer(t)
  <2>1. PICK p \in {"answering", "idle"} : pc' = [pc EXCEPT ![t] = p]
    BY <1>3 DEF UserAnswer, Set, Awaits, taskVars, TypeOK, TaskTypes
  <2> QED BY <1>3, <2>1, ListensOn DEF UserAnswer
<1>4. CASE DoorPress(t)
  <2>1. PICK p \in {"doorRead2", "doorOpen"} : pc' = [pc EXCEPT ![t] = p]
    BY <1>4 DEF DoorPress
  <2> QED BY <1>4, <2>1, ListensOn DEF DoorPress
<1>5. CASE HealthCheck(t)
  BY <1>5 DEF HealthCheck, FirstLink
<1> QED BY <1>1, <1>2, <1>3, <1>4, <1>5 DEF Request

LEMMA BeginStepLinks ==
  ASSUME TypeOK, FirstLink, NEW t \in Tasks, BeginStep(t)
  PROVE  LinkMoves(t)
<1> USE DEF linkVars
<1>1. CASE RestartWatched(t)
  BY <1>1, StartVideoLinks DEF RestartWatched
<1>2. CASE RestartUnwatched(t)
  BY <1>2, StopVideoLinks DEF RestartUnwatched
<1>3. CASE InboundBegins(t)
  BY <1>3, LockedStartLinks DEF InboundBegins
<1>4. CASE RestartRefused(t) \/ InboundSkipped(t)
  BY <1>4, ListensOn DEF RestartRefused, InboundSkipped, Finish, Set
<1> QED BY <1>1, <1>2, <1>3, <1>4 DEF BeginStep

LEMMA SpawnLinks ==
  ASSUME TypeOK, NEW o, NEW r, Spawn(o, r), UNCHANGED <<listenerVars, client, connected>>
  PROVE  \E t \in Tasks : LinkMoves(t)
BY ListensOn DEF Spawn, Set

\* Every step but the loss of a connection keeps the connection.
LEMMA NextLinks ==
  ASSUME TypeOK, FirstLink, [Next]_vars, drops = 0, drops' = 0
  PROVE  LinkStill \/ \E t \in Tasks : LinkMoves(t)
<1> USE DEF LinkStill, taskVars, listenerVars, linkVars
<1>1. CASE \E t \in Tasks : BeginStep(t)
  BY <1>1, BeginStepLinks
<1>2. CASE \E t \in Tasks : Request(t)
  BY <1>2, RequestLinks
<1>3. CASE \E t \in Tasks : TaskStep(t)
  <2>1. PICK t \in Tasks : TaskStep(t)
    BY <1>3
  <2>2. CASE NegotiationReads(t)
    BY <2>2 DEF NegotiationReads, Consume
  <2> QED BY <2>1, <2>2, TaskStepLinks DEF TaskStep
<1>4. CASE \E s \in Sessions : SessionStep(s)
  <2>1. PICK s \in Sessions : SessionStep(s)
    BY <1>4
  <2>2. CASE MonitorReads(s) \/ RenewalReads(s) \/ RenewalSucceeds(s)
    BY <2>2 DEF MonitorReads, RenewalReads, RenewalSucceeds, Consume
  <2>3. CASE RenewalFails(s)
    BY <2>3, SpawnLinks DEF RenewalFails, OnVideoCallEnd
  <2> QED BY <2>1, <2>2, <2>3 DEF SessionStep
<1>5. CASE \E s \in Sessions : TimerStep(s)
  BY <1>5, SpawnLinks DEF TimerStep, TimeoutFires, TimeoutReports, RemoveChannels, OnVideoCallEnd
<1>6. CASE \E l \in Listeners : ListenerReads(l)
  BY <1>6, SpawnLinks DEF ListenerReads, OnInboundRing, Consume
<1>7. CASE Environment
  BY <1>7 DEF Environment, DeviceSends, ConnectionDrops, RingGetsOld
<1>8. CASE UNCHANGED vars
  BY <1>8 DEF vars
<1> QED BY <1>1, <1>2, <1>3, <1>4, <1>5, <1>6, <1>7, <1>8 DEF Next

\* What holds until a connection is lost.
LinkInv == drops = 0 => FirstLink /\ ListenerKnown /\ AliveKnown

\* A lost connection stays counted.
LEMMA DropsGrow ==
  ASSUME TypeOK, [Next]_vars, drops' = 0
  PROVE  drops = 0
<1> USE DEF TypeOK, DeviceTypes, deviceVars
<1>1. CASE \E t \in Tasks : BeginStep(t)
  BY <1>1 DEF BeginStep, RestartWatched, RestartRefused, RestartUnwatched, InboundBegins,
              InboundSkipped, StartVideo, StopVideo
<1>2. CASE \E t \in Tasks : Request(t)
  BY <1>2 DEF Request, UserStart, UserStop, UserAnswer, DoorPress, CameraRemoved, HealthCheck,
              StartVideo, StopVideo
<1>3. CASE \E t \in Tasks : TaskStep(t)
  <2>1. PICK t \in Tasks : TaskStep(t)
    BY <1>3
  <2>2. CASE StopStep(t) \/ NegotiationReads(t)
    BY <2>2 DEF StopStep, StopCleanup, StopReleases, StopReturns, NegotiationReads
  <2>3. CASE StartStep(t)
    BY <2>3 DEF StartStep, StopReturnsToStart, ListenerPaused, NegotiationSucceeds,
                NegotiationFails, StartFails, Publish, StartReturns, InboundAnnounces
  <2>4. CASE ReconnectStep(t)
    BY <2>4 DEF ReconnectStep, ReconnectDropsSession, ReconnectDropsListener, ReconnectFails,
                ReconnectConnects, ReconnectOpensCtpp, ReconnectWithoutListener,
                ReconnectStartsListener
  <2>5. CASE ButtonStep(t)
    BY <2>5 DEF ButtonStep, AnswerSends, AnswerReturns, AnswerFails, DoorReads,
                DoorReadTimesOut, DoorOpened, DoorFails, DoorDelayEnds, StopVideo
  <2> QED BY <2>1, <2>2, <2>3, <2>4, <2>5 DEF TaskStep
<1>4. CASE \E s \in Sessions : SessionStep(s) \/ TimerStep(s)
  BY <1>4 DEF SessionStep, MonitorReads, RenewalReads, RenewalSucceeds, RenewalFails,
              TimerStep, TimeoutFires, TimeoutReports
<1>5. CASE \E l \in Listeners : ListenerReads(l)
  BY <1>5 DEF ListenerReads
<1>6. CASE Environment
  BY <1>6 DEF Environment, DeviceSends, ConnectionDrops, RingGetsOld
<1>7. CASE UNCHANGED vars
  BY <1>7 DEF vars
<1> QED BY <1>1, <1>2, <1>3, <1>4, <1>5, <1>6, <1>7 DEF Next

LEMMA LinkInvariance == Spec => []LinkInv
<1>1. Init => LinkInv
  BY DEF Init, LinkInv, FirstLink, ListenerKnown, OneListener, AliveKnown, Alive
<1>2. TypeOK /\ SlotInv /\ LinkInv /\ [Next]_vars => LinkInv'
  <2> SUFFICES ASSUME TypeOK, SlotInv, LinkInv, [Next]_vars, drops' = 0
               PROVE  FirstLink' /\ ListenerKnown' /\ AliveKnown'
    BY DEF LinkInv
  <2>1. drops = 0 /\ FirstLink /\ ListenerKnown /\ AliveKnown
    BY DropsGrow DEF LinkInv
  <2>2. FirstLink' /\ ListenerKnown'
    BY <2>1, NextLinks, FirstLinkKept, ListenerKnownKept
  <2>3. AliveKnown'
    <3>1. \A t \in Tasks : pc[t] # "rSession"
      BY <2>1 DEF FirstLink
    <3> QED BY <2>1, <3>1, NextHands, AliveKnownKept
  <2> QED BY <2>2, <2>3
<1> QED BY <1>1, <1>2, Invariance, PTL DEF Spec

\* Until a connection is lost, at most one listener task reads the CTPP channel and the
\* coordinator remembers it, so stop_task in the next start pauses it: _ensure_vip_listener
\* starts one only when none is remembered, and a start forgets one only when it has stopped.
THEOREM ListenerSingle == Spec => [](drops = 0 => OneListener)
<1>1. LinkInv => (drops = 0 => OneListener)
  BY DEF LinkInv, ListenerKnown
<1> QED BY <1>1, LinkInvariance, PTL

\* Until a connection is lost, a session with a call on the device is published or held by the
\* task that starts or stops it.
THEOREM SessionsHeld == Spec => [](drops = 0 => NoOrphanSession)
<1>1. LinkInv => (drops = 0 => NoOrphanSession)
  BY DEF LinkInv, AliveKnown, Alive, NoOrphanSession
<1> QED BY <1>1, LinkInvariance, PTL
-----------------------------------------------------------------------------
(* Which ring is announced *)

\* A ring that is announced, or that a start is to announce, is among the recent ones, which are
\* not taken up again; one start at most is to announce it, and only if nobody did yet.
RingInv ==
  /\ \A r \in Rings : announced[r] > 0 => r \in recent
  /\ \A t \in Tasks : op[t] = "inbound" /\ ring[t] # None =>
       ring[t] \in recent /\ announced[ring[t]] = 0
  /\ \A t, u \in Tasks :
       op[t] = "inbound" /\ op[u] = "inbound" /\ ring[t] = ring[u] /\ ring[t] # None => t = u
  /\ RingAnnouncedOnce

OthersRing(t) == \A u \in Tasks \ {t} : op'[u] = op[u] /\ ring'[u] = ring[u]

\* A task keeps its ring, forgets it, or has nothing to do with rings,
CarriesRing(t) ==
  /\ OthersRing(t) /\ recent' = recent /\ announced' = announced
  /\ op'[t] = "inbound" => op[t] = "inbound" /\ ring'[t] \in {ring[t], None}

\* starts for a ring the listener has read,
TakesRing(t) ==
  /\ OthersRing(t) /\ announced' = announced
  /\ op'[t] = "inbound" /\ ring'[t] \in Rings \ recent
  /\ recent' = recent \cup {ring'[t]}

\* or announces its own.
EndsRing(t) ==
  /\ OthersRing(t) /\ recent' = recent
  /\ op[t] = "inbound" /\ op'[t] # "inbound" /\ AnnounceRing(ring[t])

RingMoves(t) == CarriesRing(t) \/ TakesRing(t) \/ EndsRing(t)

\* A step in which no task's ring changes; the monitor of a session may announce one.
RingStill ==
  /\ UNCHANGED <<op, ring>>
  /\ \/ UNCHANGED <<recent, announced>>
     \/ \E r \in Rings \ recent : recent' = recent \cup {r} /\ AnnounceRing(r)

LEMMA RingInvKept ==
  ASSUME TypeOK, RingInv, RingStill \/ \E t \in Tasks : RingMoves(t)
  PROVE  RingInv'
<1> USE DEF RingInv, RingAnnouncedOnce, AnnounceRing, TypeOK, TaskTypes, RingTypes, HistoryTypes
<1>1. CASE RingStill
  <2>1. CASE UNCHANGED <<recent, announced>>
    BY <1>1, <2>1 DEF RingStill
  <2>2. ASSUME NEW r \in Rings \ recent, recent' = recent \cup {r}, AnnounceRing(r)
        PROVE  RingInv'
    <3>1. announced[r] = 0
      OBVIOUS
    <3>2. announced'[r] = 1 /\ \A z \in Rings \ {r} : announced'[z] = announced[z]
      BY <2>2, <3>1
    <3>3. op' = op /\ ring' = ring
      BY <1>1 DEF RingStill
    <3> QED BY <2>2, <3>2, <3>3
  <2> QED BY <1>1, <2>1, <2>2 DEF RingStill
<1>2. ASSUME NEW t \in Tasks, RingMoves(t)
      PROVE  RingInv'
  <2>1. CASE CarriesRing(t)
    BY <2>1 DEF CarriesRing, OthersRing
  <2>2. CASE TakesRing(t)
    BY <2>2 DEF TakesRing, OthersRing
  <2>3. CASE EndsRing(t)
    <3>1. CASE ring[t] = None
      BY <2>3, <3>1 DEF EndsRing, OthersRing
    <3>2. CASE ring[t] # None
      <4>1. announced'[ring[t]] = 1 /\ \A z \in Rings \ {ring[t]} : announced'[z] = announced[z]
        BY <2>3, <3>2 DEF EndsRing
      <4> QED BY <2>3, <3>2, <4>1 DEF EndsRing, OthersRing
    <3> QED BY <3>1, <3>2
  <2> QED BY <1>2, <2>1, <2>2, <2>3 DEF RingMoves
<1> QED BY <1>1, <1>2

LEMMA CarriesOn ==
  ASSUME TypeOK, NEW t \in Tasks, NEW o, NEW r,
         op' = [op EXCEPT ![t] = o], ring' = [ring EXCEPT ![t] = r],
         o = "inbound" => op[t] = "inbound" /\ r \in {ring[t], None},
         UNCHANGED <<recent, announced>>
  PROVE  RingMoves(t)
BY DEF RingMoves, CarriesRing, OthersRing, TypeOK, TaskTypes

LEMMA StopVideoCarries ==
  ASSUME TypeOK, NEW t \in Tasks, StopVideo(t)
  PROVE  RingMoves(t)
BY CarriesOn DEF StopVideo, TakeSession, Finish, Set, ringVars

LEMMA PauseOrCreateCarries ==
  ASSUME TypeOK, NEW t \in Tasks, NEW o, PauseOrCreate(t, o), o = "inbound" => op[t] = "inbound",
         UNCHANGED <<recent, announced>>
  PROVE  RingMoves(t)
BY CarriesOn DEF PauseOrCreate, CreateSession, Set

LEMMA LockedStartCarries ==
  ASSUME TypeOK, NEW t \in Tasks, NEW o, LockedStart(t, o), o = "inbound" => op[t] = "inbound",
         announced' = announced
  PROVE  RingMoves(t)
<1>1. CASE TakeSession(t, o) /\ UNCHANGED recent
  BY <1>1, CarriesOn DEF TakeSession, Set
<1>2. CASE PauseOrCreate(t, o) /\ UNCHANGED ringVars
  BY <1>2, PauseOrCreateCarries DEF ringVars
<1> QED BY <1>1, <1>2 DEF LockedStart

LEMMA ReconnectBeginsCarries ==
  ASSUME TypeOK, NEW t \in Tasks, NEW o, ReconnectBegins(t, o), o # "inbound",
         UNCHANGED <<recent, announced>>
  PROVE  RingMoves(t)
BY CarriesOn DEF ReconnectBegins, DropListener, Dial, Set

LEMMA StartVideoCarries ==
  ASSUME TypeOK, NEW t \in Tasks, NEW o, StartVideo(t, o), o # "inbound"
  PROVE  RingMoves(t)
BY LockedStartCarries, ReconnectBeginsCarries DEF StartVideo, ringVars

LEMMA TaskStepRings ==
  ASSUME TypeOK, NEW t \in Tasks, TaskStep(t)
  PROVE  RingStill \/ RingMoves(t)
<1> USE DEF RingStill, ringVars, history, Goto, taskVars
<1>1. CASE StopStep(t) \/ NegotiationReads(t)
  BY <1>1, CarriesOn
  DEF StopStep, StopCleanup, StopReleases, StopReturns, NegotiationReads, Finish, Set
<1>2. CASE StartStep(t)
  <2>1. CASE StopReturnsToStart(t)
    BY <2>1, PauseOrCreateCarries DEF StopReturnsToStart
  <2>2. CASE ListenerPaused(t)
    BY <2>2, CarriesOn DEF ListenerPaused, CreateSession, Set
  <2>3. CASE NegotiationSucceeds(t) \/ NegotiationFails(t) \/ Publish(t)
    BY <2>3 DEF NegotiationSucceeds, NegotiationFails, Publish
  <2>4. CASE StartFails(t) \/ StartReturns(t)
    BY <2>4, CarriesOn DEF StartFails, StartReturns, Finish, Set
  <2>5. CASE InboundAnnounces(t)
    BY <2>5
    DEF InboundAnnounces, Finish, Set, RingMoves, EndsRing, OthersRing, TypeOK, TaskTypes
  <2> QED BY <1>2, <2>1, <2>2, <2>3, <2>4, <2>5 DEF StartStep
<1>3. CASE ReconnectStep(t)
  <2>1. CASE ReconnectDropsSession(t) \/ ReconnectDropsListener(t)
    BY <2>1, CarriesOn DEF ReconnectDropsSession, ReconnectDropsListener, DropListener, Dial, Set
  <2>2. CASE ReconnectFails(t) \/ ReconnectConnects(t) \/ ReconnectOpensCtpp(t)
    BY <2>2, CarriesOn DEF ReconnectFails, ReconnectConnects, ReconnectOpensCtpp, Finish, Set
  <2>3. CASE ReconnectWithoutListener(t)
    BY <2>3, CarriesOn, LockedStartCarries
    DEF ReconnectWithoutListener, ReconnectReturns, Finish, Set
  <2>4. CASE ReconnectStartsListener(t)
    BY <2>4, CarriesOn DEF ReconnectStartsListener, Finish, Set
  <2> QED BY <1>3, <2>1, <2>2, <2>3, <2>4 DEF ReconnectStep
<1>4. CASE ButtonStep(t)
  <2>1. CASE AnswerSends(t) \/ DoorReads(t) \/ DoorReadTimesOut(t)
    BY <2>1 DEF AnswerSends, DoorReads, DoorReadTimesOut
  <2>2. CASE AnswerReturns(t) \/ AnswerFails(t) \/ DoorOpened(t) \/ DoorFails(t)
    BY <2>2, CarriesOn DEF AnswerReturns, AnswerFails, DoorOpened, DoorFails, Finish, Set
  <2>3. CASE DoorDelayEnds(t)
    BY <2>3, StopVideoCarries, CarriesOn DEF DoorDelayEnds, Finish, Set
  <2> QED BY <1>4, <2>1, <2>2, <2>3 DEF ButtonStep
<1> QED BY <1>1, <1>2, <1>3, <1>4 DEF TaskStep

LEMMA RequestRings ==
  ASSUME TypeOK, NEW t \in Tasks, Request(t)
  PROVE  RingMoves(t)
<1> USE DEF ringVars, history
<1>1. CASE UserStart(t)
  BY <1>1, StartVideoCarries DEF UserStart
<1>2. CASE UserStop(t) \/ CameraRemoved(t)
  BY <1>2, StopVideoCarries DEF UserStop, CameraRemoved
<1>3. CASE UserAnswer(t)
  <2>1. \/ op' = [op EXCEPT ![t] = "answer"] /\ ring' = [ring EXCEPT ![t] = None]
        \/ op' = [op EXCEPT ![t] = op[t]] /\ ring' = [ring EXCEPT ![t] = ring[t]]
    BY <1>3 DEF UserAnswer, Set, taskVars, TypeOK, TaskTypes
  <2>2. UNCHANGED <<recent, announced>>
    BY <1>3 DEF UserAnswer, ringVars, history
  <2> QED BY <2>1, <2>2, CarriesOn
<1>4. CASE DoorPress(t)
  BY <1>4 DEF DoorPress, RingMoves, CarriesRing, OthersRing, TypeOK, TaskTypes
<1>5. CASE HealthCheck(t)
  BY <1>5, ReconnectBeginsCarries DEF HealthCheck
<1> QED BY <1>1, <1>2, <1>3, <1>4, <1>5 DEF Request

LEMMA BeginStepRings ==
  ASSUME TypeOK, NEW t \in Tasks, BeginStep(t)
  PROVE  RingMoves(t)
<1> USE DEF ringVars, history, Begins
<1>1. CASE RestartWatched(t)
  BY <1>1, StartVideoCarries DEF RestartWatched
<1>2. CASE RestartUnwatched(t)
  BY <1>2, StopVideoCarries DEF RestartUnwatched
<1>3. CASE InboundBegins(t)
  BY <1>3, LockedStartCarries DEF InboundBegins
<1>4. CASE RestartRefused(t) \/ InboundSkipped(t)
  BY <1>4, CarriesOn DEF RestartRefused, InboundSkipped, Finish, Set
<1> QED BY <1>1, <1>2, <1>3, <1>4 DEF BeginStep

LEMMA RestartSpawns ==
  ASSUME TypeOK, OnVideoCallEnd, UNCHANGED <<recent, announced>>
  PROVE  RingStill \/ \E t \in Tasks : RingMoves(t)
BY CarriesOn DEF OnVideoCallEnd, Spawn, Set, RingStill, taskVars

LEMMA NextRings ==
  ASSUME TypeOK, [Next]_vars
  PROVE  RingStill \/ \E t \in Tasks : RingMoves(t)
<1> USE DEF RingStill, taskVars, ringVars, history
<1>1. CASE \E t \in Tasks : BeginStep(t)
  BY <1>1, BeginStepRings
<1>2. CASE \E t \in Tasks : Request(t) \/ TaskStep(t)
  BY <1>2, RequestRings, TaskStepRings
<1>3. CASE \E s \in Sessions : SessionStep(s)
  <2>1. PICK s \in Sessions : SessionStep(s)
    BY <1>3
  <2>2. CASE MonitorReads(s)
    BY <2>2 DEF MonitorReads, OnRingDuringVideo
  <2>3. CASE RenewalReads(s) \/ RenewalSucceeds(s)
    BY <2>3 DEF RenewalReads, RenewalSucceeds
  <2>4. CASE RenewalFails(s)
    BY <2>4, RestartSpawns DEF RenewalFails
  <2> QED BY <2>1, <2>2, <2>3, <2>4 DEF SessionStep
<1>4. CASE \E s \in Sessions : TimerStep(s)
  BY <1>4, RestartSpawns DEF TimerStep, TimeoutFires, TimeoutReports
<1>5. CASE \E l \in Listeners : ListenerReads(l)
  <2>1. PICK l \in Listeners : ListenerReads(l)
    BY <1>5
  <2>2. ASSUME NEW r \in Rings, OnInboundRing(r), announced' = announced
        PROVE  RingStill \/ \E t \in Tasks : RingMoves(t)
    <3>1. CASE r \in recent
      BY <2>2, <3>1 DEF OnInboundRing
    <3>2. CASE r \notin recent
      <4>1. recent' = recent \cup {r} /\ Spawn("inbound", r)
        BY <2>2, <3>2 DEF OnInboundRing
      <4>2. PICK t \in Tasks : Set(t, "inbound", "begin", None, r)
        BY <4>1 DEF Spawn
      <4>3. TakesRing(t)
        BY <2>2, <3>2, <4>1, <4>2 DEF Set, TakesRing, OthersRing, TypeOK, TaskTypes
      <4> QED BY <4>3 DEF RingMoves
    <3> QED BY <3>1, <3>2
  <2>3. CASE OnCallIdle /\ UNCHANGED <<taskVars, announced>>
    BY <2>3 DEF OnCallIdle
  <2>4. CASE UNCHANGED <<taskVars, ringVars, announced>>
    BY <2>4
  <2> QED BY <2>1, <2>2, <2>3, <2>4 DEF ListenerReads
<1>6. CASE Environment
  BY <1>6 DEF Environment, DeviceSends, ConnectionDrops, RingGetsOld
<1>7. CASE UNCHANGED vars
  BY <1>7 DEF vars
<1> QED BY <1>1, <1>2, <1>3, <1>4, <1>5, <1>6, <1>7 DEF Next

\* A ring is announced at most once, however often the device repeats it and whether the
\* listener or a running session reads the repeats: both note it in _recent_rings before they
\* take it up, and what a start will announce has been announced by nobody.
THEOREM AnnouncedOnce == Spec => []RingAnnouncedOnce
<1>1. Init => RingInv
  BY DEF Init, RingInv, RingAnnouncedOnce
<1>2. TypeOK /\ RingInv /\ [Next]_vars => RingInv'
  BY NextRings, RingInvKept
<1>3. RingInv => RingAnnouncedOnce
  BY DEF RingInv
<1> QED BY <1>1, <1>2, <1>3, TypeCorrect, PTL DEF Spec
=============================================================================
