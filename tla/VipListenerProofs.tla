-------------------------- MODULE VipListenerProofs --------------------------
(* Proofs about VipListener, for every set of presses, every window and bound. *)
EXTENDS VipListener, TLAPS

USE ConstantsAssumption
-----------------------------------------------------------------------------
(* Queues and reports *)

\* What the head and the tail of a queue are.
LEMMA HeadAndTail ==
  ASSUME NEW q \in Seq(Frames), q # <<>>
  PROVE  Head(q) \in Frames /\ Tail(q) \in Seq(Frames)
OBVIOUS

\* The frames that announce something are presses.
LEMMA PressKinds ==
  ASSUME NEW f \in Frames, f.kind \in {"init", "alerting", "door"}
  PROVE  f \in Presses
BY DEF Frames, Requests

LEMMA FireTypes ==
  ASSUME EventTypes, now \in 0 .. MaxTime, NEW p \in Presses, NEW type \in Types, Fire(type, p)
  PROVE  EventTypes'
BY DEF EventTypes, Fire, Report, Silent, events

LEMMA RingOnceTypes ==
  ASSUME EventTypes, now \in 0 .. MaxTime, NEW p \in Presses, RingOnce(p)
  PROVE  EventTypes'
BY DEF EventTypes, RingOnce, Report, Silent, events

LEMMA HandleTypes ==
  ASSUME EventTypes, now \in 0 .. MaxTime, NEW f \in Frames, Handle(f)
  PROVE  EventTypes'
<1>1. CASE f.kind = "init"
  BY <1>1, PressKinds, RingOnceTypes DEF Handle
<1>2. CASE f.kind = "alerting"
  BY <1>2, PressKinds, FireTypes DEF Handle, Types
<1>3. CASE f.kind = "door"
  BY <1>3, PressKinds, FireTypes DEF Handle, Types
<1>4. CASE f.kind \notin {"init", "alerting", "door"}
  BY <1>4 DEF Handle, Silent, EventTypes, events
<1> QED BY <1>1, <1>2, <1>3, <1>4
-----------------------------------------------------------------------------
(* Typing, action by action *)

LEMMA ConnectTypes ==
  ASSUME TypeOK, Connect
  PROVE  TypeOK'
<1>1. LinkTypes'
  <2>1. connections' \in 0 .. MaxConnections
    BY DEF TypeOK, LinkTypes, Connect
  <2> QED BY <2>1 DEF TypeOK, LinkTypes, Connect
<1>2. DeviceTypes'
  BY DEF TypeOK, DeviceTypes, Connect, Stopped, Quiet, Frames, device
<1>3. ReaderTypes'
  BY DEF TypeOK, LinkTypes, ReaderTypes, Stages, Connect, Stopped, Quiet, device, link, listenerVars
<1>4. EventTypes'
  BY DEF TypeOK, EventTypes, Connect, Stopped, Quiet, listenerVars, events
<1> QED BY <1>1, <1>2, <1>3, <1>4 DEF TypeOK

LEMMA OpenCtppTypes ==
  ASSUME TypeOK, OpenCtpp
  PROVE  TypeOK'
<1>1. LinkTypes'
  BY DEF TypeOK, LinkTypes, ReaderTypes, OpenCtpp, Quiet, device, link, outcome
<1>2. DeviceTypes'
  BY DEF TypeOK, DeviceTypes, OpenCtpp, Quiet, Frames, device
<1>3. ReaderTypes'
  BY DEF TypeOK, LinkTypes, ReaderTypes, Stages, OpenCtpp, Quiet, device, link, listenerVars
<1>4. EventTypes'
  BY DEF TypeOK, EventTypes, OpenCtpp, Quiet, listenerVars, events
<1> QED BY <1>1, <1>2, <1>3, <1>4 DEF TypeOK

LEMMA ReadReplyTypes ==
  ASSUME TypeOK, ReadReply
  PROVE  TypeOK'
<1>1. LinkTypes'
  BY DEF TypeOK, LinkTypes, ReaderTypes, ReadReply, Quiet, device, link, outcome
<1>2. DeviceTypes'
  BY HeadAndTail DEF TypeOK, DeviceTypes, ReadReply, Quiet, Frames, device
<1>3. ReaderTypes'
  BY DEF TypeOK, LinkTypes, ReaderTypes, Stages, ReadReply, Quiet, device, link, listenerVars
<1>4. EventTypes'
  BY DEF TypeOK, EventTypes, ReadReply, Quiet, listenerVars, events
<1> QED BY <1>1, <1>2, <1>3, <1>4 DEF TypeOK

LEMMA RegistersTypes ==
  ASSUME TypeOK, Registers
  PROVE  TypeOK'
<1>1. LinkTypes'
  <2>1. registered \in 1 .. MaxInits
    BY DEF TypeOK, LinkTypes, ReaderTypes, Registers
  <2>2. initTs' \in 0 .. MaxInits
    BY <2>1 DEF TypeOK, LinkTypes, Registers
  <2>3. opened' \in BOOLEAN
    BY Zenon DEF TypeOK, LinkTypes, Registers
  <2> QED BY <2>2, <2>3 DEF TypeOK, LinkTypes, Registers, device, link
<1>2. DeviceTypes'
  BY DEF TypeOK, DeviceTypes, Registers, NewListener, Frames, device
<1>3. ReaderTypes'
  BY DEF TypeOK, LinkTypes, ReaderTypes, Stages, Registers, NewListener, device, link, listenerVars
<1>4. EventTypes'
  BY DEF TypeOK, EventTypes, Registers, NewListener, listenerVars, events
<1> QED BY <1>1, <1>2, <1>3, <1>4 DEF TypeOK

LEMMA ListenerReadsTypes ==
  ASSUME TypeOK, ListenerReads
  PROVE  TypeOK'
<1>1. EventTypes /\ now \in 0 .. MaxTime
  BY DEF TypeOK, DeviceTypes
<1>2. queue # <<>> /\ queue \in Seq(Frames)
  BY DEF TypeOK, DeviceTypes, ListenerReads
<1>3. Head(queue) \in Frames /\ Tail(queue) \in Seq(Frames)
  BY <1>2, HeadAndTail
<1>4. LinkTypes'
  BY DEF TypeOK, LinkTypes, ListenerReads, link, outcome
<1>5. DeviceTypes'
  BY <1>3 DEF TypeOK, DeviceTypes, ListenerReads
<1>6. ReaderTypes'
  BY <1>3 DEF TypeOK, ReaderTypes, ListenerReads, Stages, link
<1>7. EventTypes'
  <2>1. Silent \/ Handle(Head(queue))
    BY DEF ListenerReads
  <2>2. CASE Silent
    BY <1>1, <2>2 DEF EventTypes, Silent, events
  <2> QED BY <1>1, <1>3, <2>1, <2>2, HandleTypes
<1> QED BY <1>4, <1>5, <1>6, <1>7 DEF TypeOK

LEMMA ListenerAckedTypes ==
  ASSUME TypeOK, ListenerAcked
  PROVE  TypeOK'
<1>1. EventTypes /\ now \in 0 .. MaxTime
  BY DEF TypeOK, DeviceTypes
<1>2. frame \in Frames
  BY DEF TypeOK, ReaderTypes, ListenerAcked
<1>3. LinkTypes'
  BY DEF TypeOK, LinkTypes, ListenerAcked, device, link, outcome
<1>4. DeviceTypes'
  BY DEF TypeOK, DeviceTypes, ListenerAcked, device
<1>5. ReaderTypes'
  BY <1>2 DEF TypeOK, ReaderTypes, ListenerAcked, Stages, link
<1>6. EventTypes'
  <2>1. Silent \/ Handle(frame)
    BY DEF ListenerAcked
  <2>2. CASE Silent
    BY <1>1, <2>2 DEF EventTypes, Silent, events
  <2> QED BY <1>1, <1>2, <2>1, <2>2, HandleTypes
<1> QED BY <1>3, <1>4, <1>5, <1>6 DEF TypeOK

LEMMA ListenerConfirmedTypes ==
  ASSUME TypeOK, ListenerConfirmed
  PROVE  TypeOK'
<1>1. LinkTypes'
  BY DEF TypeOK, LinkTypes, ReaderTypes, ListenerConfirmed, Quiet, device, link, outcome
<1>2. DeviceTypes'
  BY DEF TypeOK, DeviceTypes, ListenerConfirmed, Quiet, Frames, device
<1>3. ReaderTypes'
  BY DEF TypeOK, LinkTypes, ReaderTypes, Stages, ListenerConfirmed, Quiet, device, link, listenerVars
<1>4. EventTypes'
  BY DEF TypeOK, EventTypes, ListenerConfirmed, Quiet, listenerVars, events
<1> QED BY <1>1, <1>2, <1>3, <1>4 DEF TypeOK

LEMMA CallStartsTypes ==
  ASSUME TypeOK, CallStarts
  PROVE  TypeOK'
<1>1. LinkTypes'
  BY DEF TypeOK, LinkTypes, ReaderTypes, CallStarts, Stopped, Quiet, Listening, device, link, outcome
<1>2. DeviceTypes'
  BY DEF TypeOK, DeviceTypes, CallStarts, Stopped, Quiet, Listening, Frames, device
<1>3. ReaderTypes'
  BY DEF TypeOK, LinkTypes, ReaderTypes, Stages, CallStarts, Stopped, Quiet, Listening, device, link, listenerVars
<1>4. EventTypes'
  BY DEF TypeOK, EventTypes, CallStarts, Stopped, Quiet, Listening, listenerVars, events
<1> QED BY <1>1, <1>2, <1>3, <1>4 DEF TypeOK

LEMMA CallReadsTypes ==
  ASSUME TypeOK, CallReads
  PROVE  TypeOK'
<1>1. LinkTypes'
  BY DEF TypeOK, LinkTypes, ReaderTypes, CallReads, device, link, outcome
<1>2. DeviceTypes'
  BY HeadAndTail DEF TypeOK, DeviceTypes, CallReads, Frames, device
<1>3. ReaderTypes'
  BY DEF TypeOK, LinkTypes, ReaderTypes, Stages, CallReads, device, link, listenerVars
<1>4. EventTypes'
  BY DEF TypeOK, EventTypes, CallReads, listenerVars, events
<1> QED BY <1>1, <1>2, <1>3, <1>4 DEF TypeOK

LEMMA MonitorStartsTypes ==
  ASSUME TypeOK, MonitorStarts
  PROVE  TypeOK'
<1>1. LinkTypes'
  BY DEF TypeOK, LinkTypes, ReaderTypes, MonitorStarts, Quiet, device, link, outcome
<1>2. DeviceTypes'
  BY DEF TypeOK, DeviceTypes, MonitorStarts, Quiet, Frames, device
<1>3. ReaderTypes'
  BY DEF TypeOK, LinkTypes, ReaderTypes, Stages, MonitorStarts, Quiet, device, link, listenerVars
<1>4. EventTypes'
  BY DEF TypeOK, EventTypes, MonitorStarts, Quiet, listenerVars, events
<1> QED BY <1>1, <1>2, <1>3, <1>4 DEF TypeOK

LEMMA MonitorReadsTypes ==
  ASSUME TypeOK, MonitorReads
  PROVE  TypeOK'
<1>1. EventTypes /\ now \in 0 .. MaxTime
  BY DEF TypeOK, DeviceTypes
<1>2. queue # <<>> /\ queue \in Seq(Frames)
  BY DEF TypeOK, DeviceTypes, MonitorReads
<1>3. Head(queue) \in Frames /\ Tail(queue) \in Seq(Frames)
  BY <1>2, HeadAndTail
<1>4. LinkTypes'
  BY DEF TypeOK, LinkTypes, MonitorReads, link, outcome
<1>5. DeviceTypes'
  BY <1>3 DEF TypeOK, DeviceTypes, MonitorReads
<1>6. ReaderTypes'
  BY <1>3, PressKinds DEF TypeOK, ReaderTypes, MonitorReads, Stages, link
<1>7. EventTypes'
  <2>1. Silent \/ (Head(queue).kind = "init" /\ RingOnce(Head(queue)))
    BY DEF MonitorReads
  <2>2. CASE Silent
    BY <1>1, <2>2 DEF EventTypes, Silent, events
  <2> QED BY <1>1, <1>3, <2>1, <2>2, PressKinds, RingOnceTypes
<1> QED BY <1>4, <1>5, <1>6, <1>7 DEF TypeOK

LEMMA MonitorForwardsTypes ==
  ASSUME TypeOK, MonitorForwards
  PROVE  TypeOK'
<1>1. EventTypes /\ now \in 0 .. MaxTime
  BY DEF TypeOK, DeviceTypes
<1>2. frame \in Presses
  BY DEF TypeOK, ReaderTypes, MonitorForwards
<1>3. LinkTypes'
  BY DEF TypeOK, LinkTypes, MonitorForwards, device, link, outcome
<1>4. DeviceTypes'
  BY DEF TypeOK, DeviceTypes, MonitorForwards, device
<1>5. ReaderTypes'
  BY DEF TypeOK, ReaderTypes, MonitorForwards, Stages, link
<1>6. EventTypes'
  <2>1. CASE RingOnce(frame)
    BY <1>1, <1>2, <2>1, RingOnceTypes
  <2>2. CASE Silent
    BY <1>1, <2>2 DEF EventTypes, Silent, events
  <2> QED BY <2>1, <2>2 DEF MonitorForwards
<1> QED BY <1>3, <1>4, <1>5, <1>6 DEF TypeOK

LEMMA CallRenewedTypes ==
  ASSUME TypeOK, CallRenewed
  PROVE  TypeOK'
<1>1. LinkTypes'
  BY DEF TypeOK, LinkTypes, ReaderTypes, CallRenewed, Quiet, device, link, outcome
<1>2. DeviceTypes'
  BY HeadAndTail DEF TypeOK, DeviceTypes, CallRenewed, Quiet, Frames, device
<1>3. ReaderTypes'
  BY DEF TypeOK, LinkTypes, ReaderTypes, Stages, CallRenewed, Quiet, device, link, listenerVars
<1>4. EventTypes'
  BY DEF TypeOK, EventTypes, CallRenewed, Quiet, listenerVars, events
<1> QED BY <1>1, <1>2, <1>3, <1>4 DEF TypeOK

LEMMA RenewalRegistersTypes ==
  ASSUME TypeOK, RenewalRegisters
  PROVE  TypeOK'
<1>1. LinkTypes'
  BY DEF TypeOK, LinkTypes, ReaderTypes, RenewalRegisters, device, link, outcome
<1>2. DeviceTypes'
  BY DEF TypeOK, DeviceTypes, RenewalRegisters, Frames, device
<1>3. ReaderTypes'
  BY DEF TypeOK, LinkTypes, ReaderTypes, Stages, RenewalRegisters, device, link, listenerVars
<1>4. EventTypes'
  BY DEF TypeOK, EventTypes, RenewalRegisters, listenerVars, events
<1> QED BY <1>1, <1>2, <1>3, <1>4 DEF TypeOK

LEMMA SessionEndsTypes ==
  ASSUME TypeOK, SessionEnds
  PROVE  TypeOK'
<1>1. LinkTypes'
  BY DEF TypeOK, LinkTypes, ReaderTypes, SessionEnds, NewListener, Stopped, Quiet, device, link, outcome
<1>2. DeviceTypes'
  BY DEF TypeOK, DeviceTypes, SessionEnds, NewListener, Stopped, Quiet, Frames, device
<1>3. ReaderTypes'
  BY DEF TypeOK, LinkTypes, ReaderTypes, Stages, SessionEnds, NewListener, Stopped, Quiet, device, link, listenerVars
<1>4. EventTypes'
  BY DEF TypeOK, EventTypes, SessionEnds, NewListener, Stopped, Quiet, listenerVars, events
<1> QED BY <1>1, <1>2, <1>3, <1>4 DEF TypeOK

LEMMA PressTypes ==
  ASSUME TypeOK, NEW p \in Presses, Press(p)
  PROVE  TypeOK'
<1>1. LinkTypes'
  BY DEF TypeOK, LinkTypes, ReaderTypes, Press, Receives, Quiet, device, link, outcome
<1>2. DeviceTypes'
  BY DEF TypeOK, DeviceTypes, Press, Receives, Quiet, Frames, device
<1>3. ReaderTypes'
  BY DEF TypeOK, LinkTypes, ReaderTypes, Stages, Press, Receives, Quiet, device, link, listenerVars
<1>4. EventTypes'
  BY DEF TypeOK, EventTypes, Press, Receives, Quiet, listenerVars, events
<1> QED BY <1>1, <1>2, <1>3, <1>4 DEF TypeOK

LEMMA RequestTypes ==
  ASSUME TypeOK, NEW f \in Requests, Request(f)
  PROVE  TypeOK'
<1>1. LinkTypes'
  BY DEF TypeOK, LinkTypes, ReaderTypes, Request, Receives, Quiet, device, link, outcome
<1>2. DeviceTypes'
  BY DEF TypeOK, DeviceTypes, Request, Receives, Quiet, Frames, device
<1>3. ReaderTypes'
  BY DEF TypeOK, LinkTypes, ReaderTypes, Stages, Request, Receives, Quiet, device, link, listenerVars
<1>4. EventTypes'
  BY DEF TypeOK, EventTypes, Request, Receives, Quiet, listenerVars, events
<1> QED BY <1>1, <1>2, <1>3, <1>4 DEF TypeOK

LEMMA LostTypes ==
  ASSUME TypeOK, Lost
  PROVE  TypeOK'
<1>1. LinkTypes'
  BY DEF TypeOK, LinkTypes, ReaderTypes, Lost, Quiet, device, link, outcome
<1>2. DeviceTypes'
  BY DEF TypeOK, DeviceTypes, Lost, Quiet, Frames, device
<1>3. ReaderTypes'
  BY DEF TypeOK, LinkTypes, ReaderTypes, Stages, Lost, Quiet, device, link, listenerVars
<1>4. EventTypes'
  BY DEF TypeOK, EventTypes, Lost, Quiet, listenerVars, events
<1> QED BY <1>1, <1>2, <1>3, <1>4 DEF TypeOK

LEMMA TickTypes ==
  ASSUME TypeOK, Tick
  PROVE  TypeOK'
<1>1. LinkTypes'
  BY DEF TypeOK, LinkTypes, ReaderTypes, Tick, Quiet, Listening, device, link, outcome
<1>2. DeviceTypes'
  BY DEF TypeOK, DeviceTypes, Tick, Quiet, Listening, Frames, device
<1>3. ReaderTypes'
  BY DEF TypeOK, LinkTypes, ReaderTypes, Stages, Tick, Quiet, Listening, device, link, listenerVars
<1>4. EventTypes'
  BY DEF TypeOK, EventTypes, Tick, Quiet, Listening, listenerVars, events
<1> QED BY <1>1, <1>2, <1>3, <1>4 DEF TypeOK

-----------------------------------------------------------------------------
(* Theorems *)

LEMMA TypeStep == TypeOK /\ [Next]_vars => TypeOK'
<1> SUFFICES ASSUME TypeOK, [Next]_vars PROVE TypeOK'
  OBVIOUS
<1>1. CASE Registration
  BY <1>1, ConnectTypes, OpenCtppTypes, ReadReplyTypes, RegistersTypes DEF Registration
<1>2. CASE Listener
  BY <1>2, ListenerReadsTypes, ListenerAckedTypes, ListenerConfirmedTypes DEF Listener
<1>3. CASE Call
  BY <1>3, CallStartsTypes, CallReadsTypes, MonitorStartsTypes, MonitorReadsTypes,
     MonitorForwardsTypes, CallRenewedTypes, RenewalRegistersTypes, SessionEndsTypes DEF Call
<1>4. CASE Device
  BY <1>4, PressTypes, RequestTypes, LostTypes DEF Device
<1>5. CASE Tick
  BY <1>5, TickTypes
<1>6. CASE UNCHANGED vars
  BY <1>6 DEF TypeOK, LinkTypes, DeviceTypes, ReaderTypes, EventTypes, vars, device, link,
     listenerVars, events, outcome
<1> QED BY <1>1, <1>2, <1>3, <1>4, <1>5, <1>6 DEF Next

\* Every reachable state of the listener, the handshake and the call's reads is well
\* typed; a frame is held exactly while its answer is on the way.
THEOREM TypeCorrect == Spec => []TypeOK
<1>1. ASSUME Init PROVE TypeOK
  <2>1. LinkTypes
    <3>1. up \in BOOLEAN /\ ctppOpen \in BOOLEAN /\ opened \in BOOLEAN /\ renewed \in BOOLEAN
      BY <1>1, Zenon DEF Init
    <3> QED BY <1>1, <3>1 DEF Init, LinkTypes
  <2>2. DeviceTypes
    BY <1>1 DEF Init, DeviceTypes
  <2>3. ReaderTypes
    BY <1>1 DEF Init, ReaderTypes, Stages
  <2>4. EventTypes
    BY <1>1 DEF Init, EventTypes
  <2> QED BY <2>1, <2>2, <2>3, <2>4 DEF TypeOK
<1> QED BY <1>1, TypeStep, PTL DEF Spec
-----------------------------------------------------------------------------
(* The timestamp of the renewal ACKs *)

LEMMA RegistrationInvInit == Init => RegistrationInv
BY DEF Init, RegistrationInv, Listening

LEMMA RegistrationInvStep ==
  TypeOK /\ RegistrationInv /\ [Next]_vars => RegistrationInv'
<1> SUFFICES ASSUME TypeOK, RegistrationInv, [Next]_vars PROVE RegistrationInv'
  OBVIOUS
<1> USE DEF RegistrationInv, Listening
<1>1. CASE Connect
  BY <1>1 DEF Connect
<1>2. CASE OpenCtpp
  BY <1>2 DEF OpenCtpp, TypeOK, LinkTypes, outcome
<1>3. CASE ReadReply
  BY <1>3 DEF ReadReply, link, listenerVars, outcome
<1>4. CASE Registers
  BY <1>4 DEF Registers, NewListener, link, device
<1>5. CASE ListenerReads
  BY <1>5 DEF ListenerReads, link, outcome
<1>6. CASE ListenerAcked
  BY <1>6 DEF ListenerAcked, link, outcome
<1>7. CASE ListenerConfirmed
  BY <1>7 DEF ListenerConfirmed, link, listenerVars, outcome
<1>8. CASE CallStarts
  BY <1>8 DEF CallStarts, link, outcome
<1>9. CASE CallReads
  BY <1>9 DEF CallReads, link, outcome, listenerVars
<1>10. CASE MonitorStarts
  BY <1>10 DEF MonitorStarts, link, outcome
<1>11. CASE MonitorReads
  BY <1>11 DEF MonitorReads, link, outcome
<1>12. CASE MonitorForwards
  BY <1>12 DEF MonitorForwards, link, outcome
<1>13. CASE CallRenewed
  BY <1>13 DEF CallRenewed, TypeOK, LinkTypes
<1>14. CASE RenewalRegisters
  BY <1>14 DEF RenewalRegisters, link, outcome
<1>15. CASE SessionEnds
  BY <1>15 DEF SessionEnds, NewListener, link, outcome
<1>16. ASSUME NEW p \in Presses, Press(p) PROVE RegistrationInv'
  BY <1>16 DEF Press, link, listenerVars, outcome
<1>17. ASSUME NEW f \in Requests, Request(f) PROVE RegistrationInv'
  BY <1>17 DEF Request, link, listenerVars, outcome
<1>18. CASE Lost
  BY <1>18 DEF Lost, listenerVars, outcome
<1>19. CASE Tick
  BY <1>19 DEF Tick, link, listenerVars, outcome
<1>20. CASE UNCHANGED vars
  BY <1>20 DEF vars, link, listenerVars, outcome
<1> QED
  BY <1>1, <1>2, <1>3, <1>4, <1>5, <1>6, <1>7, <1>8, <1>9, <1>10, <1>11, <1>12, <1>13, <1>14,
     <1>15, <1>16, <1>17, <1>18, <1>19, <1>20
     DEF Next, Registration, Listener, Call, Device

\* Until a call is renewed, the coordinator and the listener hold the timestamp of the
\* init the device got on the connection (_ctpp_init_ts, _ack_ts).
THEOREM RegistrationKept == Spec => []RegistrationInv
BY TypeCorrect, RegistrationInvInit, RegistrationInvStep, PTL DEF Spec

LEMMA AnswerStep ==
  TypeOK /\ RegistrationInv /\ [Next]_vars
  => [pair' # None /\ opened' /\ ~renewed => pair' = registered]_vars
<1> SUFFICES ASSUME TypeOK, RegistrationInv, Next, pair' # None, opened', ~renewed
              PROVE  pair' = registered
  BY Zenon
<1> USE DEF Quiet
<1>1. CASE Registration
  BY <1>1 DEF Registration, Connect, OpenCtpp, ReadReply, Registers
<1>2. CASE ListenerReads
  BY <1>2 DEF ListenerReads
<1>3. CASE ListenerAcked
  BY <1>3 DEF ListenerAcked, RegistrationInv, Listening, outcome
<1>4. CASE ListenerConfirmed
  BY <1>4 DEF ListenerConfirmed
<1>5. CASE CallReads
  BY <1>5 DEF CallReads, RegistrationInv, outcome
<1>6. CASE MonitorStarts \/ MonitorReads \/ MonitorForwards
  BY <1>6 DEF MonitorStarts, MonitorReads, MonitorForwards
<1>7. CASE CallStarts \/ CallRenewed \/ RenewalRegisters \/ SessionEnds
  BY <1>7 DEF CallStarts, CallRenewed, RenewalRegisters, SessionEnds
<1>8. CASE Device \/ Tick
  BY <1>8 DEF Device, Press, Request, Lost, Tick
<1> QED BY <1>1, <1>2, <1>3, <1>4, <1>5, <1>6, <1>7, <1>8 DEF Next, Listener, Call

\* Whichever coroutine answers a renewal, and after any number of reconnects, failed
\* handshakes and calls, the pair of ACKs carries the timestamp the device expects.
THEOREM AnswersRight == Spec => AnswersMatch
BY TypeCorrect, RegistrationKept, AnswerStep, PTL DEF Spec, AnswersMatch
-----------------------------------------------------------------------------
(* What is reported, and what was answered *)

\* A call's coroutine reads the channel.
InCall == reader \in {"call", "inbound", "monitor", "forwarding", "renewing", "ended"}

Contains(q, f) == \E i \in 1 .. Len(q) : q[i] = f

\* A frame the reader has yet to read, or holds while its answer is on the way.
Pending(f) == frame = f \/ Contains(queue, f)

\* The type under which _fire_event deduplicates a press.
TypeOf(p) == IF p.kind = "alerting" THEN "ring" ELSE "door_opened"

\* What arrives was pressed before, and what is confirmed is a renewal.
PressesKnown ==
  /\ unanswered \subseteq pressed /\ recent \subseteq pressed /\ byReader \subseteq pressed
  /\ \A p \in Presses : Pending(p) => p \in pressed
  /\ \A p \in pressed : since[p] <= now
  /\ reader = "confirming" => frame \notin Presses

\* What _recent_rings and _last_fired say was reported, and a call init is not reported
\* without being noted.
NotesTrue ==
  /\ \A p \in Presses : reportedAt[p] # None => reportedAt[p] <= now
  /\ \A p \in recent : reportedAt[p] # None /\ reportedAt[p] >= since[p]
  /\ \A p \in Presses : p.kind = "init" /\ reportedAt[p] # None => p \in recent
  /\ fired["ring"] # None
     => \E q \in Presses : /\ q.kind = "alerting" /\ reportedAt[q] # None
                           /\ reportedAt[q] >= fired["ring"]

\* The reader of now would not report p again: a listener fired its type after it was
\* made and, while a repeat is pending, within the window.
Noted(p) ==
  \/ p \in recent /\ (Listening => p.kind = "init")
  \/ /\ Listening /\ p.kind # "init" /\ fired[TypeOf(p)] # None
     /\ fired[TypeOf(p)] >= since[p]
     /\ Pending(p) => now - fired[TypeOf(p)] < DedupWindow

ReaderRemembers == Listening \/ InCall => \A p \in byReader : Noted(p)

ReportInv == PressesKnown /\ NotesTrue /\ ReaderRemembers

LEMMA NothingContained == ASSUME NEW f PROVE ~Contains(<<>>, f)
BY DEF Contains

LEMMA HeadContained ==
  ASSUME NEW q \in Seq(Frames), q # <<>>
  PROVE  Contains(q, Head(q))
BY DEF Contains

LEMMA TailContained ==
  ASSUME NEW q \in Seq(Frames), q # <<>>, NEW f, Contains(Tail(q), f)
  PROVE  Contains(q, f)
<1>1. PICK i \in 1 .. Len(Tail(q)) : Tail(q)[i] = f
  BY DEF Contains
<1>2. i + 1 \in 1 .. Len(q) /\ q[i + 1] = f
  BY <1>1
<1> QED BY <1>2 DEF Contains

LEMMA AppendContained ==
  ASSUME NEW q \in Seq(Frames), NEW g \in Frames, NEW f, Contains(Append(q, g), f)
  PROVE  Contains(q, f) \/ f = g
<1>1. PICK i \in 1 .. Len(Append(q, g)) : Append(q, g)[i] = f
  BY DEF Contains
<1>2. CASE i \in 1 .. Len(q)
  BY <1>1, <1>2 DEF Contains
<1>3. CASE i = Len(q) + 1
  BY <1>1, <1>3
<1> QED BY <1>1, <1>2, <1>3
-----------------------------------------------------------------------------
(* What a step can do *)

\* What a step does to the reports: nothing; a new reader; or the event of a press
\* that was pending, raised by a listener or by a monitor.
ReportMoves ==
  \/ Silent /\ (Listening' => Listening) /\ (InCall' => InCall)
  \/ /\ said' = None /\ UNCHANGED events
     /\ fired' \in {fired, [t \in Types |-> None]}
     /\ Listening' \/ InCall' => byReader' = {}
     /\ byReader' \in {byReader, {}}
  \/ /\ Listening /\ Listening'
     /\ \E p \in Presses : Pending(p) /\ p.kind # "init" /\ Fire(TypeOf(p), p)
  \/ /\ Listening /\ Listening'
     /\ \E p \in Presses : Pending(p) /\ p.kind = "init" /\ RingOnce(p)
  \/ /\ InCall /\ InCall'
     /\ \E p \in Presses : Pending(p) /\ RingOnce(p)

\* A frame of the queue or of the reader's hands is dropped or taken up.
NothingArrives ==
  /\ UNCHANGED <<now, pressed, since>> /\ unanswered' \subseteq unanswered
  /\ \A p \in Presses : Pending(p)' => Pending(p)

\* Time passes when a listener has caught up.
TimePasses ==
  /\ now' = now + 1 /\ UNCHANGED <<pressed, since, unanswered>>
  /\ \A p \in Presses : Pending(p)' => Pending(p) /\ ~Listening

\* A press, or its repeat, arrives.
PressArrives ==
  \E p \in Presses :
    /\ UNCHANGED now
    /\ \A q \in Presses : Pending(q)' => Pending(q) \/ q = p
    /\ \/ /\ p \notin pressed /\ pressed' = pressed \cup {p}
          /\ since' = [since EXCEPT ![p] = now] /\ unanswered' = unanswered \cup {p}
       \/ p \in unanswered /\ now - since[p] < RepeatFor /\ UNCHANGED <<pressed, since, unanswered>>

\* What a step does to the presses and the frames.
DeviceMoves ==
  \/ NothingArrives
  \/ (TimePasses \/ PressArrives) /\ Silent /\ UNCHANGED <<reader, frame>>

\* A press is answered, no longer held and not cut off only if it was so before, or
\* because it has just been handled.
AnswerMoves ==
  \A p \in Presses :
    p.kind = "alerting" /\ p \in pressed' \ (unanswered' \cup cut') /\ frame' # p
    => \/ p \in pressed \ (unanswered \cup cut) /\ frame # p
       \/ p = frame /\ UNCHANGED since /\ (Fire("ring", p) \/ RingOnce(p))

ConfirmMoves ==
  reader' = "confirming" => frame' \notin Presses \/ UNCHANGED <<reader, frame>>

Moves == ReportMoves /\ DeviceMoves /\ AnswerMoves /\ ConfirmMoves

\* A frame that is read was pending; a queue that loses its head gains nothing.
LEMMA ReadPending ==
  ASSUME TypeOK, queue # <<>>, queue' = Tail(queue), frame' \in {frame, Head(queue), None}
  PROVE  /\ Pending(Head(queue))
         /\ \A p \in Presses : Pending(p)' => Pending(p)
<1>1. queue \in Seq(Frames)
  BY DEF TypeOK, DeviceTypes
<1>2. Contains(queue, Head(queue))
  BY <1>1, HeadContained
<1>3. ASSUME NEW p \in Presses, Pending(p)' PROVE Pending(p)
  <2>1. p # None
    BY DEF Frames
  <2>2. CASE Contains(Tail(queue), p)
    BY <1>1, <2>2, TailContained DEF Pending
  <2>3. CASE frame' = p
    BY <1>2, <2>1, <2>3 DEF Pending
  <2> QED BY <1>3, <2>2, <2>3 DEF Pending, Contains
<1> QED BY <1>2, <1>3 DEF Pending

\* A frame that is let go of while the queue stays.
LEMMA KeptPending ==
  ASSUME TypeOK, queue' = queue, frame' \in {frame, None}
  PROVE  \A p \in Presses : Pending(p)' => Pending(p)
BY DEF Pending, Contains, Frames

\* The presses among the frames have one of the three kinds.
LEMMA PressKind ==
  ASSUME NEW p \in Presses
  PROVE  p \in Frames /\ p # None /\ p.kind \in {"init", "alerting", "door"}
BY DEF Frames

\* Handling a frame that was pending is one of the moves of a listener.
LEMMA HandleMoves ==
  ASSUME NEW f \in Frames, Pending(f), Handle(f), Listening, Listening'
  PROVE  ReportMoves
<1>1. CASE f.kind = "init"
  <2>1. f \in Presses /\ RingOnce(f)
    BY <1>1, PressKinds DEF Handle
  <2> QED BY <1>1, <2>1 DEF ReportMoves
<1>2. CASE f.kind = "alerting"
  <2>1. f \in Presses /\ Fire(TypeOf(f), f)
    BY <1>2, PressKinds DEF Handle, TypeOf
  <2> QED BY <1>2, <2>1 DEF ReportMoves
<1>3. CASE f.kind = "door"
  <2>1. f \in Presses /\ Fire(TypeOf(f), f)
    BY <1>3, PressKinds DEF Handle, TypeOf
  <2> QED BY <1>3, <2>1 DEF ReportMoves
<1>4. CASE f.kind \notin {"init", "alerting", "door"}
  <2>1. Silent
    BY <1>4 DEF Handle
  <2>2. ~InCall'
    BY DEF Listening, InCall
  <2> QED BY <2>1, <2>2 DEF ReportMoves
<1> QED BY <1>1, <1>2, <1>3, <1>4
-----------------------------------------------------------------------------
(* Every step is one of these moves *)

\* A reader that is stopped loses what it holds; nothing else changes hands.
LEMMA StoppedAnswers ==
  ASSUME Stopped, UNCHANGED <<pressed, unanswered>>
  PROVE  AnswerMoves
BY DEF Stopped, AnswerMoves

LEMMA QuietAnswers ==
  ASSUME UNCHANGED <<pressed, unanswered, frame, cut>>
  PROVE  AnswerMoves
BY DEF AnswerMoves

LEMMA ConnectMoves == ASSUME TypeOK, Connect PROVE Moves
<1>1. ReportMoves
  BY DEF Connect, Quiet, ReportMoves, Silent, events, listenerVars, Listening, InCall
<1>2. DeviceMoves
  <2>1. \A p \in Presses : Pending(p)' => Pending(p)
    BY PressKind DEF Connect, Stopped, Pending, Contains
  <2> QED BY <2>1 DEF Connect, DeviceMoves, NothingArrives
<1>3. AnswerMoves
  BY StoppedAnswers DEF Connect
<1>4. ConfirmMoves
  BY DEF Connect, ConfirmMoves
<1> QED BY <1>1, <1>2, <1>3, <1>4 DEF Moves

LEMMA OpenCtppMoves == ASSUME TypeOK, OpenCtpp PROVE Moves
<1>1. ReportMoves
  BY DEF OpenCtpp, Quiet, ReportMoves, Silent, events, listenerVars, Listening, InCall
<1>2. DeviceMoves
  <2>1. \A p \in Presses : Pending(p)' => Pending(p)
    BY KeptPending DEF OpenCtpp
  <2> QED BY <2>1 DEF OpenCtpp, DeviceMoves, NothingArrives, device
<1>3. AnswerMoves
  BY QuietAnswers DEF OpenCtpp
<1>4. ConfirmMoves
  BY DEF OpenCtpp, ConfirmMoves
<1> QED BY <1>1, <1>2, <1>3, <1>4 DEF Moves

LEMMA ReadReplyMoves == ASSUME TypeOK, ReadReply PROVE Moves
<1>1. ReportMoves
  BY DEF ReadReply, Quiet, ReportMoves, Silent, events, listenerVars, Listening, InCall
<1>2. DeviceMoves
  <2>1. \A p \in Presses : Pending(p)' => Pending(p)
    BY ReadPending, KeptPending DEF ReadReply
  <2> QED BY <2>1 DEF ReadReply, DeviceMoves, NothingArrives, device
<1>3. AnswerMoves
  BY QuietAnswers DEF ReadReply, device
<1>4. ConfirmMoves
  BY DEF ReadReply, ConfirmMoves
<1> QED BY <1>1, <1>2, <1>3, <1>4 DEF Moves

LEMMA RegistersMoves == ASSUME TypeOK, Registers PROVE Moves
<1>1. ReportMoves
  BY DEF Registers, NewListener, ReportMoves, Silent, events, listenerVars, Listening, InCall
<1>2. DeviceMoves
  <2>1. \A p \in Presses : Pending(p)' => Pending(p)
    BY KeptPending DEF Registers
  <2> QED BY <2>1 DEF Registers, DeviceMoves, NothingArrives, device
<1>3. AnswerMoves
  BY QuietAnswers DEF Registers, device
<1>4. ConfirmMoves
  BY DEF Registers, NewListener, ConfirmMoves
<1> QED BY <1>1, <1>2, <1>3, <1>4 DEF Moves

LEMMA ListenerConfirmedMoves ==
  ASSUME TypeOK, PressesKnown, ListenerConfirmed
  PROVE  Moves
<1>1. ReportMoves
  BY DEF ListenerConfirmed, Quiet, ReportMoves, Silent, events, listenerVars, Listening, InCall
<1>2. DeviceMoves
  <2>1. \A p \in Presses : Pending(p)' => Pending(p)
    BY KeptPending DEF ListenerConfirmed
  <2> QED BY <2>1 DEF ListenerConfirmed, DeviceMoves, NothingArrives, device
<1>3. AnswerMoves
  BY PressKind DEF ListenerConfirmed, PressesKnown, AnswerMoves, device
<1>4. ConfirmMoves
  BY DEF ListenerConfirmed, ConfirmMoves
<1> QED BY <1>1, <1>2, <1>3, <1>4 DEF Moves

LEMMA CallStartsMoves == ASSUME TypeOK, CallStarts PROVE Moves
<1>1. ReportMoves
  BY DEF CallStarts, Quiet, ReportMoves, Silent, events, listenerVars, Listening, InCall
<1>2. DeviceMoves
  <2>1. \A p \in Presses : Pending(p)' => Pending(p)
    BY KeptPending DEF CallStarts, Stopped
  <2> QED BY <2>1 DEF CallStarts, DeviceMoves, NothingArrives, device
<1>3. AnswerMoves
  BY StoppedAnswers DEF CallStarts, device
<1>4. ConfirmMoves
  BY DEF CallStarts, ConfirmMoves
<1> QED BY <1>1, <1>2, <1>3, <1>4 DEF Moves

LEMMA CallReadsMoves == ASSUME TypeOK, CallReads PROVE Moves
<1>1. ReportMoves
  BY DEF CallReads, ReportMoves, Silent, events, listenerVars, Listening, InCall
<1>2. DeviceMoves
  <2>1. \A p \in Presses : Pending(p)' => Pending(p)
    BY ReadPending DEF CallReads
  <2> QED BY <2>1 DEF CallReads, DeviceMoves, NothingArrives, device
<1>3. AnswerMoves
  BY QuietAnswers DEF CallReads, device
<1>4. ConfirmMoves
  BY DEF CallReads, ConfirmMoves
<1> QED BY <1>1, <1>2, <1>3, <1>4 DEF Moves

LEMMA MonitorStartsMoves == ASSUME TypeOK, MonitorStarts PROVE Moves
<1>1. ReportMoves
  BY DEF MonitorStarts, Quiet, ReportMoves, Silent, events, listenerVars, Listening, InCall
<1>2. DeviceMoves
  <2>1. \A p \in Presses : Pending(p)' => Pending(p)
    BY KeptPending DEF MonitorStarts
  <2> QED BY <2>1 DEF MonitorStarts, DeviceMoves, NothingArrives, device
<1>3. AnswerMoves
  BY QuietAnswers DEF MonitorStarts, device
<1>4. ConfirmMoves
  BY DEF MonitorStarts, ConfirmMoves
<1> QED BY <1>1, <1>2, <1>3, <1>4 DEF Moves

LEMMA CallRenewedMoves == ASSUME TypeOK, CallRenewed PROVE Moves
<1>1. ReportMoves
  BY DEF CallRenewed, Quiet, ReportMoves, Silent, events, listenerVars, Listening, InCall
<1>2. DeviceMoves
  <2>1. \A p \in Presses : Pending(p)' => Pending(p)
    BY ReadPending DEF CallRenewed
  <2> QED BY <2>1 DEF CallRenewed, DeviceMoves, NothingArrives, device
<1>3. AnswerMoves
  BY QuietAnswers DEF CallRenewed
<1>4. ConfirmMoves
  BY DEF CallRenewed, ConfirmMoves
<1> QED BY <1>1, <1>2, <1>3, <1>4 DEF Moves

LEMMA RenewalRegistersMoves == ASSUME TypeOK, RenewalRegisters PROVE Moves
<1>1. ReportMoves
  BY DEF RenewalRegisters, ReportMoves, Silent, events, listenerVars, Listening, InCall
<1>2. DeviceMoves
  <2>1. \A p \in Presses : Pending(p)' => Pending(p)
    BY KeptPending DEF RenewalRegisters
  <2> QED BY <2>1 DEF RenewalRegisters, DeviceMoves, NothingArrives, device
<1>3. AnswerMoves
  BY QuietAnswers DEF RenewalRegisters, device
<1>4. ConfirmMoves
  BY DEF RenewalRegisters, ConfirmMoves
<1> QED BY <1>1, <1>2, <1>3, <1>4 DEF Moves

LEMMA SessionEndsMoves == ASSUME TypeOK, SessionEnds PROVE Moves
<1>1. ReportMoves
  BY DEF SessionEnds, NewListener, Quiet, ReportMoves, Silent, events, Listening, InCall
<1>2. DeviceMoves
  <2>1. \A p \in Presses : Pending(p)' => Pending(p)
    BY KeptPending DEF SessionEnds, Stopped
  <2> QED BY <2>1 DEF SessionEnds, DeviceMoves, NothingArrives, device
<1>3. AnswerMoves
  BY StoppedAnswers DEF SessionEnds, device
<1>4. ConfirmMoves
  BY DEF SessionEnds, NewListener, ConfirmMoves
<1> QED BY <1>1, <1>2, <1>3, <1>4 DEF Moves

LEMMA RequestMoves == ASSUME TypeOK, NEW f \in Requests, Request(f) PROVE Moves
<1>1. ReportMoves
  BY DEF Request, Quiet, ReportMoves, Silent, events, listenerVars, Listening, InCall
<1>2. DeviceMoves
  <2>1. \A p \in Presses : Pending(p)' => Pending(p)
    <3>1. ASSUME NEW p \in Presses, Contains(Append(queue, f), p) PROVE Contains(queue, p) \/ p = f
      BY <3>1, AppendContained DEF TypeOK, DeviceTypes, Frames
    <3>2. f \notin Presses
      BY DEF Requests
    <3> QED BY <3>1, <3>2 DEF Request, Receives, Pending, Contains
  <2> QED BY <2>1 DEF Request, Receives, DeviceMoves, NothingArrives
<1>3. AnswerMoves
  BY QuietAnswers DEF Request
<1>4. ConfirmMoves
  BY DEF Request, ConfirmMoves
<1> QED BY <1>1, <1>2, <1>3, <1>4 DEF Moves

LEMMA LostMoves == ASSUME TypeOK, Lost PROVE Moves
<1>1. ReportMoves
  BY DEF Lost, Quiet, ReportMoves, Silent, events, listenerVars, Listening, InCall
<1>2. DeviceMoves
  <2>1. \A p \in Presses : Pending(p)' => Pending(p)
    BY KeptPending DEF Lost
  <2> QED BY <2>1 DEF Lost, DeviceMoves, NothingArrives, device
<1>3. AnswerMoves
  BY QuietAnswers DEF Lost, device
<1>4. ConfirmMoves
  BY DEF Lost, ConfirmMoves
<1> QED BY <1>1, <1>2, <1>3, <1>4 DEF Moves

LEMMA ListenerReadsMoves == ASSUME TypeOK, ListenerReads PROVE Moves
<1> DEFINE f == Head(queue)
<1>1. /\ queue \in Seq(Frames) /\ queue # <<>> /\ f \in Frames
      /\ frame = None /\ reader = "reading"
  BY HeadAndTail DEF TypeOK, DeviceTypes, ReaderTypes, ListenerReads
<1>2. Pending(f) /\ \A p \in Presses : Pending(p)' => Pending(p)
  BY <1>1, ReadPending DEF ListenerReads
<1>3. \/ /\ up /\ f.kind \in {"renewal", "alerting", "idle", "callEnd"}
         /\ reader' = "acking" /\ frame' = f /\ unanswered' = unanswered \ {f} /\ Silent
      \/ Handle(f) /\ UNCHANGED <<reader, frame, unanswered>>
  BY DEF ListenerReads
<1>4. Listening /\ Listening' /\ ~InCall'
  BY <1>1, <1>3 DEF Listening, InCall
<1>5. ReportMoves
  <2>1. CASE Silent
    BY <1>4, <2>1 DEF ReportMoves
  <2>2. CASE Handle(f)
    BY <1>1, <1>2, <1>4, <2>2, HandleMoves
  <2> QED BY <1>3, <2>1, <2>2
<1>6. DeviceMoves
  BY <1>2, <1>3 DEF ListenerReads, DeviceMoves, NothingArrives
<1>7. AnswerMoves
  BY <1>1, <1>3, PressKind DEF ListenerReads, AnswerMoves
<1>8. ConfirmMoves
  BY <1>1, <1>3 DEF ConfirmMoves
<1> QED BY <1>5, <1>6, <1>7, <1>8 DEF Moves

LEMMA ListenerAckedMoves == ASSUME TypeOK, ListenerAcked PROVE Moves
<1>1. frame \in Frames /\ reader = "acking" /\ Pending(frame)
  BY DEF TypeOK, ReaderTypes, ListenerAcked, Pending
<1>2. \A p \in Presses : Pending(p)' => Pending(p)
  BY KeptPending DEF ListenerAcked
<1>3. \/ frame.kind = "renewal" /\ reader' = "confirming" /\ frame' = frame /\ Silent
      \/ frame.kind = "renewal" /\ reader' = "reading" /\ frame' = None /\ Silent
      \/ reader' = "reading" /\ frame' = None /\ Handle(frame)
  BY DEF ListenerAcked
<1>4. Listening /\ Listening' /\ ~InCall'
  BY <1>1, <1>3 DEF Listening, InCall
<1>5. ReportMoves
  <2>1. CASE Silent
    BY <1>4, <2>1 DEF ReportMoves
  <2>2. CASE Handle(frame)
    BY <1>1, <1>4, <2>2, HandleMoves
  <2> QED BY <1>3, <2>1, <2>2
<1>6. DeviceMoves
  BY <1>2 DEF ListenerAcked, DeviceMoves, NothingArrives, device
<1>7. AnswerMoves
  <2> SUFFICES ASSUME NEW p \in Presses, p.kind = "alerting", p = frame, frame' # p
               PROVE  Fire("ring", p)
    BY DEF ListenerAcked, AnswerMoves, device
  <2> QED BY <1>3 DEF Handle
<1>8. ConfirmMoves
  BY <1>3, PressKind DEF ConfirmMoves
<1> QED BY <1>5, <1>6, <1>7, <1>8 DEF Moves

LEMMA MonitorReadsMoves == ASSUME TypeOK, MonitorReads PROVE Moves
<1> DEFINE f == Head(queue)
<1>1. /\ queue \in Seq(Frames) /\ queue # <<>> /\ f \in Frames
      /\ frame = None /\ reader = "monitor"
  BY HeadAndTail DEF TypeOK, DeviceTypes, ReaderTypes, MonitorReads
<1>2. \/ f.kind = "init" /\ RingOnce(f) /\ UNCHANGED <<reader, frame, unanswered>>
      \/ /\ Silent /\ reader' \in {"ended", "monitor"} /\ UNCHANGED <<frame, unanswered>>
      \/ /\ Silent /\ reader' = "forwarding" /\ frame' = f /\ unanswered' = unanswered \ {f}
  BY <1>1 DEF MonitorReads
<1>3. Pending(f) /\ \A p \in Presses : Pending(p)' => Pending(p)
  BY <1>1, <1>2, ReadPending DEF MonitorReads
<1>4. InCall /\ InCall' /\ ~Listening'
  BY <1>1, <1>2 DEF Listening, InCall
<1>5. ReportMoves
  <2>1. CASE Silent
    BY <1>4, <2>1 DEF ReportMoves
  <2>2. CASE f.kind = "init" /\ RingOnce(f)
    BY <1>1, <1>3, <1>4, <2>2, PressKinds DEF ReportMoves
  <2> QED BY <1>2, <2>1, <2>2
<1>6. DeviceMoves
  BY <1>2, <1>3 DEF MonitorReads, DeviceMoves, NothingArrives
<1>7. AnswerMoves
  BY <1>1, <1>2, PressKind DEF MonitorReads, AnswerMoves
<1>8. ConfirmMoves
  BY <1>1, <1>2 DEF ConfirmMoves
<1> QED BY <1>5, <1>6, <1>7, <1>8 DEF Moves

LEMMA MonitorForwardsMoves == ASSUME TypeOK, MonitorForwards PROVE Moves
<1>1. frame \in Presses /\ Pending(frame) /\ InCall /\ InCall'
  BY DEF TypeOK, ReaderTypes, MonitorForwards, Pending, InCall
<1>2. ReportMoves
  <2>1. CASE RingOnce(frame)
    BY <1>1, <2>1 DEF ReportMoves
  <2>2. CASE Silent
    <3>1. ~Listening'
      BY DEF MonitorForwards, Listening
    <3> QED BY <1>1, <2>2, <3>1 DEF ReportMoves
  <2> QED BY <2>1, <2>2 DEF MonitorForwards
<1>3. DeviceMoves
  <2>1. \A p \in Presses : Pending(p)' => Pending(p)
    BY KeptPending DEF MonitorForwards
  <2> QED BY <2>1 DEF MonitorForwards, DeviceMoves, NothingArrives, device
<1>4. AnswerMoves
  BY DEF MonitorForwards, AnswerMoves, device
<1>5. ConfirmMoves
  BY DEF MonitorForwards, ConfirmMoves
<1> QED BY <1>2, <1>3, <1>4, <1>5 DEF Moves

LEMMA PressMoves == ASSUME TypeOK, NEW p \in Presses, Press(p) PROVE Moves
<1>1. Silent /\ UNCHANGED <<reader, frame>>
  BY DEF Press, Quiet, Silent, listenerVars
<1>2. ReportMoves
  BY <1>1 DEF ReportMoves, Listening, InCall
<1>3. DeviceMoves
  <2>1. ASSUME NEW q \in Presses, Pending(q)' PROVE Pending(q) \/ q = p
    <3>1. Contains(Append(queue, p), q) => Contains(queue, q) \/ q = p
      BY AppendContained DEF TypeOK, DeviceTypes, Frames
    <3> QED BY <2>1, <3>1 DEF Press, Receives, Pending, Contains
  <2>2. UNCHANGED now
    BY DEF Press
  <2>3. PressArrives
    BY <2>1, <2>2 DEF Press, PressArrives
  <2> QED BY <1>1, <2>3 DEF DeviceMoves
<1>4. AnswerMoves
  BY DEF Press, AnswerMoves
<1>5. ConfirmMoves
  BY <1>1 DEF ConfirmMoves
<1> QED BY <1>2, <1>3, <1>4, <1>5 DEF Moves

LEMMA TickMoves == ASSUME TypeOK, Tick PROVE Moves
<1>1. Silent /\ UNCHANGED <<reader, frame>>
  BY DEF Tick, Quiet, Silent, listenerVars
<1>2. ReportMoves
  BY <1>1 DEF ReportMoves, Listening, InCall
<1>3. DeviceMoves
  <2>1. ASSUME NEW p \in Presses, Pending(p)' PROVE Pending(p) /\ ~Listening
    <3>1. Pending(p)
      BY <2>1, KeptPending DEF Tick
    <3>2. CASE Listening
      BY <3>1, <3>2, PressKind, NothingContained DEF Tick, Pending, TypeOK, ReaderTypes
    <3> QED BY <3>1, <3>2
  <2>2. TimePasses
    BY <2>1 DEF Tick, TimePasses, device
  <2> QED BY <1>1, <2>2 DEF DeviceMoves
<1>4. AnswerMoves
  BY QuietAnswers DEF Tick, device
<1>5. ConfirmMoves
  BY <1>1 DEF ConfirmMoves
<1> QED BY <1>2, <1>3, <1>4, <1>5 DEF Moves
-----------------------------------------------------------------------------
(* The invariant *)

LEMMA NextMoves == ASSUME TypeOK, PressesKnown, Next PROVE Moves
<1>1. CASE Registration
  BY <1>1, ConnectMoves, OpenCtppMoves, ReadReplyMoves, RegistersMoves DEF Registration
<1>2. CASE Listener
  BY <1>2, ListenerReadsMoves, ListenerAckedMoves, ListenerConfirmedMoves DEF Listener
<1>3. CASE Call
  BY <1>3, CallStartsMoves, CallReadsMoves, MonitorStartsMoves, MonitorReadsMoves,
     MonitorForwardsMoves, CallRenewedMoves, RenewalRegistersMoves, SessionEndsMoves DEF Call
<1>4. CASE Device
  BY <1>4, PressMoves, RequestMoves, LostMoves DEF Device
<1> QED BY <1>1, <1>2, <1>3, <1>4, TickMoves DEF Next

\* What the type invariant says of the clocks.
LEMMA Clocks ==
  ASSUME TypeOK
  PROVE  /\ now \in Nat
         /\ \A p \in Presses : since[p] \in Nat /\ reportedAt[p] \in Nat \cup {None}
         /\ \A t \in Types : fired[t] \in Nat \cup {None}
         /\ reportedAt \in [Presses -> Nat \cup {None}]
         /\ fired \in [Types -> Nat \cup {None}]
         /\ since \in [Presses -> Nat]
         /\ DedupWindow \in Nat /\ RepeatFor \in Nat
BY DEF TypeOK, DeviceTypes, EventTypes

\* The reports a step makes: none, or that of one pending press, noted where the reader
\* notes it.
LEMMA OneReport ==
  ASSUME TypeOK, ReportMoves
  PROVE  \/ said' = None /\ UNCHANGED events
         \/ \E p \in Presses :
              /\ Pending(p) /\ Report(p)
              /\ \/ recent' = recent \cup {p} /\ UNCHANGED fired
                 \/ /\ p.kind # "init" /\ UNCHANGED recent
                    /\ fired' = [fired EXCEPT ![TypeOf(p)] = now]
<1>1. CASE \E p \in Presses : Pending(p) /\ p.kind # "init" /\ Fire(TypeOf(p), p)
  BY <1>1 DEF Fire, Silent
<1>2. CASE \E p \in Presses : Pending(p) /\ RingOnce(p)
  BY <1>2 DEF RingOnce, Silent
<1> QED BY <1>1, <1>2 DEF ReportMoves, Silent

\* A report is never forgotten, and only followed by later ones.
LEMMA ReportsGrow ==
  ASSUME TypeOK, NotesTrue, ReportMoves,
         NEW p \in Presses, reportedAt[p] # None
  PROVE  reportedAt'[p] # None /\ reportedAt'[p] >= reportedAt[p]
<1>1. reportedAt[p] \in Nat /\ reportedAt[p] <= now /\ now \in Nat /\ now # None
  BY Clocks DEF NotesTrue
<1>2. CASE UNCHANGED events
  BY <1>1, <1>2 DEF events
<1>3. ASSUME NEW q \in Presses, Report(q) PROVE reportedAt'[p] # None /\ reportedAt'[p] >= reportedAt[p]
  BY <1>1, <1>3, Clocks DEF Report
<1> QED BY <1>2, <1>3, OneReport

\* When a press is made is fixed by then.
LEMMA SinceKept ==
  ASSUME TypeOK, DeviceMoves, PressesKnown
  PROVE  /\ now' \in Nat /\ now' >= now
         /\ pressed \subseteq pressed'
         /\ \A p \in pressed : since'[p] = since[p]
         /\ \A p \in Presses : p \in pressed' => since'[p] <= now'
         /\ unanswered' \subseteq pressed'
         /\ \A p \in Presses : Pending(p)' => p \in pressed'
<1> USE Clocks
<1>1. pressed \subseteq Presses
  BY DEF TypeOK, DeviceTypes
<1>2. CASE NothingArrives
  BY <1>1, <1>2 DEF NothingArrives, PressesKnown
<1>3. CASE TimePasses
  BY <1>1, <1>3 DEF TimePasses, PressesKnown
<1>4. CASE PressArrives
  <2>1. PICK p \in Presses :
          /\ UNCHANGED now
          /\ \A q \in Presses : Pending(q)' => Pending(q) \/ q = p
          /\ \/ /\ p \notin pressed /\ pressed' = pressed \cup {p}
                /\ since' = [since EXCEPT ![p] = now] /\ unanswered' = unanswered \cup {p}
             \/ /\ p \in unanswered /\ now - since[p] < RepeatFor
                /\ UNCHANGED <<pressed, since, unanswered>>
    BY <1>4 DEF PressArrives
  <2>2. p \in pressed' /\ pressed \subseteq pressed' /\ unanswered' \subseteq pressed'
    BY <2>1 DEF PressesKnown
  <2>3. \A q \in pressed : since'[q] = since[q]
    BY <1>1, <2>1
  <2>4. ASSUME NEW q \in Presses, q \in pressed' PROVE since'[q] <= now'
    BY <2>1, <2>4 DEF PressesKnown
  <2>5. \A q \in Presses : Pending(q)' => q \in pressed'
    BY <2>1, <2>2 DEF PressesKnown
  <2> QED BY <2>1, <2>2, <2>3, <2>4, <2>5
<1> QED BY <1>2, <1>3, <1>4 DEF DeviceMoves

LEMMA PressesKnownStep ==
  ASSUME TypeOK, TypeOK', PressesKnown, Moves
  PROVE  PressesKnown'
<1> USE DEF Moves
<1>1. /\ pressed \subseteq pressed' /\ unanswered' \subseteq pressed'
      /\ \A p \in Presses : Pending(p)' => p \in pressed'
      /\ \A p \in Presses : p \in pressed' => since'[p] <= now'
      /\ pressed' \subseteq Presses
  BY SinceKept DEF TypeOK, DeviceTypes
<1>2. recent' \subseteq pressed' /\ byReader' \subseteq pressed'
  <2>1. CASE UNCHANGED events
    BY <1>1, <2>1 DEF ReportMoves, Silent, PressesKnown, events, Fire, RingOnce, Report
  <2>2. ASSUME NEW p \in Presses, Pending(p), Report(p), recent' \in {recent, recent \cup {p}}
        PROVE  recent' \subseteq pressed' /\ byReader' \subseteq pressed'
    BY <1>1, <2>2 DEF Report, PressesKnown
  <2> QED BY <2>1, <2>2, OneReport
<1>3. (reader = "confirming" => frame \notin Presses)'
  BY DEF PressesKnown, ConfirmMoves
<1> QED BY <1>1, <1>2, <1>3 DEF PressesKnown

LEMMA NotesTrueStep ==
  ASSUME TypeOK, TypeOK', PressesKnown, NotesTrue, Moves
  PROVE  NotesTrue'
<1> USE DEF Moves
<1>1. /\ now \in Nat /\ now' \in Nat /\ now' >= now
      /\ recent \subseteq pressed /\ pressed \subseteq Presses
      /\ \A p \in pressed : since'[p] = since[p] /\ since[p] <= now
      /\ \A p \in Presses : since[p] \in Nat /\ reportedAt[p] \in Nat \cup {None}
  BY Clocks, SinceKept DEF PressesKnown, TypeOK, DeviceTypes
<1>2. CASE said' = None /\ UNCHANGED events
  <2>1. fired' \in {fired, [t \in Types |-> None]}
    <3>1. CASE \E p \in Presses : Pending(p) /\ p.kind # "init" /\ Fire(TypeOf(p), p)
      BY <1>2, <3>1, PressKind DEF Fire, Silent, Report
    <3>2. CASE \E p \in Presses : Pending(p) /\ RingOnce(p)
      BY <1>2, <3>2, PressKind DEF RingOnce, Silent, Report
    <3> QED BY <3>1, <3>2 DEF ReportMoves, Silent
  <2>2. fired'["ring"] # None => fired'["ring"] = fired["ring"]
    BY <2>1 DEF Types
  <2>3. \A p \in Presses : reportedAt'[p] # None => reportedAt'[p] <= now'
    BY <1>1, <1>2 DEF NotesTrue, events
  <2> QED BY <1>1, <1>2, <2>2, <2>3 DEF NotesTrue, events
<1>3. ASSUME NEW p \in Presses, Pending(p), Report(p),
             \/ recent' = recent \cup {p} /\ UNCHANGED fired
             \/ /\ p.kind # "init" /\ UNCHANGED recent
                /\ fired' = [fired EXCEPT ![TypeOf(p)] = now]
      PROVE  NotesTrue'
  <2>1. reportedAt' = [reportedAt EXCEPT ![p] = now] /\ reportedAt'[p] = now /\ now # None
    BY <1>1, <1>3, Clocks DEF Report
  <2>2. \A q \in Presses : reportedAt[q] # None => reportedAt'[q] # None /\ reportedAt'[q] >= reportedAt[q]
    BY ReportsGrow
  <2>3. p \in pressed
    BY <1>3 DEF PressesKnown
  <2>4. \A q \in Presses : reportedAt'[q] # None => reportedAt'[q] <= now'
    BY <1>1, <2>1, Clocks DEF NotesTrue
  <2>5. \A q \in recent' : reportedAt'[q] # None /\ reportedAt'[q] >= since'[q]
    <3> SUFFICES ASSUME NEW q \in recent' PROVE reportedAt'[q] # None /\ reportedAt'[q] >= since'[q]
      OBVIOUS
    <3>1. CASE q \in recent
      <4>1. q \in Presses /\ reportedAt[q] \in Nat /\ reportedAt[q] >= since[q]
        BY <1>1, <3>1 DEF NotesTrue
      <4>2. reportedAt'[q] \in Nat
        BY <2>1, <4>1, <1>1, Clocks
      <4> QED BY <1>1, <2>2, <3>1, <4>1, <4>2 DEF NotesTrue
    <3>2. CASE q = p
      BY <1>1, <2>1, <2>3, <3>2
    <3> QED BY <1>3, <3>1, <3>2
  <2>6. \A q \in Presses : q.kind = "init" /\ reportedAt'[q] # None => q \in recent'
    BY <1>3, <2>1, Clocks DEF NotesTrue
  <2>7. fired'["ring"] # None
        => \E q \in Presses : /\ q.kind = "alerting" /\ reportedAt'[q] # None
                              /\ reportedAt'[q] >= fired'["ring"]
    <3>1. CASE fired'["ring"] = fired["ring"]
      <4> SUFFICES ASSUME fired["ring"] # None
                   PROVE  \E q \in Presses : /\ q.kind = "alerting" /\ reportedAt'[q] # None
                                             /\ reportedAt'[q] >= fired["ring"]
        BY <3>1
      <4>1. PICK q \in Presses : q.kind = "alerting" /\ reportedAt[q] # None /\ reportedAt[q] >= fired["ring"]
        BY DEF NotesTrue
      <4>2. reportedAt'[q] # None /\ reportedAt'[q] >= reportedAt[q]
        BY <2>2, <4>1
      <4>3. reportedAt[q] \in Nat /\ reportedAt'[q] \in Nat /\ fired["ring"] \in Nat
        BY <2>1, <4>1, <1>1, Clocks DEF Types
      <4> QED BY <4>1, <4>2, <4>3
    <3>2. CASE p.kind = "alerting" /\ fired' = [fired EXCEPT ![TypeOf(p)] = now]
      BY <1>1, <2>1, <3>2, Clocks DEF TypeOf, Types
    <3>3. CASE p.kind # "alerting" /\ fired' = [fired EXCEPT ![TypeOf(p)] = now]
      <4>1. fired'["ring"] = fired["ring"]
        BY <3>3, Clocks DEF TypeOf, Types
      <4> QED BY <3>1, <4>1
    <3> QED BY <1>3, <3>1, <3>2, <3>3
  <2> QED BY <2>4, <2>5, <2>6, <2>7 DEF NotesTrue
<1> QED BY <1>2, <1>3, OneReport

LEMMA ReaderKinds == ~(Listening /\ InCall)
BY DEF Listening, InCall

LEMMA SilentRemembers ==
  ASSUME TypeOK, PressesKnown, ReaderRemembers, DeviceMoves,
         Silent, Listening' => Listening, InCall' => InCall
  PROVE  ReaderRemembers'
<1> SUFFICES ASSUME Listening' \/ InCall', NEW p \in byReader' PROVE Noted(p)'
  BY DEF ReaderRemembers
<1>1. p \in byReader /\ Noted(p) /\ UNCHANGED <<recent, fired>>
  BY DEF Silent, events, ReaderRemembers
<1>2. p \in pressed /\ p \in Presses /\ since'[p] = since[p]
  BY <1>1, SinceKept DEF PressesKnown, TypeOK, DeviceTypes
<1>3. CASE p \in recent /\ (Listening => p.kind = "init")
  BY <1>1, <1>3 DEF Noted
<1>4. CASE /\ Listening /\ p.kind # "init" /\ fired[TypeOf(p)] # None
           /\ fired[TypeOf(p)] >= since[p]
           /\ Pending(p) => now - fired[TypeOf(p)] < DedupWindow
  <2>1. Listening'
    BY <1>4, ReaderKinds
  <2>2. TypeOf(p) \in Types /\ fired[TypeOf(p)] \in Nat /\ since[p] \in Nat /\ now \in Nat
        /\ DedupWindow \in Nat /\ RepeatFor \in Nat /\ RepeatFor <= DedupWindow
    BY <1>2, <1>4, Clocks DEF TypeOf, Types
  <2>3. ASSUME Pending(p)' PROVE now' - fired[TypeOf(p)] < DedupWindow
    <3>1. CASE NothingArrives
      BY <1>2, <1>4, <2>3, <3>1 DEF NothingArrives
    <3>2. CASE TimePasses
      BY <1>2, <1>4, <2>3, <3>2 DEF TimePasses
    <3>3. CASE PressArrives
      <4>1. now' = now
        BY <3>3 DEF PressArrives
      <4>2. Pending(p) \/ now - since[p] < RepeatFor
        BY <1>2, <2>3, <3>3 DEF PressArrives
      <4> QED BY <1>4, <2>2, <4>1, <4>2
    <3> QED BY <3>1, <3>2, <3>3 DEF DeviceMoves
  <2> QED BY <1>1, <1>2, <1>4, <2>1, <2>3 DEF Noted, TypeOf
<1> QED BY <1>1, <1>3, <1>4 DEF Noted

LEMMA ReaderRemembersStep ==
  ASSUME TypeOK, PressesKnown, ReaderRemembers, Moves
  PROVE  ReaderRemembers'
<1> USE DEF Moves
<1>1. CASE Silent /\ (Listening' => Listening) /\ (InCall' => InCall)
  BY <1>1, SilentRemembers
<1>2. CASE Listening' \/ InCall' => byReader' = {}
  BY <1>2 DEF ReaderRemembers
<1>3. ASSUME NEW p \in Presses, Pending(p), Report(p), Listening, Listening',
             \/ p.kind = "init" /\ recent' = recent \cup {p} /\ UNCHANGED fired
             \/ /\ p.kind # "init" /\ UNCHANGED recent
                /\ fired' = [fired EXCEPT ![TypeOf(p)] = now]
      PROVE  ReaderRemembers'
  <2>1. NothingArrives
    BY <1>3, PressKind DEF DeviceMoves, Silent, Report
  <2>2. /\ now \in Nat /\ now # None /\ now' = now /\ since' = since /\ DedupWindow \in Nat
        /\ 0 < DedupWindow /\ fired \in [Types -> Nat \cup {None}]
    BY <2>1, Clocks DEF NothingArrives
  <2> SUFFICES ASSUME NEW q \in byReader' PROVE Noted(q)'
    BY DEF ReaderRemembers
  <2>3. q \in byReader \cup {p} /\ q \in Presses
    BY <1>3 DEF Report, TypeOK, EventTypes
  <2>4. TypeOf(p) \in Types /\ TypeOf(q) \in Types
    BY DEF TypeOf, Types
  <2>5. q \in byReader => Noted(q) /\ since[q] <= now
    BY <1>3 DEF ReaderRemembers, PressesKnown
  <2>6. since[p] \in Nat /\ since[q] \in Nat
    BY <2>3, Clocks
  <2>7. CASE q.kind = "init"
    <3>1. q \in recent'
      BY <1>3, <2>3, <2>5, <2>7 DEF Noted
    <3> QED BY <2>7, <3>1 DEF Noted
  <2>8. CASE q.kind # "init" /\ p.kind = "init"
    <3>1. Noted(q) /\ UNCHANGED fired
      BY <1>3, <2>3, <2>5, <2>8
    <3>2. Pending(q)' => Pending(q)
      BY <2>1, <2>3 DEF NothingArrives
    <3> QED BY <1>3, <2>2, <2>8, <3>1, <3>2 DEF Noted, TypeOf
  <2>9. CASE q.kind # "init" /\ p.kind # "init" /\ TypeOf(q) = TypeOf(p)
    <3>1. fired'[TypeOf(q)] = now /\ now' = now
      BY <1>3, <2>2, <2>4, <2>9
    <3>2. since'[q] <= now
      <4>1. CASE q \in byReader
        BY <2>2, <2>5, <4>1
      <4>2. CASE q = p
        BY <1>3, <2>2, <4>2 DEF PressesKnown
      <4> QED BY <2>3, <4>1, <4>2
    <3>3. now - now < DedupWindow
      BY <2>2
    <3>4. fired'[TypeOf(q)] # None /\ fired'[TypeOf(q)] >= since'[q]
          /\ now' - fired'[TypeOf(q)] < DedupWindow
      BY <2>2, <2>6, <3>1, <3>2, <3>3
    <3> QED BY <1>3, <2>9, <3>4 DEF Noted, TypeOf
  <2>10. CASE q.kind # "init" /\ p.kind # "init" /\ TypeOf(q) # TypeOf(p)
    <3>1. fired'[TypeOf(q)] = fired[TypeOf(q)]
      BY <1>3, <2>2, <2>4, <2>10
    <3>2. Noted(q)
      BY <2>3, <2>5, <2>10
    <3>3. Pending(q)' => Pending(q)
      BY <2>1, <2>3 DEF NothingArrives
    <3> QED BY <1>3, <2>2, <2>10, <3>1, <3>2, <3>3 DEF Noted, TypeOf
  <2> QED BY <2>7, <2>8, <2>9, <2>10
<1>4. ASSUME NEW p \in Presses, Report(p), InCall, InCall', recent' = recent \cup {p}
      PROVE  ReaderRemembers'
  <2>1. ~Listening /\ ~Listening'
    BY <1>4 DEF Listening, InCall
  <2>2. \A q \in byReader : q \in recent
    BY <1>4, <2>1 DEF ReaderRemembers, Noted
  <2> QED BY <1>4, <2>1, <2>2 DEF ReaderRemembers, Noted, Report
<1>5. CASE /\ Listening /\ Listening'
           /\ \E p \in Presses : Pending(p) /\ p.kind # "init" /\ Fire(TypeOf(p), p)
  <2>1. ~InCall'
    BY <1>5 DEF Listening, InCall
  <2> QED BY <1>1, <1>3, <1>5, <2>1 DEF Fire
<1>6. CASE /\ Listening /\ Listening'
           /\ \E p \in Presses : Pending(p) /\ p.kind = "init" /\ RingOnce(p)
  <2>1. ~InCall'
    BY <1>6 DEF Listening, InCall
  <2> QED BY <1>1, <1>3, <1>6, <2>1 DEF RingOnce
<1>7. CASE InCall /\ InCall' /\ \E p \in Presses : Pending(p) /\ RingOnce(p)
  <2>1. ~Listening'
    BY <1>7 DEF Listening, InCall
  <2> QED BY <1>1, <1>4, <1>7, <2>1 DEF RingOnce
<1> QED BY <1>1, <1>2, <1>5, <1>6, <1>7 DEF ReportMoves

LEMMA ReportInvInit == Init => ReportInv
<1> SUFFICES ASSUME Init PROVE ReportInv
  OBVIOUS
<1>1. PressesKnown
  BY PressKind, NothingContained DEF Init, PressesKnown, Pending
<1>2. NotesTrue
  BY DEF Init, NotesTrue, Types
<1>3. ReaderRemembers
  BY DEF Init, ReaderRemembers
<1> QED BY <1>1, <1>2, <1>3 DEF ReportInv

LEMMA ReportInvStep ==
  TypeOK /\ TypeOK' /\ ReportInv /\ [Next]_vars => ReportInv'
<1> SUFFICES ASSUME TypeOK, TypeOK', ReportInv, [Next]_vars PROVE ReportInv'
  OBVIOUS
<1>1. CASE Next
  BY <1>1, NextMoves, PressesKnownStep, NotesTrueStep, ReaderRemembersStep DEF ReportInv
<1>2. CASE UNCHANGED vars
  BY <1>2 DEF vars, device, link, listenerVars, events, outcome, ReportInv, PressesKnown,
     NotesTrue, ReaderRemembers, Noted, Pending, Contains, Listening, InCall, TypeOf
<1> QED BY <1>1, <1>2

LEMMA ReportInvKept == Spec => []ReportInv
BY TypeCorrect, ReportInvInit, ReportInvStep, PTL DEF Spec
-----------------------------------------------------------------------------
(* What the device was told, and what is reported twice *)

LEMMA AnsweredStep ==
  TypeOK /\ TypeOK' /\ ReportInv /\ AnsweredIsReported /\ [Next]_vars => AnsweredIsReported'
<1> SUFFICES ASSUME TypeOK, TypeOK', ReportInv, AnsweredIsReported, [Next]_vars
             PROVE  AnsweredIsReported'
  OBVIOUS
<1>1. CASE UNCHANGED vars
  BY <1>1 DEF vars, device, events, AnsweredIsReported
<1>2. CASE Next
  <2>1. Moves /\ PressesKnown /\ NotesTrue
    BY <1>2, NextMoves DEF ReportInv
  <2> USE <2>1 DEF Moves
  <2> SUFFICES ASSUME NEW p \in Presses,
                      p \in pressed' \ (unanswered' \cup cut'), p.kind = "alerting", frame' # p
               PROVE  \E q \in Presses : /\ q.kind = "alerting" /\ reportedAt'[q] # None
                                         /\ reportedAt'[q] > since'[p] - DedupWindow
    BY DEF AnsweredIsReported
  <2>2. /\ now \in Nat /\ since[p] \in Nat /\ DedupWindow \in Nat /\ 0 < DedupWindow
        /\ now # None
        /\ \A q \in Presses : reportedAt[q] \in Nat \cup {None}
        /\ \A q \in Presses : reportedAt'[q] \in Nat \cup {None}
    BY Clocks DEF TypeOK, EventTypes
  <2>3. ASSUME NEW q \in Presses, q.kind = "alerting", reportedAt[q] # None,
               reportedAt[q] > since[p] - DedupWindow, since'[p] = since[p]
        PROVE  /\ q.kind = "alerting" /\ reportedAt'[q] # None
               /\ reportedAt'[q] > since'[p] - DedupWindow
    <3>1. reportedAt'[q] # None /\ reportedAt'[q] >= reportedAt[q]
      BY <2>3, ReportsGrow
    <3> QED BY <2>2, <2>3, <3>1
  <2>4. CASE p \in pressed \ (unanswered \cup cut) /\ frame # p
    <3>1. since'[p] = since[p]
      BY <2>4, SinceKept
    <3>2. PICK q \in Presses : /\ q.kind = "alerting" /\ reportedAt[q] # None
                               /\ reportedAt[q] > since[p] - DedupWindow
      BY <2>4 DEF AnsweredIsReported
    <3> QED BY <2>3, <3>1, <3>2
  <2>5. ASSUME p = frame, UNCHANGED since, Fire("ring", p) \/ RingOnce(p)
        PROVE  \E q \in Presses : /\ q.kind = "alerting" /\ reportedAt'[q] # None
                                  /\ reportedAt'[q] > since'[p] - DedupWindow
    <3>1. p \in pressed /\ since[p] <= now
      BY <2>5 DEF PressesKnown, Pending
    <3>2. CASE Report(p)
      <4>1. reportedAt'[p] = now
        BY <3>2, Clocks DEF Report
      <4> QED BY <2>2, <2>5, <3>1, <4>1
    <3>3. CASE fired["ring"] # None /\ now - fired["ring"] < DedupWindow
      <4>1. PICK q \in Presses : /\ q.kind = "alerting" /\ reportedAt[q] # None
                                 /\ reportedAt[q] >= fired["ring"]
        BY <3>3 DEF NotesTrue
      <4>2. fired["ring"] \in Nat
        BY <3>3, Clocks DEF Types
      <4>3. reportedAt[q] > since[p] - DedupWindow
        BY <2>2, <3>1, <3>3, <4>1, <4>2
      <4> QED BY <2>3, <2>5, <4>1, <4>3
    <3>4. CASE p \in recent
      <4>1. reportedAt[p] # None /\ reportedAt[p] >= since[p]
        BY <3>4 DEF NotesTrue
      <4>2. reportedAt[p] > since[p] - DedupWindow
        BY <2>2, <4>1
      <4> QED BY <2>3, <2>5, <4>1, <4>2
    <3> QED BY <2>5, <3>2, <3>3, <3>4 DEF Fire, RingOnce
  <2> QED BY <2>4, <2>5 DEF AnswerMoves
<1> QED BY <1>1, <1>2

\* A ring the device was told we have seen is reported, whoever answered it, over any number of
\* connections and handovers of the channel. Excepted is the frame whose reader was stopped while
\* it answered, or was a session's monitor whose connection was lost then.
THEOREM AnsweredReported == Spec => []AnsweredIsReported
<1>1. Init => AnsweredIsReported
  BY DEF Init, AnsweredIsReported
<1> QED BY <1>1, TypeCorrect, ReportInvKept, AnsweredStep, PTL DEF Spec

LEMMA OnceStep ==
  TypeOK /\ ReportInv /\ [Next]_vars
  => [said' # None
        => said' \notin byReader /\ (said'.kind = "init" => reportedAt[said'] = None)]_vars
<1> SUFFICES ASSUME TypeOK, ReportInv, Next, said' # None
             PROVE  said' \notin byReader /\ (said'.kind = "init" => reportedAt[said'] = None)
  BY Zenon
<1>1. Moves /\ PressesKnown /\ NotesTrue /\ ReaderRemembers
  BY NextMoves DEF ReportInv
<1> USE <1>1
<1>2. CASE \E p \in Presses : Listening /\ Pending(p) /\ p.kind # "init" /\ Fire(TypeOf(p), p)
  <2>1. PICK p \in Presses : Listening /\ Pending(p) /\ p.kind # "init" /\ Fire(TypeOf(p), p)
    BY <1>2
  <2>2. said' = p /\ (fired[TypeOf(p)] = None \/ ~(now - fired[TypeOf(p)] < DedupWindow))
    BY <2>1 DEF Fire, Silent, Report
  <2>3. ASSUME p \in byReader PROVE FALSE
    BY <2>1, <2>2, <2>3 DEF ReaderRemembers, Noted
  <2> QED BY <2>1, <2>2, <2>3
<1>3. CASE \E p \in Presses :
             ((Listening /\ p.kind = "init") \/ InCall) /\ Pending(p) /\ RingOnce(p)
  <2>1. PICK p \in Presses :
             ((Listening /\ p.kind = "init") \/ InCall) /\ Pending(p) /\ RingOnce(p)
    BY <1>3
  <2>2. said' = p /\ p \notin recent
    BY <2>1 DEF RingOnce, Silent, Report
  <2>3. p \notin byReader
    BY <2>1, <2>2, ReaderKinds DEF ReaderRemembers, Noted
  <2>4. p.kind = "init" => reportedAt[p] = None
    BY <2>2 DEF NotesTrue
  <2> QED BY <2>2, <2>3, <2>4
<1> QED BY <1>2, <1>3 DEF Moves, ReportMoves, Silent

\* Each reader reports a press once, and all of them together a call init once: a repeat
\* of what this reader reported always finds it in _recent_rings or within the window.
THEOREM ReportedOnce == Spec => OncePerReader
BY TypeCorrect, ReportInvKept, OnceStep, PTL DEF Spec, OncePerReader
=============================================================================
