------------------------ MODULE VideoSessionProofs ------------------------
(***************************************************************************)
(* What holds of VideoSession for any number of Answer and door presses    *)
(* and stops, any bounds and any width of the counter: audio follows the   *)
(* answer, the session lives the life that SessionLife promises the        *)
(* coordinator, a cleanup leaves nothing of it, and, as long as the presses*)
(* are fewer than half the counter's range, the device can follow the      *)
(* shared counter.                                                         *)
(***************************************************************************)
EXTENDS VideoSession, FiniteSetTheorems, TLAPS

Awaits == {"timer", "tcp", "ctpp", "receiver"}
Cleans(k) == pc[k] \in Awaits

\* Until start() has returned there is neither a timer nor a stop, and until it goes live
\* no monitor.
StartOrder ==
  /\ pc["start"] # "done" =>
       pc[Timer] = "idle" /\ "timeout" \notin told /\ \A s \in Stops : pc[s] = "idle"
  /\ pc["start"] \in {"idle"} \cup Starting => pc["monitor"] = "idle" /\ ~active
  /\ pc["start"] = "gate" => pc["monitor"] # "idle"

\* A cleanup has ended the session's activity and lets go of what it waits for.
CleanupOrder ==
  /\ \A k \in Cleaners : Cleans(k) => ~active
  /\ \A k \in Cleaners : pc[k] = "receiver" => "receiver" \notin set
  /\ "receiver" \in set => receiver = "up"
  /\ "timer" \in set => pc[Timer] = "armed"
  /\ pc[Timer] = "armed" => "timer" \in set /\ "timer" \in alive

\* Each callback belongs to the end of its task.
ToldOnce ==
  /\ "call_end" \in told => pc["monitor"] \in {"done", "cancelled"}
  /\ "timeout" \in told => pc[Timer] \notin {"idle", "armed"} /\ ~Cleans(Timer)

LifeInv == pc \in [Tasks -> Places] /\ StartOrder /\ CleanupOrder /\ ToldOnce

\* An answer that has sent both its messages was accepted.
AnswerOrder ==
  \A a \in Answers : pc[a] \in {"sending", "drain", "acking", "rtpc"} => accepted

SessionInv == LifeInv /\ AnswerOrder /\ AudioAnswered
-----------------------------------------------------------------------------
(* The tasks and the awaits of _cleanup *)

LEMMA TasksApart ==
  /\ Cleaners \subseteq Tasks /\ Answers \subseteq Tasks /\ Senders \subseteq Tasks
  /\ {"start", "monitor", Timer} \subseteq Tasks
  /\ "monitor" \notin Cleaners /\ "start" \notin Stops /\ Timer \notin Stops
  /\ (Answers \cup Senders) \cap (Cleaners \cup {"monitor"}) = {}
  /\ Answers \cap Senders = {}
BY ConstantsAssumption DEF Tasks, Own, Timer, Cleaners, Senders

LEMMA AwaitsOfCleanup ==
  /\ Len(Waits) = 4 /\ DOMAIN Waits = 1 .. 4 /\ Range(Waits) = Awaits
  /\ Waits[1] = "timer" /\ Waits[2] = "tcp" /\ Waits[3] = "ctpp" /\ Waits[4] = "receiver"
BY DEF Waits, Range, Awaits

LEMMA LeastAwait ==
  ASSUME NEW left \in SUBSET (1 .. 4), left # {}
  PROVE  LET next == CHOOSE j \in left : \A m \in left : j <= m
         IN next \in left /\ \A m \in left : next <= m
<1>1. \E j \in left : \A m \in left : j <= m
  <2>1. CASE 1 \in left
    BY <2>1
  <2>2. CASE 1 \notin left /\ 2 \in left
    BY <2>2
  <2>3. CASE 1 \notin left /\ 2 \notin left /\ 3 \in left
    BY <2>3
  <2>4. CASE 1 \notin left /\ 2 \notin left /\ 3 \notin left /\ 4 \in left
    BY <2>4
  <2>5. PICK j \in left : j \in 1 .. 4
    OBVIOUS
  <2>6. j = 1 \/ j = 2 \/ j = 3 \/ j = 4
    BY <2>5
  <2> QED BY <2>1, <2>2, <2>3, <2>4, <2>6
<1> QED BY <1>1

\* _cleanup goes on to the first await it needs, or there is none and it ends.
LEMMA CleanupEffect ==
  ASSUME NEW k \in Cleaners, NEW i \in 0 .. 4, CleanupFrom(k, i)
  PROVE  \/ /\ \A j \in i + 1 .. 4 : ~Present(j)
            /\ set' = set \ {Waits[j] : j \in i + 1 .. 4}
            /\ CleanupEnds(k)
         \/ \E n \in i + 1 .. 4 :
              /\ Present(n) /\ \A j \in i + 1 .. 4 : Present(j) => n <= j
              /\ set' = set \ {Waits[j] : j \in i + 1 .. n}
              /\ Cancel(k, n) /\ told' = told
<1> DEFINE left == {j \in i + 1 .. 4 : Present(j)}
           next == CHOOSE j \in left : \A m \in left : j <= m
<1>1. CASE left = {}
  BY <1>1, AwaitsOfCleanup DEF CleanupFrom
<1>2. CASE left # {}
  <2>1. left \in SUBSET (1 .. 4)
    OBVIOUS
  <2>2. next \in left /\ \A m \in left : next <= m
    BY <1>2, <2>1, LeastAwait
  <2>3. /\ set' = set \ {Waits[j] : j \in i + 1 .. next}
        /\ Cancel(k, next) /\ told' = told
    BY <1>2, AwaitsOfCleanup DEF CleanupFrom
  <2> HIDE DEF next
  <2> QED BY <2>2, <2>3
<1> QED BY <1>1, <1>2

\* Where one stretch of a cleanup leaves the tasks: only the cleaner, the monitor and an
\* armed timer move, and an armed timer only at the cleanup's beginning.
Cleared(k, i) ==
  /\ set' \subseteq set /\ pc' \in [Tasks -> Places]
  /\ \A t \in Tasks \ {k, "monitor", Timer} : pc'[t] = pc[t]
  /\ pc'["monitor"] \in {pc["monitor"], "cancelled"}
  /\ pc'[k] \in Awaits \cup {IF k = "start" THEN "failed" ELSE "done"}
  /\ pc'[k] = "receiver" => "receiver" \notin set'
  /\ k # Timer =>
       /\ told' = told
       /\ IF i = 0 /\ "timer" \in set
          THEN pc'[Timer] = "cancelled" /\ "timer" \notin set'
          ELSE /\ pc'[Timer] = pc[Timer]
               /\ "timer" \in set => "timer" \in set'
               /\ "timer" \in alive => "timer" \in alive'
  /\ k = Timer =>
       /\ i = 0 => "timer" \notin set'
       /\ i = 0 /\ "timer" \in set => pc'[Timer] \in Awaits
       /\ IF pc'[Timer] \in Awaits THEN told' = told ELSE told' = told \cup {"timeout"}

LEMMA CleanupClears ==
  ASSUME LifeInv, NEW k \in Cleaners, NEW i \in 0 .. 4, CleanupFrom(k, i)
  PROVE  Cleared(k, i)
<1> USE DEF LifeInv
<1>1. CASE /\ \A j \in i + 1 .. 4 : ~Present(j)
           /\ set' = set \ {Waits[j] : j \in i + 1 .. 4}
           /\ CleanupEnds(k)
  <2>1. i = 0 => "timer" \notin set
    <3>1. i = 0 => ~Present(1)
      BY <1>1
    <3> QED BY <3>1, AwaitsOfCleanup DEF Present, CleanupOrder
  <2>2. "timer" \in set => "timer" \in set'
    <3>1. i # 0 => \A j \in i + 1 .. 4 : Waits[j] # "timer"
      BY AwaitsOfCleanup
    <3> QED BY <1>1, <2>1, <3>1
  <2>3. "done" \in Places /\ "failed" \in Places
    BY DEF Places
  <2>4. "done" \notin Awaits /\ "failed" \notin Awaits
    BY DEF Awaits
  <2>5. pc' = [pc EXCEPT ![k] = IF k = "start" THEN "failed" ELSE "done"]
    BY <1>1 DEF CleanupEnds
  <2>6. IF k = Timer THEN told' = told \cup {"timeout"} ELSE told' = told /\ alive' = alive
    BY <1>1 DEF CleanupEnds
  <2> QED BY <1>1, <2>1, <2>2, <2>3, <2>4, <2>5, <2>6, TasksApart DEF Cleared, Awaits, Timer
<1>2. ASSUME NEW n \in i + 1 .. 4, Present(n), \A j \in i + 1 .. 4 : Present(j) => n <= j,
             set' = set \ {Waits[j] : j \in i + 1 .. n}, Cancel(k, n), told' = told
      PROVE  Cleared(k, i)
  <2> DEFINE victim == CASE Waits[n] = "timer" -> {Timer} \ {k}
                         [] Waits[n] = "ctpp" -> {"monitor"}
                         [] OTHER -> {}
  <2>1. n \in 1 .. 4 /\ Waits[n] \in Awaits /\ Awaits \subseteq Places
    BY AwaitsOfCleanup DEF Awaits, Places, Range
  <2>2. Waits[n] = "timer" <=> n = 1
    BY <2>1, AwaitsOfCleanup
  <2>3. n = 1 <=> i = 0 /\ "timer" \in set
    <3>1. i = 0 /\ "timer" \in set => Present(1)
      BY AwaitsOfCleanup DEF Present, CleanupOrder
    <3>2. n = 1 => "timer" \in set
      BY <1>2, AwaitsOfCleanup DEF Present
    <3> QED BY <1>2, <3>1, <3>2
  <2>4. victim \subseteq {"monitor", Timer} \ {k}
    BY TasksApart DEF Timer
  <2>5. pc' = [t \in Tasks |-> IF t = k THEN Waits[n]
                              ELSE IF t \in victim THEN "cancelled" ELSE pc[t]]
    BY <1>2 DEF Cancel
  <2>6. Timer \in victim <=> n = 1 /\ k # Timer
    BY <2>2 DEF Timer
  <2>7. "cancelled" \in Places
    BY DEF Places
  <2>8. "timer" \in set' <=> "timer" \in set /\ i # 0
    <3>1. i # 0 => \A j \in i + 1 .. n : Waits[j] # "timer"
      BY AwaitsOfCleanup
    <3>2. i = 0 => Waits[1] = "timer" /\ 1 \in i + 1 .. n
      BY AwaitsOfCleanup
    <3> QED BY <1>2, <3>1, <3>2
  <2>9. n # 1 => ("timer" \in alive => "timer" \in alive')
    BY <1>2, <2>2 DEF Cancel
  <2>10. Waits[n] = "receiver" => "receiver" \notin set'
    BY <1>2
  <2> HIDE DEF victim
  <2>11. /\ pc' \in [Tasks -> Places]
         /\ \A t \in Tasks \ {k, "monitor", Timer} : pc'[t] = pc[t]
         /\ pc'["monitor"] \in {pc["monitor"], "cancelled"}
         /\ pc'[k] = Waits[n]
    BY <2>1, <2>4, <2>5, <2>7, TasksApart
  <2>12. k # Timer => pc'[Timer] = IF n = 1 THEN "cancelled" ELSE pc[Timer]
    BY <2>5, <2>6, TasksApart
  <2> QED BY <1>2, <2>1, <2>3, <2>8, <2>9, <2>10, <2>11, <2>12 DEF Cleared
<1> QED BY <1>1, <1>2, CleanupEffect
-----------------------------------------------------------------------------
(* The steps *)

\* Presses, senders, answers, the device and the connection leave the tasks that make the
\* session's life alone.
Beside ==
  \/ \E a \in Answers : AnswerPress(a) \/ AnswerStep(a)
  \/ \E d \in Doors : DoorPress(d)
  \/ \E t \in Senders : SenderStep(t)
  \/ DeviceSends \/ DeviceOpensRtpc \/ ConnectionDrops \/ UNCHANGED vars

Aside ==
  /\ pc' \in [Tasks -> Places] /\ UNCHANGED <<active, set, alive, told, receiver>>
  /\ \A t \in Cleaners \cup {"monitor"} : pc'[t] = pc[t]

LEMMA PressesAside ==
  ASSUME LifeInv, Beside
  PROVE  Aside
<1> USE DEF LifeInv
<1>0. {"lock", "between", "sending", "drain", "acking", "rtpc", "done", "failed", "crashed"}
        \subseteq Places
  BY DEF Places
<1>1. ASSUME NEW t \in Answers \cup Senders, NEW to \in Places, pc' = [pc EXCEPT ![t] = to],
             UNCHANGED <<active, set, alive, told, receiver>>
      PROVE  Aside
  <2>1. t \in Tasks /\ t \notin Cleaners \cup {"monitor"}
    BY TasksApart
  <2> QED BY <1>1, <2>1, TasksApart DEF Aside
<1>2. ASSUME NEW a \in Answers, AnswerPress(a) \/ AnswerStep(a)
      PROVE  Aside
  <2>1. UNCHANGED <<active, set, alive, told, receiver>>
    BY <1>2 DEF AnswerPress, AnswerStep, AnswerLocks, AnswerAccepts, AnswerDrains, AnswerTakes,
         AnswerAcked, AnswerTimesOut, AnswerHasRtpc, UnchangedByAnswer, UnchangedByDrain
  <2>2. \E to \in Places : pc' = [pc EXCEPT ![a] = to]
    BY <1>0, <1>2 DEF AnswerPress, AnswerStep, AnswerLocks, AnswerAccepts, AnswerDrains,
         AnswerTakes, AnswerAcked, AnswerTimesOut, AnswerHasRtpc, SendsPeer, Loops, LeavesLoop,
         Finishes
  <2> QED BY <1>1, <2>1, <2>2
<1>3. ASSUME NEW t \in Senders, SenderStep(t) \/ (t \in Doors /\ DoorPress(t))
      PROVE  Aside
  <2>1. UNCHANGED <<active, set, alive, told, receiver>>
    BY <1>3 DEF DoorPress, SenderStep, SenderLocks, SenderReturns, UnchangedBySender, resources
  <2>2. \E to \in Places : pc' = [pc EXCEPT ![t] = to]
    BY <1>0, <1>3 DEF DoorPress, SenderStep, SenderLocks, SenderReturns, SendsNext
  <2> QED BY <1>1, <2>1, <2>2
<1>4. CASE DeviceSends \/ DeviceOpensRtpc \/ ConnectionDrops \/ UNCHANGED vars
  BY <1>4 DEF DeviceSends, DeviceOpensRtpc, ConnectionDrops, UnchangedByDevice, vars, attributes,
       resources, Aside
<1>5. Doors \subseteq Senders
  BY DEF Senders
<1> QED BY <1>2, <1>3, <1>4, <1>5 DEF Beside

\* What Phase and TimerState are, before and after a step.
LEMMA PhaseCases ==
  /\ pc["start"] = "idle" => Phase = "none"
  /\ pc["start"] \in Starting => Phase = "negotiating"
  /\ pc["start"] = "cancelled" /\ pc["monitor"] = "idle" => Phase = "negotiating"
  /\ pc["start"] \notin {"idle"} \cup Starting
       /\ ~(pc["start"] = "cancelled" /\ pc["monitor"] = "idle")
       => Phase = IF ~active THEN "ended"
                  ELSE IF pc["monitor"] \in Renewing THEN "renewing" ELSE "active"
BY DEF Phase, Starting

LEMMA PhaseCasesNext ==
  /\ pc'["start"] = "idle" => Phase' = "none"
  /\ pc'["start"] \in Starting => Phase' = "negotiating"
  /\ pc'["start"] = "cancelled" /\ pc'["monitor"] = "idle" => Phase' = "negotiating"
  /\ pc'["start"] \notin {"idle"} \cup Starting
       /\ ~(pc'["start"] = "cancelled" /\ pc'["monitor"] = "idle")
       => Phase' = IF ~active' THEN "ended"
                   ELSE IF pc'["monitor"] \in Renewing THEN "renewing" ELSE "active"
BY DEF Phase, Starting

LEMMA TimerCases ==
  /\ pc[Timer] = "armed" => TimerState = "armed"
  /\ pc[Timer] \in Awaits => TimerState = "cleaning"
  /\ pc[Timer] \notin {"armed"} \cup Awaits => TimerState = "off"
  /\ pc'[Timer] = "armed" => TimerState' = "armed"
  /\ pc'[Timer] \in Awaits => TimerState' = "cleaning"
  /\ pc'[Timer] \notin {"armed"} \cup Awaits => TimerState' = "off"
BY AwaitsOfCleanup DEF TimerState, Awaits

LifeStep == LifeInv' /\ [Life!Next]_(Life!vars)

LEMMA AsideLives ==
  ASSUME LifeInv, Aside
  PROVE  LifeStep
<1>1. \A t \in Stops \cup {"start", "monitor", Timer} : pc'[t] = pc[t]
  BY DEF Aside, Cleaners
<1>2. LifeInv'
  BY <1>1 DEF LifeInv, Aside, StartOrder, CleanupOrder, ToldOnce, Cleans
<1>3. Phase' = Phase /\ TimerState' = TimerState
  BY <1>1, PhaseCases, PhaseCasesNext, TimerCases DEF Aside
<1> QED BY <1>2, <1>3 DEF LifeStep, Life!vars, Aside

\* The start before it goes live.
LEMMA StartLives ==
  ASSUME LifeInv, NEW from \in {"idle"} \cup Starting, NEW to \in Starting, Stage(from, to),
         "receiver" \in set' => "receiver" \in set \/ receiver' = "up",
         set' \subseteq set \cup {"receiver"},
         receiver' \in {receiver, "up"},
         UNCHANGED <<active, alive, told>>
  PROVE  LifeStep
<1>1. /\ pc["start"] = from /\ pc'["start"] = to /\ pc' \in [Tasks -> Places]
      /\ \A t \in Tasks \ {"start"} : pc'[t] = pc[t]
  BY TasksApart DEF Stage, LifeInv, Places
<1>2. /\ pc[Timer] = "idle" /\ "timeout" \notin told /\ pc["monitor"] = "idle" /\ ~active
      /\ \A s \in Stops : pc[s] = "idle"
  BY <1>1 DEF LifeInv, StartOrder, Starting
<1>3. /\ pc'[Timer] = "idle" /\ pc'["monitor"] = "idle"
      /\ \A s \in Stops : pc'[s] = "idle"
  BY <1>1, <1>2, TasksApart DEF Cleaners, Timer
<1>4. \A k \in Cleaners : pc'[k] \notin Awaits
  BY <1>1, <1>3 DEF Cleaners, Awaits, Starting
<1>5. StartOrder'
  BY <1>1, <1>2, <1>3 DEF StartOrder, Starting
<1>6. "timer" \notin set' /\ pc'[Timer] # "armed"
  BY <1>2, <1>3 DEF LifeInv, CleanupOrder
<1>7. CleanupOrder'
  BY <1>4, <1>6 DEF LifeInv, CleanupOrder, Cleans, Awaits
<1>8. ToldOnce'
  BY <1>2, <1>3 DEF LifeInv, ToldOnce
<1>9. /\ Phase' = "negotiating" /\ TimerState' = TimerState
      /\ Phase = IF from = "idle" THEN "none" ELSE "negotiating"
  BY <1>1, <1>2, <1>3, PhaseCases, PhaseCasesNext, TimerCases DEF Starting
<1> QED BY <1>1, <1>5, <1>7, <1>8, <1>9 DEF LifeStep, LifeInv, Life!vars, Life!Next, Life!Goes

LEMMA StageSteps ==
  ASSUME LifeInv, \/ StartBegins \/ InboundBegins \/ StartCalls \/ StartControls
                  \/ StartExchanges \/ StartLinks
  PROVE  LifeStep
<1>1. \E from \in {"idle"} \cup Starting, to \in Starting : Stage(from, to)
  BY DEF StartBegins, InboundBegins, StartCalls, StartControls, StartExchanges, StartLinks, Starting
<1>2. /\ UNCHANGED <<active, alive, told>>
      /\ \/ set' = set /\ receiver' = receiver
         \/ set' = set \cup {"receiver"} /\ receiver' = "up"
  BY DEF StartBegins, InboundBegins, StartCalls, StartControls, StartExchanges, StartLinks,
         UnchangedByStart
<1> QED BY <1>1, <1>2, StartLives

\* Past it: the session goes live, and its timer is armed.
LEMMA LiveSteps ==
  ASSUME LifeInv, NEW n, pc["start"] = "linking", GoesLive(n)
  PROVE  LifeStep
<1>1. /\ pc' \in [Tasks -> Places] /\ pc'["start"] = "gate" /\ pc'["monitor"] = "read"
      /\ \A t \in Tasks \ {"start", "monitor"} : pc'[t] = pc[t]
  BY TasksApart DEF GoesLive, LifeInv, Places
<1>2. /\ pc[Timer] = "idle" /\ "timeout" \notin told /\ pc["monitor"] = "idle"
      /\ \A s \in Stops : pc[s] = "idle"
  BY DEF LifeInv, StartOrder, Starting
<1>3. pc'[Timer] = "idle" /\ \A s \in Stops : pc'[s] = "idle"
  BY <1>1, <1>2, TasksApart DEF Cleaners, Timer
<1>4. \A k \in Cleaners : pc'[k] \notin Awaits
  BY <1>1, <1>3 DEF Cleaners, Awaits
<1>5. /\ active' = TRUE /\ set' = set \cup {"tcp", "ctpp"} /\ told' = told
      /\ receiver' = receiver
  BY DEF GoesLive
<1>6. StartOrder' /\ ToldOnce'
  BY <1>1, <1>2, <1>3, <1>5 DEF StartOrder, Starting, LifeInv, ToldOnce
<1>7. CleanupOrder'
  BY <1>2, <1>3, <1>4, <1>5 DEF LifeInv, CleanupOrder, Cleans, Awaits
<1>8. Phase = "negotiating" /\ Phase' = "active" /\ TimerState' = TimerState
  BY <1>1, <1>2, <1>3, <1>5, PhaseCases, PhaseCasesNext, TimerCases DEF Starting, Renewing
<1> QED BY <1>1, <1>5, <1>6, <1>7, <1>8 DEF LifeStep, LifeInv, Life!vars, Life!Next, Life!Goes

LEMMA TimerArmed ==
  ASSUME LifeInv, NEW next \in {"idle", "lock"}, TimerStarts(next)
  PROVE  LifeStep
<1>1. /\ pc' \in [Tasks -> Places] /\ pc["start"] = "gate" /\ pc'["start"] = "done"
      /\ pc'[Timer] = "armed"
      /\ \A t \in Stops \cup {"monitor"} : pc'[t] = pc[t]
  BY ConstantsAssumption DEF TimerStarts, LifeInv, Places, Tasks, Own, Timer
<1>2. /\ pc[Timer] = "idle" /\ "timeout" \notin told /\ pc["monitor"] # "idle"
      /\ \A s \in Stops : pc[s] = "idle"
  BY <1>1 DEF LifeInv, StartOrder
<1>3. /\ active' = active /\ set' = set \cup {"timer"} /\ alive' = alive \cup {"timer"}
      /\ told' = told /\ receiver' = receiver
  BY DEF TimerStarts
<1>4. \A k \in Cleaners : pc'[k] \notin Awaits
  BY <1>1, <1>2 DEF Cleaners, Awaits
<1>5. StartOrder' /\ ToldOnce'
  BY <1>1, <1>2, <1>3 DEF StartOrder, Starting, LifeInv, ToldOnce
<1>6. CleanupOrder'
  BY <1>1, <1>3, <1>4 DEF LifeInv, CleanupOrder, Cleans, Awaits
<1>7. /\ Phase \in {"active", "renewing", "ended"} /\ Phase' = Phase
      /\ TimerState = "off" /\ TimerState' = "armed"
  BY <1>1, <1>2, <1>3, PhaseCases, PhaseCasesNext, TimerCases DEF Starting, Awaits
<1> QED BY <1>1, <1>2, <1>3, <1>5, <1>6, <1>7 DEF LifeStep, LifeInv, Life!vars, Life!Next, Life!Arm

LEMMA CancelledLives ==
  ASSUME LifeInv, StartCancelled
  PROVE  LifeStep
<1>1. /\ pc' \in [Tasks -> Places] /\ pc'["start"] = "cancelled"
      /\ \A t \in Tasks \ {"start"} : pc'[t] = pc[t]
      /\ UNCHANGED <<active, set, alive, told, receiver>>
  BY TasksApart DEF StartCancelled, LifeInv, Places, attributes, resources
<1>2. pc'[Timer] = pc[Timer] /\ pc'["monitor"] = pc["monitor"] /\ \A s \in Stops : pc'[s] = pc[s]
  BY <1>1, TasksApart DEF Cleaners, Timer
<1>3. /\ pc["start"] \in Starting \cup {"gate"} /\ pc[Timer] = "idle" /\ "timeout" \notin told
      /\ pc["start"] = "gate" <=> pc["monitor"] # "idle"
  BY DEF StartCancelled, LifeInv, StartOrder, Starting
<1>4. \A k \in Cleaners : pc'[k] = pc[k] \/ pc'[k] \notin Awaits
  BY <1>1, <1>2 DEF Cleaners, Awaits
<1>5. StartOrder' /\ ToldOnce'
  BY <1>1, <1>2, <1>3 DEF LifeInv, StartOrder, ToldOnce, Starting, Cleans
<1>6. CleanupOrder'
  BY <1>1, <1>2, <1>4 DEF LifeInv, CleanupOrder, Cleans, Awaits
<1>7. Phase' = Phase /\ TimerState' = TimerState
  BY <1>1, <1>2, <1>3, PhaseCases, PhaseCasesNext, TimerCases DEF Starting
<1> QED BY <1>1, <1>5, <1>6, <1>7 DEF LifeStep, LifeInv, Life!vars

\* The monitor, between one await and the next: only its own place changes.
LEMMA MonitorLives ==
  ASSUME LifeInv, MonitorStep
  PROVE  LifeStep
<1>1. PICK to \in {"read", "lock", "reset", "recall", "relink", "done"} :
        pc' = [pc EXCEPT !["monitor"] = to]
  <2>1. CASE MonitorReads
    <3>1. CASE UNCHANGED pc
      <4>1. pc' = [pc EXCEPT !["monitor"] = "read"]
        BY <2>1, <3>1 DEF MonitorReads, LifeInv
      <4> QED BY <4>1
    <3> QED BY <2>1, <3>1 DEF MonitorReads
  <2>2. CASE ~MonitorReads
    BY <2>2 DEF MonitorStep, MonitorLeaves, MonitorLocks, MonitorRecalls, MonitorRelinks,
       MonitorRenewed, MonitorGivesUp, Monitor
  <2> QED BY <2>1, <2>2
<1>2. /\ pc["monitor"] \in {"read", "lock"} \cup Renewing /\ set' = set /\ receiver' = receiver
      /\ "timer" \in alive => "timer" \in alive'
  BY DEF MonitorStep, MonitorReads, MonitorLeaves, MonitorLocks, MonitorRecalls, MonitorRelinks,
     MonitorRenewed, MonitorGivesUp, Monitor, UnchangedByMonitor, Renewing
<1>3. \/ /\ active' = active /\ told' = told
         /\ active /\ pc["monitor"] \in Renewing => pc'["monitor"] \in Renewing \cup {"read"}
      \/ /\ active' = FALSE /\ told' = told \cup {"call_end"}
         /\ pc["monitor"] \in Renewing /\ pc'["monitor"] = "done"
  <2>1. \A p : pc' = [pc EXCEPT !["monitor"] = p] => pc'["monitor"] = p
    BY TasksApart DEF LifeInv
  <2>2. CASE MonitorGivesUp
    BY <2>1, <2>2 DEF MonitorGivesUp
  <2>3. CASE MonitorReads \/ MonitorLeaves
    BY <2>3 DEF MonitorReads, MonitorLeaves, Monitor, Renewing
  <2>4. CASE MonitorLocks \/ MonitorRecalls \/ MonitorRelinks \/ MonitorRenewed
    BY <2>1, <2>4 DEF MonitorLocks, MonitorRecalls, MonitorRelinks, MonitorRenewed, Monitor,
       Renewing
  <2> QED BY <2>2, <2>3, <2>4 DEF MonitorStep
<1>4. /\ pc' \in [Tasks -> Places] /\ pc'["monitor"] = to
      /\ \A t \in Stops \cup {"start", Timer} : pc'[t] = pc[t]
  BY <1>1, ConstantsAssumption DEF LifeInv, Places, Renewing, Starting, Tasks, Own, Timer
<1>5. /\ pc["start"] \notin {"idle"} \cup Starting
      /\ "call_end" \notin told
  BY <1>2 DEF LifeInv, StartOrder, ToldOnce, Renewing
<1>6. StartOrder' /\ ToldOnce'
  BY <1>3, <1>4, <1>5 DEF LifeInv, StartOrder, ToldOnce, Cleans
<1>7. \A k \in Cleaners : pc'[k] = pc[k]
  BY <1>4 DEF Cleaners
<1>8. CleanupOrder'
  BY <1>2, <1>3, <1>4, <1>7 DEF LifeInv, CleanupOrder, Cleans
<1>9. TimerState' = TimerState
  BY <1>4, TimerCases
<1>10. /\ Phase = IF ~active THEN "ended"
                   ELSE IF pc["monitor"] \in Renewing THEN "renewing" ELSE "active"
       /\ Phase' = IF ~active' THEN "ended"
                    ELSE IF pc'["monitor"] \in Renewing THEN "renewing" ELSE "active"
  BY <1>2, <1>4, <1>5, PhaseCases, PhaseCasesNext DEF Renewing
<1>11. [Life!Next]_(Life!vars)
  <2>1. CASE active' = active /\ told' = told
    BY <2>1, <1>9, <1>10 DEF Life!vars, Life!Next, Life!Goes
  <2>2. CASE /\ active' = FALSE /\ told' = told \cup {"call_end"}
             /\ pc["monitor"] \in Renewing
    BY <2>2, <1>5, <1>9, <1>10 DEF Life!vars, Life!Next, Life!GiveUp
  <2> QED BY <1>3, <2>1, <2>2
<1> QED BY <1>4, <1>6, <1>8, <1>11 DEF LifeStep, LifeInv

\* Where a cleanup begins.
MayBegin(k) ==
  /\ k = "start" => pc["start"] \in Starting
  /\ k = Timer => pc[Timer] = "armed"
  /\ k \in Stops => pc["start"] = "done" /\ pc[k] = "idle"

\* What the steps of a cleanup have in common.
CleanupStretch(k, i) ==
  /\ Cleared(k, i) /\ active' = FALSE
  /\ "receiver" \in set' => receiver' = receiver
  /\ IF i = 0 THEN MayBegin(k) ELSE Cleans(k)

\* A cleanup, at its beginning or from one await to the next.
LEMMA CleanupLives ==
  ASSUME LifeInv, NEW k \in Cleaners, NEW i \in 0 .. 4, CleanupStretch(k, i)
  PROVE  LifeStep
<1> USE DEF CleanupStretch
<1>1. CASE k = "start"
  <2>1. /\ pc["start"] # "done" /\ pc[Timer] = "idle" /\ "timer" \notin set
        /\ "timeout" \notin told /\ \A s \in Stops : pc[s] = "idle"
    BY <1>1 DEF MayBegin, LifeInv, StartOrder, CleanupOrder, Starting, Cleans, Awaits
  <2>2. /\ pc'[Timer] = "idle" /\ told' = told /\ \A s \in Stops : pc'[s] = "idle"
        /\ pc'["start"] \in Awaits \cup {"failed"}
    BY <1>1, <2>1, TasksApart DEF Cleared, Cleaners, Timer
  <2>3. StartOrder' /\ ToldOnce'
    BY <2>1, <2>2 DEF LifeInv, StartOrder, ToldOnce, Cleared, Starting, Awaits
  <2>4. CleanupOrder'
    BY <1>1, <2>1, <2>2 DEF LifeInv, CleanupOrder, Cleared, Cleans, Cleaners, Awaits
  <2>5. /\ Phase \in {"negotiating", "ended"} /\ Phase' = "ended" /\ TimerState' = TimerState
    BY <1>1, <2>1, <2>2, PhaseCases, PhaseCasesNext, TimerCases
       DEF MayBegin, Starting, Awaits, Cleans, LifeInv, CleanupOrder
  <2> QED BY <2>2, <2>3, <2>4, <2>5 DEF LifeStep, LifeInv, Cleared, Life!vars, Life!Next, Life!Goes
<1>2. CASE k # "start"
  <2>1. pc["start"] = "done" /\ pc'["start"] = "done"
    BY <1>2, TasksApart DEF MayBegin, LifeInv, StartOrder, Cleared, Cleaners, Cleans, Awaits, Timer
  <2>2. pc[Timer] # "armed" \/ (pc["timer"] = "armed" /\ "timer" \in set)
    BY DEF LifeInv, CleanupOrder, Timer
  <2>3. StartOrder'
    BY <2>1 DEF StartOrder, Starting
  <2>4. ToldOnce'
    BY <1>2 DEF MayBegin, LifeInv, ToldOnce, Cleared, Cleans, Awaits, Timer
  <2>5. CleanupOrder'
    <3>1. \A c \in Cleaners : pc'[c] = "receiver" => c = k \/ pc[c] = "receiver"
      BY TasksApart DEF Cleared, Timer
    <3>2. "timer" \in set' => pc'[Timer] = "armed"
      BY <1>2 DEF MayBegin, LifeInv, CleanupOrder, Cleared, Cleans, Awaits, Timer
    <3>3. pc'[Timer] = "armed" => "timer" \in set' /\ "timer" \in alive'
      BY <1>2 DEF LifeInv, CleanupOrder, Cleared, Awaits, Timer
    <3> QED BY <3>1, <3>2, <3>3 DEF LifeInv, CleanupOrder, Cleared
  <2>6. /\ Phase \in {"active", "renewing", "ended"} /\ Phase' = "ended"
        /\ i # 0 => Phase = "ended"
    BY <2>1, PhaseCases, PhaseCasesNext DEF Starting, LifeInv, CleanupOrder
  <2>7. CASE k = Timer /\ i = 0
    <3>1. TimerState = "armed" /\ TimerState' = "cleaning" /\ told' = told
      BY <2>7, TimerCases DEF MayBegin, Cleared, LifeInv, CleanupOrder, Timer
    <3> QED BY <2>3, <2>4, <2>5, <2>6, <3>1
            DEF LifeStep, LifeInv, Cleared, Life!vars, Life!Next, Life!Fires
  <2>8. CASE k = Timer /\ i # 0
    <3>1. TimerState = "cleaning"
      BY <2>8, TimerCases DEF Cleans
    <3>2. \/ TimerState' = "cleaning" /\ told' = told
          \/ TimerState' = "off" /\ told' = told \cup {"timeout"}
      BY <1>2, <2>8, TimerCases DEF Cleared, Awaits
    <3> QED BY <2>3, <2>4, <2>5, <2>6, <2>8, <3>1, <3>2
            DEF LifeStep, LifeInv, Cleared, Life!vars, Life!Next, Life!Reports
  <2>9. CASE k # Timer
    <3>1. told' = told
      BY <2>9 DEF Cleared
    <3>2. CASE i = 0
      <4>1. TimerState' = IF TimerState = "armed" THEN "off" ELSE TimerState
        BY <2>9, <3>2, TimerCases DEF Cleared, LifeInv, CleanupOrder, Awaits
      <4> QED BY <2>3, <2>4, <2>5, <2>6, <3>1, <4>1
              DEF LifeStep, LifeInv, Cleared, Life!vars, Life!Next, Life!Stop
    <3>3. CASE i # 0
      <4>1. TimerState' = TimerState
        BY <2>9, <3>3, TimerCases DEF Cleared
      <4> QED BY <2>3, <2>4, <2>5, <2>6, <3>1, <3>3, <4>1 DEF LifeStep, LifeInv, Cleared, Life!vars
    <3> QED BY <3>2, <3>3
  <2> QED BY <2>7, <2>8, <2>9
<1> QED BY <1>1, <1>2

Cleanup ==
  \/ StartFails \/ TimerFires
  \/ \E s \in Stops : StopBegins(s)
  \/ \E k \in Cleaners : CleanupGoesOn(k)

LEMMA CleanupShape ==
  ASSUME LifeInv, Cleanup
  PROVE  \E k \in Cleaners, i \in 0 .. 4 : CleanupStretch(k, i)
<1>1. ASSUME NEW k \in Cleaners, CleanupBegins(k), MayBegin(k)
      PROVE  \E i \in 0 .. 4 : CleanupStretch(k, i)
  <2>1. 0 \in 0 .. 4
    OBVIOUS
  <2>2. Cleared(k, 0)
    BY <1>1, <2>1, CleanupClears DEF CleanupBegins
  <2>3. CleanupStretch(k, 0)
    BY <1>1, <2>2 DEF CleanupBegins, ReceiverStops, Cleared, CleanupStretch
  <2> QED BY <2>1, <2>3
<1>2. ASSUME NEW k \in Cleaners, CleanupGoesOn(k)
      PROVE  \E i \in 0 .. 4 : CleanupStretch(k, i)
  <2>1. PICK i \in 1 .. 4 :
          /\ pc[k] = Waits[i] /\ CleanupFrom(k, i)
          /\ IF Waits[i] = "receiver" THEN receiver' = "stopped" ELSE ReceiverStops(k)
          /\ active' = active
    BY <1>2, AwaitsOfCleanup DEF CleanupGoesOn
  <2>2. i \in 0 .. 4 /\ i # 0
    OBVIOUS
  <2>3. Cleared(k, i)
    BY <2>1, <2>2, CleanupClears
  <2>4. Cleans(k) /\ ~active
    BY <2>1, AwaitsOfCleanup DEF Cleans, Awaits, LifeInv, CleanupOrder
  <2>5. "receiver" \in set' => receiver' = receiver
    BY <2>1, <2>3 DEF LifeInv, CleanupOrder, Cleared, ReceiverStops
  <2>6. CleanupStretch(k, i)
    BY <2>1, <2>2, <2>3, <2>4, <2>5 DEF CleanupStretch
  <2> QED BY <2>2, <2>6
<1>3. CASE StartFails
  BY <1>1, <1>3, TasksApart DEF StartFails, Cleaners, MayBegin, Timer
<1>4. CASE TimerFires
  BY <1>1, <1>4, TasksApart DEF TimerFires, Cleaners, MayBegin, Timer
<1>5. CASE \E s \in Stops : StopBegins(s)
  BY <1>1, <1>5, TasksApart DEF StopBegins, Cleaners, MayBegin
<1>6. CASE \E k \in Cleaners : CleanupGoesOn(k)
  BY <1>2, <1>6
<1> QED BY <1>3, <1>4, <1>5, <1>6 DEF Cleanup

\* Every step of the session.
LEMMA StepKinds ==
  ASSUME [Next]_vars
  PROVE  \/ Beside \/ Cleanup \/ MonitorStep \/ StartCancelled
         \/ StartBegins \/ InboundBegins \/ StartCalls \/ StartControls \/ StartExchanges
         \/ StartLinks
         \/ \E n \in Firsts \cup {1} : pc["start"] = "linking" /\ GoesLive(n)
         \/ \E next \in {"idle", "lock"} : TimerStarts(next)
BY DEF Next, StartStep, Presses, Environment, Beside, Cleanup, StartLive, InboundLive, StartReturns,
   InboundReturns

LEMMA SessionLives ==
  ASSUME LifeInv, [Next]_vars
  PROVE  LifeStep
<1>1. CASE Cleanup
  BY <1>1, CleanupShape, CleanupLives
<1> QED BY <1>1, StepKinds, PressesAside, AsideLives, MonitorLives, CancelledLives, StageSteps,
           LiveSteps, TimerArmed
-----------------------------------------------------------------------------
(* The answer and its audio *)

\* An answer moves past its second message only by sending it, and opens the audio only
\* from there and while there is a receiver.
LEMMA AnswerSpeaks ==
  ASSUME SessionInv, NEW a \in Answers, AnswerPress(a) \/ AnswerStep(a)
  PROVE  AnswerOrder' /\ AudioAnswered'
<1> DEFINE Late == {"sending", "drain", "acking", "rtpc"}
<1>1. receiver' = receiver /\ (accepted => accepted')
  <2>1. CASE AnswerAccepts(a)
    BY <2>1 DEF AnswerAccepts, UnchangedByAnswer
  <2>2. ~AnswerAccepts(a) => receiver' = receiver /\ accepted' = accepted
    BY DEF AnswerPress, AnswerStep, AnswerLocks, AnswerDrains, AnswerTakes, AnswerAcked,
       AnswerTimesOut, AnswerHasRtpc, UnchangedByAnswer, UnchangedByDrain
  <2> QED BY <2>1, <2>2
<1>2. /\ pc \in [Tasks -> Places] /\ a \in Tasks
      /\ \A b \in Answers : b \in Tasks /\ (pc[b] \in Late => accepted)
  BY TasksApart DEF SessionInv, LifeInv, AnswerOrder
<1>3. CASE AnswerPress(a) \/ AnswerLocks(a)
  <2>1. audio' = audio
    BY <1>3 DEF AnswerPress, AnswerLocks
  <2>2. \E to \in {"lock", "between", "failed"} : pc' = [pc EXCEPT ![a] = to]
    BY <1>3 DEF AnswerPress, AnswerLocks, SendsPeer
  <2> QED BY <1>1, <1>2, <2>1, <2>2 DEF SessionInv, AnswerOrder, AudioAnswered
<1>4. CASE AnswerAccepts(a)
  <2>1. audio' = audio
    BY <1>4 DEF AnswerAccepts
  <2>2. \/ accepted' /\ pc' = [pc EXCEPT ![a] = "sending"]
        \/ pc' = [pc EXCEPT ![a] = "failed"]
    BY <1>4 DEF AnswerAccepts
  <2> QED BY <1>1, <1>2, <2>1, <2>2 DEF SessionInv, AnswerOrder, AudioAnswered
<1>5. CASE \/ AnswerDrains(a) \/ AnswerTakes(a) \/ AnswerAcked(a) \/ AnswerTimesOut(a)
           \/ AnswerHasRtpc(a)
  <2>1. pc[a] \in Late
    BY <1>5 DEF AnswerDrains, AnswerTakes, AnswerAcked, AnswerTimesOut, AnswerHasRtpc
  <2>2. audio' => audio \/ "receiver" \in set
    BY <1>5 DEF AnswerDrains, AnswerTakes, AnswerAcked, AnswerTimesOut, AnswerHasRtpc, Loops,
       LeavesLoop, Finishes
  <2>3. \E to \in Places : pc' = [pc EXCEPT ![a] = to]
    BY <1>5 DEF AnswerDrains, AnswerTakes, AnswerAcked, AnswerTimesOut, AnswerHasRtpc, Loops,
       LeavesLoop, Finishes, Places
  <2> QED BY <1>1, <1>2, <2>1, <2>2, <2>3
          DEF SessionInv, LifeInv, CleanupOrder, AnswerOrder, AudioAnswered
<1> QED BY <1>3, <1>4, <1>5 DEF AnswerStep

\* No other step opens the audio, takes an acceptance back or moves an answer.
LEMMA OthersSilent ==
  ASSUME SessionInv, [Next]_vars, ~(\E a \in Answers : AnswerPress(a) \/ AnswerStep(a))
  PROVE  AnswerOrder' /\ AudioAnswered'
<1> USE DEF SessionInv
<1>1. ASSUME NEW t \in Tasks \ Answers, NEW to, pc' = [pc EXCEPT ![t] = to],
             audio' = audio, accepted' = accepted, receiver' \in {receiver, "up"}
      PROVE  AnswerOrder' /\ AudioAnswered'
  BY <1>1, TasksApart DEF LifeInv, AnswerOrder, AudioAnswered
<1>2. ASSUME \A a \in Answers : pc'[a] = pc[a], accepted' = accepted,
             \/ audio' = FALSE
             \/ audio' = audio /\ receiver' \in {receiver, "up", "stopping"}
      PROVE  AnswerOrder' /\ AudioAnswered'
  BY <1>2 DEF AnswerOrder, AudioAnswered
<1>3. CASE Cleanup
  <2>1. \A a \in Answers : pc'[a] = pc[a]
    BY <1>3, CleanupShape, TasksApart DEF CleanupStretch, Cleared, Cleaners
  <2>2. /\ accepted' = accepted
        /\ \/ audio' = FALSE
           \/ audio' = audio /\ receiver' \in {receiver, "up", "stopping"}
    <3>1. CASE \E k \in Cleaners : CleanupGoesOn(k)
      BY <3>1 DEF CleanupGoesOn, ReceiverStops, device
    <3>2. CASE \E k \in Cleaners : CleanupBegins(k)
      BY <3>2 DEF CleanupBegins, ReceiverStops, device
    <3>3. Cleanup => \E k \in Cleaners : CleanupGoesOn(k) \/ CleanupBegins(k)
      BY DEF Cleanup, StartFails, TimerFires, StopBegins, Cleaners
    <3> QED BY <1>3, <3>1, <3>2, <3>3
  <2> QED BY <1>2, <2>1, <2>2
<1>4. CASE MonitorStep
  <2>1. audio' = audio /\ accepted' = accepted /\ receiver' = receiver
    BY <1>4 DEF MonitorStep, MonitorReads, MonitorLeaves, MonitorLocks, MonitorRecalls,
       MonitorRelinks, MonitorRenewed, MonitorGivesUp, UnchangedByMonitor
  <2>2. UNCHANGED pc \/ \E to : pc' = [pc EXCEPT !["monitor"] = to]
    BY <1>4 DEF MonitorStep, MonitorReads, MonitorLeaves, MonitorLocks, MonitorRecalls,
       MonitorRelinks, MonitorRenewed, MonitorGivesUp, Monitor
  <2>3. "monitor" \in Tasks \ Answers
    BY TasksApart
  <2> QED BY <1>1, <1>2, <2>1, <2>2, <2>3
<1>5. CASE \/ StartBegins \/ InboundBegins \/ StartCalls \/ StartControls \/ StartExchanges
           \/ StartLinks \/ StartCancelled
  <2>1. audio' = audio /\ accepted' = accepted /\ receiver' \in {receiver, "up"}
    BY <1>5 DEF StartBegins, InboundBegins, StartCalls, StartControls, StartExchanges, StartLinks,
       StartCancelled, UnchangedByStart, resources, device
  <2>2. \E to : pc' = [pc EXCEPT !["start"] = to]
    BY <1>5 DEF StartBegins, InboundBegins, StartCalls, StartControls, StartExchanges, StartLinks,
       StartCancelled, Stage
  <2>3. "start" \in Tasks \ Answers
    BY TasksApart DEF Cleaners
  <2> QED BY <1>1, <2>1, <2>2, <2>3
<1>6. CASE \/ \E n \in Firsts \cup {1} : GoesLive(n)
           \/ \E next \in {"idle", "lock"} : TimerStarts(next)
  <2>1. audio' = audio /\ accepted' = accepted /\ receiver' = receiver
    BY <1>6 DEF GoesLive, TimerStarts, device
  <2>2. \A a \in Answers : pc'[a] = pc[a]
    BY <1>6, ConstantsAssumption DEF GoesLive, TimerStarts, LifeInv, Tasks, Own
  <2> QED BY <1>2, <2>1, <2>2
<1>7. CASE Beside
  <2>1. audio' = audio /\ accepted' = accepted /\ receiver' = receiver
    BY <1>7 DEF Beside, DoorPress, SenderStep, SenderLocks, SenderReturns, UnchangedBySender,
       resources, DeviceSends, DeviceOpensRtpc, ConnectionDrops, UnchangedByDevice, device, vars
  <2>2. UNCHANGED pc \/ \E t \in Senders, to \in Places : pc' = [pc EXCEPT ![t] = to]
    BY <1>7 DEF Beside, DoorPress, SenderStep, SenderLocks, SenderReturns, SendsNext, Senders,
       DeviceSends, DeviceOpensRtpc, ConnectionDrops, UnchangedByDevice, vars, Places
  <2>3. Senders \subseteq Tasks \ Answers
    BY TasksApart, ConstantsAssumption DEF Senders, Tasks, Own
  <2> QED BY <1>1, <1>2, <2>1, <2>2, <2>3
<1> QED BY <1>3, <1>4, <1>5, <1>6, <1>7, StepKinds
-----------------------------------------------------------------------------
LEMMA Invariance == Spec => []SessionInv
<1>1. Init => SessionInv
  <2> SUFFICES ASSUME Init PROVE SessionInv
    OBVIOUS
  <2>1. pc \in [Tasks -> Places] /\ \A t \in Tasks : pc[t] = "idle"
    BY DEF Init, Places
  <2>2. \A s \in Stops : s \in Tasks
    BY DEF Tasks
  <2>3. StartOrder
    BY <2>1, <2>2, TasksApart DEF Init, StartOrder
  <2>4. CleanupOrder /\ ToldOnce
    BY <2>1, TasksApart DEF Init, CleanupOrder, ToldOnce, Cleans, Awaits
  <2>5. AnswerOrder /\ AudioAnswered
    BY <2>1, TasksApart DEF Init, AnswerOrder, AudioAnswered
  <2> QED BY <2>1, <2>3, <2>4, <2>5 DEF SessionInv, LifeInv
<1>2. SessionInv /\ [Next]_vars => SessionInv'
  BY SessionLives, AnswerSpeaks, OthersSilent DEF SessionInv, LifeStep
<1> QED BY <1>1, <1>2, PTL DEF Spec

\* The microphone is open only while there is a receiver and after the device was told
\* that the call is answered (answer_inbound), for any number of presses, whatever stops,
\* renews or drops the session meanwhile.
THEOREM AudioRight == Spec => []AudioAnswered
<1>1. SessionInv => AudioAnswered
  BY DEF SessionInv
<1> QED BY <1>1, Invariance, PTL

\* The session's own tasks give the coordinator the life that SessionLife promises: it is
\* never revived, its timer is armed once, and the end of a renewal and the time-out are
\* told once each (_cleanup, _ctpp_monitor_loop, _auto_timeout_loop).
THEOREM LifeRefined == Spec => LifeImplemented
<1>1. Init => Life!Init
  BY PhaseCases, TimerCases, TasksApart DEF Init, Life!Init, Awaits
<1>2. SessionInv /\ [Next]_vars => [Life!Next]_(Life!vars)
  BY SessionLives DEF SessionInv, LifeStep
<1> QED BY <1>1, <1>2, Invariance, PTL DEF Spec, Life!Spec, LifeImplemented
-----------------------------------------------------------------------------
(* What a cleanup leaves *)

\* A cleanup that waits for something has cleared that and everything before it,
Passed(k) == \A i \in 1 .. 4 : pc[k] = Waits[i] => \A j \in 1 .. i : Waits[j] \notin set

\* the task behind an attribute runs only while the attribute is set, the timer also while it
\* cleans up itself,
TasksKnown ==
  /\ "tcp" \in alive => "tcp" \in set
  /\ "ctpp" \in alive => "ctpp" \in set
  /\ "timer" \in alive => "timer" \in set \/ Cleans(Timer)
  /\ pc["monitor"] \in {"read", "lock"} \cup Renewing => "ctpp" \in alive

\* and so does the receiver, or somebody stops it.
ReceiverKnown ==
  /\ receiver = "up" => "receiver" \in set
  /\ receiver = "stopping" => \E k \in Cleaners : pc[k] = "receiver"

LeftInv ==
  /\ set \subseteq Awaits /\ alive \subseteq {"timer", "tcp", "ctpp"}
  /\ receiver \in {"none", "up", "stopping", "stopped"}
  /\ \A k \in Cleaners : Passed(k)
  /\ TasksKnown /\ ReceiverKnown
  /\ CleanedUp => set = {} /\ channels \subseteq Shared

\* Before start() has returned nobody has cleaned up.
LEMMA Uncleaned ==
  /\ LifeInv /\ pc["start"] \in {"idle", "gate"} \cup Starting
       => ~CleanedUp /\ \A k \in Cleaners : ~Cleans(k)
  /\ LifeInv' /\ pc'["start"] \in {"gate"} \cup Starting
       => ~CleanedUp' /\ \A k \in Cleaners : ~Cleans(k)'
BY DEF LifeInv, StartOrder, Starting, Cleaners, CleanedUp, Cleans, Awaits

\* The steps that add something: none of them runs while a cleanup does.
LEMMA GrowsLeft ==
  ASSUME LifeInv, LifeInv', LeftInv, pc["start"] \in {"idle", "gate"} \cup Starting,
         pc'["start"] \in {"gate"} \cup Starting, set \subseteq set', set' \subseteq Awaits,
         alive' = alive \/ (alive' = {"tcp", "ctpp"} /\ alive' \subseteq set'),
         receiver' = receiver \/ (receiver' = "up" /\ "receiver" \in set'),
         pc'["monitor"] = pc["monitor"] \/ "ctpp" \in alive',
         pc["monitor"] = "idle" \/ alive' = alive
  PROVE  LeftInv'
<1>1. /\ \A k \in Cleaners : ~Cleans(k) /\ ~Cleans(k)'
      /\ ~CleanedUp'
  BY Uncleaned
<1>2. \A k \in Cleaners : Passed(k)'
  BY <1>1, AwaitsOfCleanup DEF Passed, Cleans, Awaits
<1>3. Timer \in Cleaners
  BY DEF Cleaners
<1>4. TasksKnown'
  BY <1>1, <1>3 DEF LeftInv, TasksKnown, Renewing
<1>5. ReceiverKnown'
  BY <1>1 DEF LeftInv, ReceiverKnown, Cleans, Awaits
<1> QED BY <1>1, <1>2, <1>4, <1>5 DEF LeftInv

LEMMA StagesLeft ==
  ASSUME LifeInv, LifeInv', LeftInv,
         \/ StartBegins \/ InboundBegins \/ StartCalls \/ StartControls \/ StartExchanges
         \/ StartLinks
  PROVE  LeftInv'
<1>1. PICK from \in {"idle"} \cup Starting, to \in Starting : Stage(from, to)
  BY DEF StartBegins, InboundBegins, StartCalls, StartControls, StartExchanges, StartLinks, Starting
<1>2. pc["start"] = from /\ pc'["start"] = to /\ pc'["monitor"] = pc["monitor"]
  BY <1>1, TasksApart DEF Stage, LifeInv, Cleaners
<1>3. /\ UNCHANGED alive
      /\ \/ set' = set /\ receiver' = receiver
         \/ set' = set \cup {"receiver"} /\ receiver' = "up"
  BY DEF StartBegins, InboundBegins, StartCalls, StartControls, StartExchanges, StartLinks,
         UnchangedByStart
<1>4. set \subseteq set' /\ set' \subseteq Awaits
  BY <1>3 DEF LeftInv, Awaits
<1>5. receiver' = receiver \/ (receiver' = "up" /\ "receiver" \in set')
  BY <1>3
<1>6. pc["start"] \in {"idle", "gate"} \cup Starting /\ pc'["start"] \in {"gate"} \cup Starting
  BY <1>2
<1> QED BY <1>2, <1>3, <1>4, <1>5, <1>6, GrowsLeft

LEMMA LiveLeft ==
  ASSUME LifeInv, LifeInv', LeftInv, NEW n, pc["start"] = "linking", GoesLive(n)
  PROVE  LeftInv'
<1>1. pc'["start"] = "gate" /\ "linking" \in Starting /\ pc["monitor"] = "idle"
  BY TasksApart DEF GoesLive, LifeInv, Starting, StartOrder
<1>2. /\ set' = set \cup {"tcp", "ctpp"} /\ alive' = {"tcp", "ctpp"} /\ receiver' = receiver
  BY DEF GoesLive
<1>3. set' \subseteq Awaits
  BY <1>2 DEF LeftInv, Awaits
<1> QED BY <1>1, <1>2, <1>3, GrowsLeft

LEMMA TimerLeft ==
  ASSUME LifeInv, LeftInv, NEW next \in {"idle", "lock"}, TimerStarts(next)
  PROVE  LeftInv'
<1>1. /\ pc["start"] = "gate" /\ pc'["start"] = "done" /\ pc'[Timer] = "armed"
      /\ \A t \in Stops \cup {"monitor"} : pc'[t] = pc[t]
  BY ConstantsAssumption DEF TimerStarts, LifeInv, Places, Tasks, Own, Timer
<1>2. /\ "timeout" \notin told /\ \A s \in Stops : pc[s] = "idle"
  BY <1>1 DEF LifeInv, StartOrder
<1>3. /\ set' = set \cup {"timer"} /\ alive' = alive \cup {"timer"}
      /\ told' = told /\ receiver' = receiver
  BY DEF TimerStarts
<1>4. \A k \in Cleaners : ~Cleans(k) /\ ~Cleans(k)'
  BY <1>1, <1>2, Uncleaned DEF Cleaners, Cleans, Awaits
<1>5. ~CleanedUp'
  BY <1>1, <1>2, <1>3 DEF CleanedUp
<1>6. \A k \in Cleaners : Passed(k)'
  BY <1>4, AwaitsOfCleanup DEF Passed, Cleans, Awaits
<1>7. TasksKnown'
  <2>1. Timer \in Cleaners
    BY DEF Cleaners
  <2> QED BY <1>1, <1>3, <1>4, <2>1 DEF LeftInv, TasksKnown, Renewing
<1>8. ReceiverKnown'
  BY <1>3, <1>4 DEF LeftInv, ReceiverKnown, Cleans, Awaits
<1> QED BY <1>3, <1>5, <1>6, <1>7, <1>8 DEF LeftInv, Awaits

\* The steps that leave the cleanups, their attributes and the monitor alone.
LEMMA StaysLeft ==
  ASSUME LifeInv, LeftInv, UNCHANGED <<set, alive, told, receiver, channels, owns>>,
         \A t \in Cleaners \cup {"monitor"} : pc'[t] = pc[t] \/ (t = "start" /\ pc'[t] = "cancelled"),
         pc'["start"] # pc["start"] => pc["start"] \in Starting \cup {"gate"}
  PROVE  LeftInv'
<1>1. \A k \in Cleaners : Cleans(k)' <=> Cleans(k)
  BY DEF Cleaners, Cleans, Awaits, Starting
<1>2. \A k \in Cleaners : Passed(k)'
  BY AwaitsOfCleanup DEF LeftInv, Passed
<1>3. pc'["monitor"] = pc["monitor"] /\ Timer \in Cleaners
  BY TasksApart DEF Cleaners
<1>4. TasksKnown'
  BY <1>1, <1>3 DEF LeftInv, TasksKnown
<1>5. \A k \in Cleaners : pc'[k] = pc[k] \/ pc[k] # "receiver"
  BY DEF Starting
<1>6. ReceiverKnown'
  BY <1>5 DEF LeftInv, ReceiverKnown
<1>7. CleanedUp' => CleanedUp
  BY DEF CleanedUp, Cleaners
<1> QED BY <1>2, <1>4, <1>6, <1>7 DEF LeftInv, Shared

LEMMA BesideNames == ASSUME Beside PROVE channels' = channels /\ owns' = owns
BY DEF Beside, AnswerPress, AnswerStep, AnswerLocks, AnswerAccepts, AnswerDrains, AnswerTakes,
   AnswerAcked, AnswerTimesOut, AnswerHasRtpc, UnchangedByAnswer, UnchangedByDrain, DoorPress,
   SenderStep, SenderLocks, SenderReturns, UnchangedBySender, resources, DeviceSends,
   DeviceOpensRtpc, ConnectionDrops, UnchangedByDevice, attributes, vars

LEMMA BesideLeft ==
  ASSUME LifeInv, LeftInv, Beside \/ StartCancelled
  PROVE  LeftInv'
<1>1. CASE Beside
  <2>1. Aside
    BY <1>1, PressesAside
  <2>2. channels' = channels /\ owns' = owns
    BY <1>1, BesideNames
  <2>3. \A t \in Cleaners \cup {"monitor"} : pc'[t] = pc[t]
    BY <2>1 DEF Aside
  <2>4. pc'["start"] = pc["start"]
    BY <2>3 DEF Cleaners
  <2>5. UNCHANGED <<set, alive, told, receiver, channels, owns>>
    BY <2>1, <2>2 DEF Aside
  <2> QED BY <2>3, <2>4, <2>5, StaysLeft
<1>2. CASE StartCancelled
  <2>1. \A t \in Tasks : pc'[t] = IF t = "start" THEN "cancelled" ELSE pc[t]
    BY <1>2 DEF StartCancelled, LifeInv
  <2>2. UNCHANGED <<set, alive, told, receiver, channels, owns>>
    BY <1>2 DEF StartCancelled, attributes, resources
  <2>3. pc["start"] \in Starting \cup {"gate"}
    BY <1>2 DEF StartCancelled
  <2>4. \A t \in Cleaners \cup {"monitor"} :
          pc'[t] = pc[t] \/ (t = "start" /\ pc'[t] = "cancelled")
    BY <2>1, TasksApart
  <2> QED BY <2>2, <2>3, <2>4, StaysLeft
<1> QED BY <1>1, <1>2

LEMMA MonitorLeft ==
  ASSUME LifeInv, LeftInv, MonitorStep
  PROVE  LeftInv'
<1>1. /\ UNCHANGED <<set, receiver>> /\ (told' = told \/ told' = told \cup {"call_end"})
      /\ \/ alive' = alive
         \/ alive' = alive \ {"ctpp"} /\ pc' = [pc EXCEPT !["monitor"] = "done"]
      /\ \A t \in Tasks : t # "monitor" => pc'[t] = pc[t]
      /\ pc["monitor"] \in {"read", "lock"} \cup Renewing
  BY DEF MonitorStep, MonitorReads, MonitorLeaves, MonitorLocks, MonitorRecalls, MonitorRelinks,
     MonitorRenewed, MonitorGivesUp, Monitor, UnchangedByMonitor, Renewing, LifeInv
<1>2. "ctpp" \in alive /\ set # {}
  BY <1>1 DEF LeftInv, TasksKnown
<1>3. \A k \in Cleaners : pc'[k] = pc[k]
  BY <1>1, TasksApart
<1>4. CleanedUp' => CleanedUp
  BY <1>1, <1>3 DEF CleanedUp, Cleaners
<1>5. \A k \in Cleaners : Passed(k)'
  BY <1>1, <1>3 DEF LeftInv, Passed
<1>6. TasksKnown'
  <2>1. Timer \in Cleaners /\ (alive' # alive => pc'["monitor"] = "done")
    BY <1>1, TasksApart DEF LifeInv, Cleaners
  <2> QED BY <1>1, <1>2, <1>3, <2>1 DEF LeftInv, TasksKnown, Cleans, Renewing
<1>7. ReceiverKnown'
  BY <1>1, <1>3 DEF LeftInv, ReceiverKnown
<1> QED BY <1>1, <1>2, <1>4, <1>5, <1>6, <1>7 DEF LeftInv

\* How far a cleanup is before a stretch: at its beginning, or behind its i-th await.
Reached(k, i) == IF i = 0 THEN pc[k] \notin Awaits ELSE pc[k] = Waits[i]

\* What a stretch does to the receiver.
ReceiverFollows(k, i) == IF i = 4 THEN receiver' = "stopped" ELSE ReceiverStops(k)

LEMMA CleanupEndsLeft ==
  ASSUME LifeInv, LeftInv, NEW k \in Cleaners, NEW i \in 0 .. 4, Reached(k, i),
         \A j \in i + 1 .. 4 : ~Present(j),
         set' = set \ {Waits[j] : j \in i + 1 .. 4}, CleanupEnds(k), ReceiverFollows(k, i),
         owns' = owns
  PROVE  LeftInv'
<1>1. \A j \in 1 .. i : Waits[j] \notin set
  BY DEF LeftInv, Passed, Reached
<1>2. \A j \in 1 .. 4 : ~Present(j)
  <2>1. \A j \in 1 .. 4 : j \in 1 .. i \/ j \in i + 1 .. 4
    OBVIOUS
  <2> QED BY <1>1, <2>1 DEF Present
<1>3. \A w \in Awaits : \E j \in 1 .. 4 : w = Waits[j]
  BY AwaitsOfCleanup DEF Awaits
<1>4. set' = {}
  <2> SUFFICES ASSUME NEW w \in set' PROVE FALSE
    OBVIOUS
  <2>1. w \in set /\ w \in Awaits
    BY DEF LeftInv
  <2>2. PICK j \in 1 .. 4 : w = Waits[j]
    BY <1>3, <2>1
  <2>3. j \in 1 .. i \/ j \in i + 1 .. 4
    OBVIOUS
  <2> QED BY <1>1, <2>1, <2>2, <2>3
<1>5. "tcp" \notin alive /\ "ctpp" \notin alive /\ "receiver" \notin set
  BY <1>2, AwaitsOfCleanup DEF Present, LeftInv, TasksKnown
<1>6. /\ channels' \subseteq Shared' /\ pc'[k] \in {"failed", "done"}
      /\ \A t \in Tasks \ {k} : pc'[t] = pc[t]
      /\ IF k = Timer THEN alive' = alive \ {"timer"} ELSE alive' = alive
  BY TasksApart DEF CleanupEnds, LifeInv, Shared
<1>7. \A c \in Cleaners : Passed(c)'
  BY <1>4 DEF Passed
<1>8. TasksKnown'
  <2>1. pc["monitor"] \notin {"read", "lock"} \cup Renewing
    BY <1>5 DEF LeftInv, TasksKnown
  <2>2. pc'["monitor"] = pc["monitor"]
    BY <1>6, TasksApart
  <2>3. "timer" \in alive /\ "timer" \in set => FALSE
    BY <1>2, AwaitsOfCleanup DEF Present
  <2>4. "timer" \in alive' => Cleans(Timer)'
    <3>1. Timer \in Tasks
      BY TasksApart
    <3> QED BY <1>6, <2>3, <3>1 DEF LeftInv, TasksKnown, Cleans
  <2> QED BY <1>5, <1>6, <2>1, <2>2, <2>4 DEF TasksKnown
<1>9. receiver' \in {"none", "stopping", "stopped"} /\ ReceiverKnown'
  <2>1. CASE i = 4
    BY <2>1 DEF ReceiverFollows, ReceiverKnown
  <2>2. CASE i # 4
    <3>1. receiver' = receiver /\ receiver # "up"
      BY <1>5, <1>6, <2>2 DEF ReceiverFollows, ReceiverStops, LeftInv, ReceiverKnown
    <3>2. pc[k] # "receiver"
      BY <2>2, AwaitsOfCleanup DEF Reached, Awaits
    <3> QED BY <1>6, <3>1, <3>2, TasksApart DEF LeftInv, ReceiverKnown
  <2> QED BY <2>1, <2>2
<1>10. alive' \subseteq {"timer", "tcp", "ctpp"}
  BY <1>6 DEF LeftInv
<1> QED BY <1>4, <1>6, <1>7, <1>8, <1>9, <1>10 DEF LeftInv

LEMMA CancelLeft ==
  ASSUME LifeInv, LeftInv, NEW k \in Cleaners, NEW i \in 0 .. 4, Reached(k, i),
         NEW n \in i + 1 .. 4, Present(n), \A j \in i + 1 .. 4 : Present(j) => n <= j,
         set' = set \ {Waits[j] : j \in i + 1 .. n}, Cancel(k, n), told' = told,
         channels' = channels, ReceiverFollows(k, i)
  PROVE  LeftInv'
<1> DEFINE victim == CASE Waits[n] = "timer" -> {Timer} \ {k}
                       [] Waits[n] = "ctpp" -> {"monitor"}
                       [] OTHER -> {}
<1>1. /\ pc' = [t \in Tasks |-> IF t = k THEN Waits[n]
                              ELSE IF t \in victim THEN "cancelled" ELSE pc[t]]
      /\ alive' = IF Waits[n] = "timer" /\ k = Timer THEN alive ELSE alive \ {Waits[n]}
  BY DEF Cancel
<1>2. /\ n \in 1 .. 4 /\ Waits[n] \in set /\ set' \subseteq set
      /\ \A j \in 1 .. n : Waits[j] \notin set'
  <2>1. \A j \in 1 .. n : j \in 1 .. i \/ j \in i + 1 .. n
    OBVIOUS
  <2>2. \A j \in 1 .. i : Waits[j] \notin set
    BY DEF LeftInv, Passed, Reached
  <2> QED BY <2>1, <2>2 DEF Present
<1>3. /\ victim \subseteq {"monitor", Timer} \ {k}
      /\ Timer \in victim <=> Waits[n] = "timer" /\ k # Timer
      /\ "monitor" \in victim <=> Waits[n] = "ctpp"
  BY TasksApart DEF Timer
<1> HIDE DEF victim
<1>4. /\ pc'[k] = Waits[n]
      /\ \A t \in Tasks \ {k, "monitor", Timer} : pc'[t] = pc[t]
      /\ pc'["monitor"] = IF Waits[n] = "ctpp" THEN "cancelled" ELSE pc["monitor"]
      /\ k # Timer => pc'[Timer] = IF Waits[n] = "timer" THEN "cancelled" ELSE pc[Timer]
  BY <1>1, <1>3, TasksApart
<1>5. \A j, m \in 1 .. 4 : Waits[j] = Waits[m] => j = m
  BY AwaitsOfCleanup
<1>6. \A c \in Cleaners : Passed(c)'
  <2>1. Passed(k)'
    BY <1>2, <1>4, <1>5 DEF Passed
  <2>2. \A c \in Cleaners \ {k} : pc'[c] \in {pc[c], "cancelled"}
    BY <1>4, TasksApart
  <2>3. \A j \in 1 .. 4 : Waits[j] # "cancelled"
    BY AwaitsOfCleanup
  <2> QED BY <1>2, <2>1, <2>2, <2>3 DEF LeftInv, Passed
<1>7. \A j \in 1 .. 4 : Waits[j] \in set /\ Waits[j] \notin set' => ~Present(j) \/ j = n
  <2> SUFFICES ASSUME NEW j \in 1 .. 4, Waits[j] \in set, Waits[j] \notin set', Present(j)
               PROVE  j = n
    OBVIOUS
  <2>1. PICK m \in i + 1 .. n : Waits[j] = Waits[m]
    OBVIOUS
  <2>2. j = m
    BY <1>5, <2>1
  <2> QED BY <2>1, <2>2
<1>8. \A j \in {2, 3} : Waits[j] \in alive' => Waits[j] \in set'
  <2> SUFFICES ASSUME NEW j \in {2, 3}, Waits[j] \in alive'
               PROVE  Waits[j] \in set'
    OBVIOUS
  <2>1. Waits[j] \in alive /\ Waits[j] \in set
    BY <1>1, AwaitsOfCleanup DEF LeftInv, TasksKnown
  <2>2. Present(j)
    BY <2>1 DEF Present
  <2>3. j # n
    BY <1>1, AwaitsOfCleanup
  <2> QED BY <1>7, <2>1, <2>2, <2>3
<1>9. "timer" \in alive' => "timer" \in set' \/ Cleans(Timer)'
  <2> SUFFICES ASSUME "timer" \in alive', "timer" \notin set' PROVE pc'[Timer] \in Awaits
    BY DEF Cleans
  <2>1. "timer" \in alive
    BY <1>1
  <2>2. CASE k = Timer
    BY <1>4, <2>2, AwaitsOfCleanup, <1>2 DEF Awaits
  <2>3. CASE k # Timer /\ "timer" \in set
    <3>1. Present(1) /\ Waits[1] = "timer"
      BY <2>1, <2>3, AwaitsOfCleanup DEF Present
    <3>2. n = 1
      BY <1>7, <2>3, <3>1
    <3> QED BY <1>1, <2>3, <3>1, <3>2
  <2>4. CASE k # Timer /\ "timer" \notin set
    BY <1>2, <1>4, <2>1, <2>4 DEF LeftInv, TasksKnown, Cleans
  <2> QED BY <2>2, <2>3, <2>4
<1>10. TasksKnown'
  <2>1. pc'["monitor"] \in {"read", "lock"} \cup Renewing => "ctpp" \in alive'
    <3>1. pc'["monitor"] \in {"read", "lock"} \cup Renewing =>
            Waits[n] # "ctpp" /\ pc["monitor"] \in {"read", "lock"} \cup Renewing
      BY <1>4 DEF Renewing
    <3> QED BY <1>1, <3>1 DEF LeftInv, TasksKnown
  <2> QED BY <1>8, <1>9, <2>1, AwaitsOfCleanup DEF TasksKnown
<1>11. i # 4
  OBVIOUS
<1>12. receiver' \in {"none", "up", "stopping", "stopped"} /\ ReceiverKnown'
  <2>1. CASE Waits[n] = "receiver"
    BY <1>4, <1>11, <2>1 DEF ReceiverFollows, ReceiverStops, ReceiverKnown
  <2>2. CASE Waits[n] # "receiver"
    <3>1. receiver' = receiver
      BY <1>4, <1>11, <2>2 DEF ReceiverFollows, ReceiverStops
    <3>2. receiver = "up" => "receiver" \in set'
      <4>1. "receiver" \in set => Present(4) /\ Waits[4] = "receiver"
        BY AwaitsOfCleanup DEF Present
      <4>2. n # 4
        BY <2>2, AwaitsOfCleanup
      <4> QED BY <1>7, <4>1, <4>2 DEF LeftInv, ReceiverKnown
    <3>3. receiver = "stopping" => \E c \in Cleaners : pc'[c] = "receiver"
      <4> SUFFICES ASSUME receiver = "stopping" PROVE \E c \in Cleaners : pc'[c] = "receiver"
        OBVIOUS
      <4>1. PICK c \in Cleaners : pc[c] = "receiver"
        BY DEF LeftInv, ReceiverKnown
      <4>2. c # k
        BY <1>11, <4>1, AwaitsOfCleanup DEF Reached, Awaits
      <4>3. Waits[n] = "timer" => pc[Timer] = "armed"
        BY <1>2 DEF LifeInv, CleanupOrder
      <4> QED BY <1>4, <4>1, <4>2, <4>3, TasksApart
    <3> QED BY <3>1, <3>2, <3>3 DEF LeftInv, ReceiverKnown
  <2> QED BY <2>1, <2>2
<1>13. ~CleanedUp'
  <2>1. ~CleanedUp
    BY <1>2 DEF LeftInv
  <2>2. pc'[k] \notin {"failed", "done"}
    BY <1>2, <1>4, AwaitsOfCleanup
  <2>3. \A c \in Cleaners \ {k} : pc'[c] \in {pc[c], "cancelled"}
    BY <1>4, TasksApart
  <2> QED BY <2>1, <2>2, <2>3 DEF CleanedUp, Cleaners
<1>14. set' \subseteq Awaits /\ alive' \subseteq {"timer", "tcp", "ctpp"}
  BY <1>1, <1>2 DEF LeftInv
<1> QED BY <1>6, <1>10, <1>12, <1>13, <1>14 DEF LeftInv

LEMMA CleanupLeft ==
  ASSUME LifeInv, LeftInv, Cleanup
  PROVE  LeftInv'
<1>1. ASSUME NEW k \in Cleaners, NEW i \in 0 .. 4, Reached(k, i), CleanupFrom(k, i),
             ReceiverFollows(k, i), owns' = owns
      PROVE  LeftInv'
  <2>1. CASE /\ \A j \in i + 1 .. 4 : ~Present(j)
             /\ set' = set \ {Waits[j] : j \in i + 1 .. 4} /\ CleanupEnds(k)
    BY <1>1, <2>1, CleanupEndsLeft
  <2>2. ASSUME NEW n \in i + 1 .. 4, Present(n), \A j \in i + 1 .. 4 : Present(j) => n <= j,
               set' = set \ {Waits[j] : j \in i + 1 .. n}, Cancel(k, n), told' = told
        PROVE  LeftInv'
    <3>1. channels' = channels
      <4>1. {j \in i + 1 .. Len(Waits) : Present(j)} # {}
        BY <2>2, AwaitsOfCleanup
      <4> QED BY <1>1, <4>1 DEF CleanupFrom
    <3> QED BY <1>1, <2>2, <3>1, CancelLeft
  <2> QED BY <1>1, <2>1, <2>2, CleanupEffect
<1>2. ASSUME NEW k \in Cleaners, CleanupBegins(k), pc[k] \notin Awaits
      PROVE  LeftInv'
  <2>1. /\ CleanupFrom(k, 0) /\ Reached(k, 0) /\ ReceiverFollows(k, 0) /\ 0 \in 0 .. 4
        /\ owns' = owns
    BY <1>2 DEF CleanupBegins, Reached, ReceiverFollows
  <2> QED BY <1>1, <2>1
<1>3. ASSUME NEW k \in Cleaners, CleanupGoesOn(k)
      PROVE  LeftInv'
  <2>1. PICK i \in 1 .. 4 :
          /\ pc[k] = Waits[i] /\ CleanupFrom(k, i) /\ owns' = owns
          /\ IF Waits[i] = "receiver" THEN receiver' = "stopped" ELSE ReceiverStops(k)
    BY <1>3, AwaitsOfCleanup DEF CleanupGoesOn
  <2>2. i \in 0 .. 4 /\ i # 0 /\ (Waits[i] = "receiver" <=> i = 4)
    BY AwaitsOfCleanup
  <2>3. Reached(k, i) /\ ReceiverFollows(k, i)
    BY <2>1, <2>2 DEF Reached, ReceiverFollows
  <2> QED BY <1>1, <2>1, <2>2, <2>3
<1>4. CASE StartFails
  BY <1>2, <1>4 DEF StartFails, Cleaners, Starting, Awaits
<1>5. CASE TimerFires
  BY <1>2, <1>5 DEF TimerFires, Cleaners, Awaits
<1>6. CASE \E s \in Stops : StopBegins(s)
  BY <1>2, <1>6 DEF StopBegins, Cleaners, Awaits
<1>7. CASE \E k \in Cleaners : CleanupGoesOn(k)
  BY <1>3, <1>7
<1> QED BY <1>4, <1>5, <1>6, <1>7 DEF Cleanup

LEMMA StepLeft ==
  ASSUME LifeInv, LeftInv, [Next]_vars
  PROVE  LeftInv'
<1>1. LifeInv'
  BY SessionLives DEF LifeStep
<1> QED BY <1>1, StepKinds, BesideLeft, CleanupLeft, MonitorLeft, StagesLeft, LiveLeft, TimerLeft

\* Whose CTPP it is does not change, and a session that does not own it never registers it.
LEMMA NamesStep ==
  ASSUME [Next]_vars
  PROVE  owns' = owns /\ (owns \/ "CTPP" \notin channels => owns' \/ "CTPP" \notin channels')
<1>1. CASE Beside
  <2>1. channels' = channels /\ owns' = owns
    BY <1>1, BesideNames
  <2> QED BY <2>1
<1>2. CASE Cleanup
  <2>1. PICK k : \E i \in 0 .. 4 : CleanupFrom(k, i) /\ owns' = owns
    BY <1>2, AwaitsOfCleanup DEF Cleanup, StartFails, TimerFires, StopBegins, CleanupBegins,
       CleanupGoesOn
  <2>2. channels' \subseteq channels
    BY <2>1 DEF CleanupFrom, CleanupEnds
  <2> QED BY <2>1, <2>2
<1>3. CASE MonitorStep
  BY <1>3 DEF MonitorStep, MonitorReads, MonitorLeaves, MonitorLocks, MonitorRecalls, MonitorRelinks,
     MonitorRenewed, MonitorGivesUp, UnchangedByMonitor
<1>4. CASE StartCancelled
  BY <1>4 DEF StartCancelled, attributes, resources
<1>5. CASE \/ StartBegins \/ InboundBegins \/ StartCalls \/ StartControls \/ StartExchanges
           \/ StartLinks
  BY <1>5 DEF StartBegins, InboundBegins, StartCalls, StartControls, StartExchanges, StartLinks,
     UnchangedByStart
<1>6. CASE \/ \E n \in Firsts \cup {1} : GoesLive(n)
           \/ \E next \in {"idle", "lock"} : TimerStarts(next)
  BY <1>6 DEF GoesLive, TimerStarts
<1> QED BY <1>1, <1>2, <1>3, <1>4, <1>5, <1>6, StepKinds

\* Once nobody cleans up any more nothing of the session is left, no task, media or attribute,
\* and of its channel names at most the CSPB it opened beside a CTPP that it did not own:
\* whichever cleanups overlapped, each clears an attribute before it waits for what is behind
\* it, and nothing that has been cleared comes back (_cleanup).
THEOREM NothingStays == Spec => []NothingLeft
<1>1. Init => LeftInv
  <2> SUFFICES ASSUME Init PROVE LeftInv
    OBVIOUS
  <2>1. \A t \in Tasks : pc[t] = "idle"
    BY DEF Init
  <2>2. \A k \in Cleaners : Passed(k)
    BY DEF Init, Passed
  <2>3. TasksKnown /\ ReceiverKnown
    BY <2>1, TasksApart DEF Init, TasksKnown, ReceiverKnown, Renewing
  <2>4. ~CleanedUp
    BY <2>1, TasksApart DEF Init, CleanedUp, Cleaners
  <2> QED BY <2>2, <2>3, <2>4 DEF Init, LeftInv
<1>2. SessionInv /\ LeftInv /\ [Next]_vars => LeftInv'
  BY StepLeft DEF SessionInv
<1>3. SessionInv /\ LeftInv /\ (owns \/ "CTPP" \notin channels) => NothingLeft
  <2> SUFFICES ASSUME SessionInv, LeftInv, owns \/ "CTPP" \notin channels, CleanedUp, ~Cleaning
               PROVE  /\ set = {} /\ alive = {} /\ pc["monitor"] # "read"
                      /\ channels \subseteq (IF owns THEN {} ELSE {"CSPB"})
                      /\ receiver \in {"none", "stopped"} /\ ~audio
    BY DEF NothingLeft
  <2>1. \A k \in Cleaners : ~Cleans(k)
    BY AwaitsOfCleanup DEF Cleaning, Cleans
  <2>2. set = {} /\ channels \subseteq (IF owns THEN {} ELSE {"CSPB"})
    BY DEF LeftInv, Shared
  <2>3. Timer \in Cleaners
    BY DEF Cleaners
  <2>4. alive = {} /\ pc["monitor"] # "read"
    BY <2>1, <2>2, <2>3 DEF LeftInv, TasksKnown
  <2>5. receiver \in {"none", "stopped"}
    BY <2>1, <2>2 DEF LeftInv, ReceiverKnown, Cleans, Awaits
  <2>6. ~audio
    BY <2>5 DEF SessionInv, AudioAnswered
  <2> QED BY <2>2, <2>4, <2>5, <2>6
<1>4. Init => owns \/ "CTPP" \notin channels
  BY DEF Init
<1>5. (owns \/ "CTPP" \notin channels) /\ [Next]_vars => (owns \/ "CTPP" \notin channels)'
  BY NamesStep
<1> QED BY <1>1, <1>2, <1>3, <1>4, <1>5, Invariance, PTL DEF Spec
-----------------------------------------------------------------------------
(* The shared counter *)

\* The presses of one session are less than half the range of the counter.
FewPresses == IsFiniteSet(Doors) /\ Cardinality(Doors) + 2 <= Top \div 2

Holders == Answers \cup Senders \cup {"monitor"}
Critical == {"between", "sending"} \cup Renewing

\* Who is in the middle of its messages holds the lock.
LockOrder == \A t \in Holders : pc[t] \in Critical => lock = t

\* Nothing is sent before start() has returned.
SendersWait == pc["start"] # "done" => \A t \in Senders : pc[t] = "idle"

CounterTypes == counter \in Counter /\ heard \in Counter /\ heard.high < Top

\* The messages that could not be sent, each of which has moved the counter.
Lost == {t \in Senders : pc[t] = "failed"}

\* The device has heard of every count but those of the messages lost past the end of
\* the range; during a renewal it is a call ahead.
InStep ==
  active =>
    IF pc["monitor"] \in {"recall", "relink"}
    THEN heard.call = counter.call + 1
    ELSE /\ heard.call = counter.call
         /\ linked => /\ counter.high \in heard.high .. heard.high + Cardinality(Lost)
                      /\ counter.high # heard.high => counter.high >= Top

CounterInv == LockOrder /\ SendersWait /\ CounterTypes /\ InStep

\* What a step may do to the counter the device hears.
Follows ==
  active /\ counter' # counter /\ counter'.call = counter.call /\ heard' # heard
    => /\ heard'.call = heard.call
       /\ (heard'.high - heard.high) % Top \in 1 .. Top \div 2

CounterStep == CounterInv' /\ Follows

LEMMA HoldersApart ==
  /\ Holders \subseteq Tasks /\ Holders \cap Cleaners = {} /\ Timer \notin Holders
  /\ "monitor" \notin Answers \cup Senders
BY TasksApart, ConstantsAssumption DEF Holders, Cleaners

\* A task that moves takes the lock, keeps it or releases it.
Turns(t, to) ==
  \/ lock' = lock /\ (to \in Critical => pc[t] \in Critical)
  \/ lock = None /\ lock' = t
  \/ lock' = None /\ to \notin Critical /\ (lock = None \/ pc[t] \in Critical)

LEMMA TurnsHold ==
  ASSUME LifeInv, LockOrder, NEW t \in Holders, NEW to, pc' = [pc EXCEPT ![t] = to], Turns(t, to)
  PROVE  LockOrder'
<1>1. \A u \in Holders : pc'[u] = IF u = t THEN to ELSE pc[u]
  BY HoldersApart DEF LifeInv
<1>2. None \notin Holders
  BY HoldersApart, ConstantsAssumption
<1> QED BY <1>1, <1>2 DEF LockOrder, Turns

\* The others move nobody into its messages.
LEMMA OthersHold ==
  ASSUME LockOrder, \A t \in Holders : pc'[t] = pc[t] \/ pc'[t] \notin Critical,
         \/ lock' = lock
         \/ \A t \in Holders : lock = t => pc'[t] \notin Critical
  PROVE  LockOrder'
BY DEF LockOrder

LEMMA LostMany ==
  ASSUME FewPresses
  PROVE  /\ IsFiniteSet(Lost) /\ Cardinality(Lost) \in Nat
         /\ IsFiniteSet(Lost') /\ Cardinality(Lost') \in Nat
         /\ Cardinality(Lost) + 1 <= Top \div 2
<1>1. /\ IsFiniteSet(Senders) /\ Cardinality(Senders) \in Nat
      /\ Cardinality(Senders) <= Cardinality(Doors) + 1
  <2>1. Cardinality(Doors) \in Nat
    BY FS_CardinalityType DEF FewPresses
  <2> QED BY <2>1, FS_AddElement DEF Senders, FewPresses
<1>2. /\ IsFiniteSet(Lost) /\ Cardinality(Lost) <= Cardinality(Senders)
      /\ IsFiniteSet(Lost') /\ Cardinality(Lost') <= Cardinality(Senders)
  BY <1>1, FS_Subset DEF Lost
<1>3. Cardinality(Lost) \in Nat /\ Cardinality(Lost') \in Nat /\ Cardinality(Doors) \in Nat
  BY <1>2, FS_CardinalityType DEF FewPresses
<1> QED BY <1>1, <1>2, <1>3, ConstantsAssumption DEF FewPresses

\* A step that sends nothing.
LEMMA QuietInStep ==
  ASSUME CounterInv, UNCHANGED <<counter, heard>>, active' => active, linked' => linked,
         Lost' = Lost, active' => pc'["monitor"] = pc["monitor"]
                                  \/ {pc["monitor"], pc'["monitor"]} \cap {"recall", "relink"} = {}
                                  \/ {pc["monitor"], pc'["monitor"]} \subseteq {"recall", "relink"}
  PROVE  CounterTypes' /\ InStep' /\ Follows
<1>1. CounterTypes' /\ Follows
  BY DEF CounterInv, CounterTypes, Follows
<1>2. Cardinality(Lost)' = Cardinality(Lost)
  OBVIOUS
<1>3. InStep'
  BY <1>2 DEF CounterInv, InStep
<1> QED BY <1>1, <1>3

\* What is moved by less than n is that far ahead modulo n.
LEMMA AheadModulo ==
  ASSUME NEW n \in Nat \ {0}, NEW x \in 0 .. n - 1, NEW d \in 0 .. n - 1
  PROVE  (((x + d) % n) - x) % n = d
<1> DEFINE a == (x + d) % n
<1>1. a \in 0 .. n - 1
  OBVIOUS
<1>2. a \in {x + d, x + d - n}
  OBVIOUS
<1> HIDE DEF a
<1>3. (a - x) % n = IF a - x < 0 THEN a - x + n ELSE a - x
  BY <1>1
<1>4. (a - x) % n = d
  BY <1>1, <1>2, <1>3
<1> QED BY <1>4 DEF a

\* The masked counter of an answer.
LEMMA MaskedSend ==
  ASSUME FewPresses, CounterInv, pc["monitor"] \notin Renewing,
         counter' = [counter EXCEPT !.high = (@ + 1) % Top], Hears,
         UNCHANGED <<active, linked>>, Lost' = Lost, pc'["monitor"] = pc["monitor"]
  PROVE  CounterTypes' /\ InStep' /\ Follows
<1> DEFINE g == counter.high - heard.high
           n == (counter.high + 1) % Top
<1>0. Top \in Nat \ {0} /\ Top > 1 /\ pc["monitor"] \notin {"recall", "relink"}
  BY ConstantsAssumption DEF Renewing
<1>1. counter \in Counter /\ heard \in Counter /\ heard.high < Top
      /\ counter.high \in Nat /\ heard.high \in Nat
  BY DEF CounterInv, CounterTypes, Counter
<1>2. n \in 0 .. Top - 1
  BY <1>0, <1>1
<1>3. counter'.high = n /\ counter'.call = counter.call /\ counter' \in Counter
  BY <1>1, <1>2 DEF Counter
<1>4. heard' = IF linked THEN counter' ELSE heard
  BY <1>0, <1>1, <1>2, <1>3 DEF Hears, Reaches
<1>5. CounterTypes'
  BY <1>0, <1>1, <1>2, <1>3, <1>4 DEF CounterTypes
<1>6. active => heard.call = counter.call
  BY <1>0 DEF CounterInv, InStep
<1>7. Cardinality(Lost) \in Nat /\ Cardinality(Lost)' = Cardinality(Lost)
      /\ Cardinality(Lost) + 1 <= Top \div 2
  BY LostMany
<1>8. InStep'
  <2> SUFFICES ASSUME active' PROVE
         /\ heard'.call = counter'.call
         /\ linked' => /\ counter'.high \in heard'.high .. heard'.high + Cardinality(Lost)'
                       /\ counter'.high # heard'.high => counter'.high >= Top
    BY <1>0 DEF InStep
  <2>1. heard'.call = counter'.call
    BY <1>3, <1>4, <1>6
  <2>2. linked' => heard'.high = counter'.high
    BY <1>4
  <2>3. counter'.high \in Nat
    BY <1>0, <1>2, <1>3
  <2> QED BY <1>7, <2>1, <2>2, <2>3
<1>9. Follows
  <2> SUFFICES ASSUME active, linked
               PROVE  heard'.call = heard.call
                      /\ (heard'.high - heard.high) % Top \in 1 .. Top \div 2
    BY <1>4 DEF Follows
  <2>1. g \in 0 .. Cardinality(Lost)
    BY <1>0, <1>1, <1>7 DEF CounterInv, InStep
  <2>2. g + 1 \in 1 .. Top \div 2 /\ Top \div 2 \in 0 .. Top - 1
    BY <1>0, <1>7, <2>1
  <2>3. counter.high + 1 = heard.high + (g + 1)
    BY <1>1
  <2>4. (((heard.high + (g + 1)) % Top) - heard.high) % Top = g + 1
    <3>1. g + 1 \in 0 .. Top - 1 /\ heard.high \in 0 .. Top - 1
      BY <1>0, <1>1, <2>2
    <3> HIDE DEF g
    <3> QED BY <1>0, <3>1, AheadModulo
  <2>5. heard'.high = (heard.high + (g + 1)) % Top
    BY <1>3, <1>4, <2>3
  <2> QED BY <1>3, <1>4, <1>6, <2>2, <2>4, <2>5
<1> QED BY <1>5, <1>8, <1>9

\* The count of a door press or of the answer sequence.
LEMMA PlainSend ==
  ASSUME FewPresses, LifeInv, CounterInv, pc["monitor"] \notin Renewing, NEW t \in Senders,
         pc[t] # "failed", SendsNext(t), UNCHANGED <<active, linked>>
  PROVE  CounterTypes' /\ InStep' /\ Follows
<1>0. Top \in Nat \ {0} /\ Top > 1 /\ pc["monitor"] \notin {"recall", "relink"}
  BY ConstantsAssumption DEF Renewing
<1>1. counter \in Counter /\ heard \in Counter /\ heard.high < Top
      /\ counter.high \in Nat /\ heard.high \in Nat
  BY DEF CounterInv, CounterTypes, Counter
<1>2. /\ counter'.high = counter.high + 1 /\ counter'.call = counter.call /\ counter' \in Counter
  BY <1>1 DEF SendsNext, Counter
<1>3. heard' = IF linked /\ counter.high + 1 < Top THEN counter' ELSE heard
  BY <1>2 DEF SendsNext, Hears, Reaches
<1>4. /\ pc'["monitor"] = pc["monitor"]
      /\ Lost' = IF linked /\ counter.high + 1 < Top THEN Lost ELSE Lost \cup {t}
  BY <1>2, TasksApart, HoldersApart DEF SendsNext, Reaches, Lost, LifeInv
<1>5. CounterTypes'
  BY <1>1, <1>2, <1>3 DEF CounterTypes
<1>6. active => heard.call = counter.call
  BY <1>0 DEF CounterInv, InStep
<1>7. /\ Cardinality(Lost) \in Nat /\ Cardinality(Lost') \in Nat
      /\ Lost' = Lost \cup {t} => Cardinality(Lost') = Cardinality(Lost) + 1
  <2>1. t \notin Lost
    BY DEF Lost
  <2> QED BY <2>1, LostMany, FS_AddElement
<1>8. active /\ linked => /\ counter.high \in heard.high .. heard.high + Cardinality(Lost)
                          /\ counter.high # heard.high => counter.high >= Top
  BY <1>0 DEF CounterInv, InStep
<1>9. Cardinality(Lost)' = Cardinality(Lost')
  OBVIOUS
<1>10. InStep'
  <2> SUFFICES ASSUME active' PROVE
         /\ heard'.call = counter'.call
         /\ linked' => /\ counter'.high \in heard'.high .. heard'.high + Cardinality(Lost')
                       /\ counter'.high # heard'.high => counter'.high >= Top
    BY <1>0, <1>4, <1>9 DEF InStep
  <2>1. heard'.call = counter'.call
    BY <1>2, <1>3, <1>6
  <2>2. CASE linked /\ counter.high + 1 < Top
    BY <1>1, <1>2, <1>3, <1>7, <2>1, <2>2
  <2>3. CASE linked /\ ~(counter.high + 1 < Top)
    BY <1>0, <1>1, <1>2, <1>3, <1>4, <1>7, <1>8, <2>1, <2>3
  <2> QED BY <2>1, <2>2, <2>3
<1>11. Follows
  <2> SUFFICES ASSUME active, linked, counter.high + 1 < Top
               PROVE  heard'.call = heard.call
                      /\ (heard'.high - heard.high) % Top \in 1 .. Top \div 2
    BY <1>3 DEF Follows
  <2>1. heard'.high = heard.high + 1
    BY <1>0, <1>1, <1>2, <1>3, <1>8
  <2>2. (heard'.high - heard.high) % Top = 1
    <3>1. heard'.high - heard.high = 1
      BY <1>1, <2>1
    <3>2. 1 % Top = 1
      BY <1>0
    <3> QED BY <3>1, <3>2
  <2>3. 1 \in 1 .. Top \div 2
    BY <1>0
  <2> QED BY <1>2, <1>3, <1>6, <2>2, <2>3
<1> QED BY <1>5, <1>10, <1>11

LEMMA AnswerCounts ==
  ASSUME FewPresses, LifeInv, CounterInv, NEW a \in Answers, AnswerPress(a) \/ AnswerStep(a)
  PROVE  CounterStep
<1>0. /\ a \in Holders /\ a # "monitor" /\ a \notin Senders /\ "start" # a
      /\ None \notin Holders /\ "monitor" \in Holders
  BY TasksApart, HoldersApart, ConstantsAssumption DEF Holders, Cleaners
<1>1. PICK to \in Places : pc' = [pc EXCEPT ![a] = to] /\ Turns(a, to)
  <2>1. CASE AnswerPress(a)
    BY <2>1 DEF AnswerPress, SendsPeer, Turns, Free, Critical, Renewing, Places
  <2>2. CASE AnswerLocks(a)
    BY <2>2 DEF AnswerLocks, Turns, Free, Critical, Renewing, Places
  <2>3. CASE AnswerAccepts(a)
    BY <2>3 DEF AnswerAccepts, Turns, Critical, Renewing, Places
  <2>4. CASE AnswerDrains(a)
    BY <2>4 DEF AnswerDrains, Loops, LeavesLoop, Finishes, Turns, Critical, Renewing, Places
  <2>5. CASE AnswerTakes(a)
    BY <2>5 DEF AnswerTakes, Loops, LeavesLoop, Finishes, Turns, Critical, Renewing, Places
  <2>6. CASE AnswerAcked(a) \/ AnswerTimesOut(a) \/ AnswerHasRtpc(a)
    BY <2>6 DEF AnswerAcked, AnswerTimesOut, AnswerHasRtpc, UnchangedByDrain, Loops, LeavesLoop,
       Finishes, Turns, Critical, Renewing, Places
  <2> QED BY <2>1, <2>2, <2>3, <2>4, <2>5, <2>6 DEF AnswerStep
<1>2. LockOrder'
  BY <1>0, <1>1, TurnsHold DEF CounterInv
<1>3. \A t \in Tasks \ {a} : pc'[t] = pc[t]
  BY <1>1 DEF LifeInv
<1>4. /\ pc'["start"] = pc["start"] /\ pc'["monitor"] = pc["monitor"]
      /\ \A t \in Senders : pc'[t] = pc[t]
  BY <1>0, <1>3, TasksApart
<1>5. SendersWait' /\ Lost' = Lost
  BY <1>4 DEF CounterInv, SendersWait, Lost
<1>6. UNCHANGED <<active, linked>>
  BY DEF AnswerPress, AnswerStep, AnswerLocks, AnswerAccepts, AnswerDrains, AnswerTakes,
     AnswerAcked, AnswerTimesOut, AnswerHasRtpc, UnchangedByDrain, UnchangedByAnswer
<1>7. \/ UNCHANGED <<counter, heard>>
      \/ /\ counter' = [counter EXCEPT !.high = (@ + 1) % Top] /\ Hears
         /\ lock = None \/ pc[a] = "between"
  BY DEF AnswerPress, SendsPeer, Free, AnswerStep, AnswerLocks, AnswerAccepts, AnswerDrains,
     AnswerTakes, AnswerAcked, AnswerTimesOut, AnswerHasRtpc, UnchangedByDrain
<1>8. CASE UNCHANGED <<counter, heard>>
  BY <1>2, <1>4, <1>5, <1>6, <1>8, QuietInStep DEF CounterStep, CounterInv
<1>9. CASE /\ counter' = [counter EXCEPT !.high = (@ + 1) % Top] /\ Hears
           /\ lock = None \/ pc[a] = "between"
  <2>1. pc["monitor"] \notin Renewing
    BY <1>0, <1>9 DEF CounterInv, LockOrder, Critical
  <2> QED BY <1>2, <1>4, <1>5, <1>6, <1>9, <2>1, MaskedSend DEF CounterStep, CounterInv
<1> QED BY <1>7, <1>8, <1>9

LEMMA SenderCounts ==
  ASSUME FewPresses, LifeInv, CounterInv, NEW t \in Senders,
         SenderStep(t) \/ (t \in Doors /\ DoorPress(t))
  PROVE  CounterStep
<1>0. /\ t \in Holders /\ t # "monitor" /\ "start" # t /\ None \notin Holders
      /\ "monitor" \in Holders
  BY TasksApart, HoldersApart, ConstantsAssumption DEF Holders, Cleaners
<1>1. PICK to \in Places : pc' = [pc EXCEPT ![t] = to] /\ Turns(t, to)
  <2>1. CASE DoorPress(t)
    BY <2>1 DEF DoorPress, SendsNext, Free, Turns, Critical, Renewing, Places
  <2>2. CASE SenderLocks(t)
    BY <2>2 DEF SenderLocks, SendsNext, Free, Turns, Critical, Renewing, Places
  <2>3. CASE SenderReturns(t)
    <3>1. pc' = [pc EXCEPT ![t] = "done"] /\ lock' = None /\ pc[t] = "sending"
      BY <2>3 DEF SenderReturns
    <3>2. "done" \in Places
      BY DEF Places
    <3>3. Turns(t, "done")
      BY <3>1 DEF Turns, Critical, Renewing
    <3> QED BY <3>1, <3>2, <3>3
  <2> QED BY <2>1, <2>2, <2>3 DEF SenderStep
<1>2. LockOrder'
  BY <1>0, <1>1, TurnsHold DEF CounterInv
<1>3. \A u \in Tasks \ {t} : pc'[u] = pc[u]
  BY <1>1 DEF LifeInv
<1>4. pc'["start"] = pc["start"] /\ pc'["monitor"] = pc["monitor"] /\ pc[t] # "failed"
  BY <1>0, <1>3, TasksApart
     DEF DoorPress, SenderStep, SenderLocks, SenderReturns, Cleaners
<1>5. SendersWait'
  <2>1. pc["start"] = "done"
    BY DEF DoorPress, SenderStep, SenderLocks, SenderReturns, CounterInv, SendersWait
  <2> QED BY <1>4, <2>1 DEF SendersWait
<1>6. UNCHANGED <<active, linked>>
  BY DEF DoorPress, SenderStep, SenderLocks, SenderReturns, UnchangedBySender
<1>7. \/ Free /\ SendsNext(t)
      \/ /\ UNCHANGED <<counter, heard>>
         /\ pc' = [pc EXCEPT ![t] = "lock"] \/ pc' = [pc EXCEPT ![t] = "done"]
  BY DEF DoorPress, SenderStep, SenderLocks, SenderReturns
<1>8. CASE /\ UNCHANGED <<counter, heard>>
           /\ pc' = [pc EXCEPT ![t] = "lock"] \/ pc' = [pc EXCEPT ![t] = "done"]
  <2>1. Lost' = Lost
    <3>1. pc'[t] # "failed" /\ \A u \in Senders \ {t} : pc'[u] = pc[u]
      BY <1>3, <1>8, TasksApart DEF LifeInv
    <3> QED BY <1>4, <3>1 DEF Lost
  <2> QED BY <1>2, <1>4, <1>5, <1>6, <1>8, <2>1, QuietInStep DEF CounterStep, CounterInv
<1>9. CASE Free /\ SendsNext(t)
  <2>1. pc["monitor"] \notin Renewing
    BY <1>0, <1>9 DEF CounterInv, LockOrder, Critical, Free
  <2> QED BY <1>2, <1>4, <1>5, <1>6, <1>9, <2>1, PlainSend DEF CounterStep, CounterInv
<1> QED BY <1>7, <1>8, <1>9

LEMMA DeviceCounts ==
  ASSUME CounterInv, DeviceSends \/ DeviceOpensRtpc \/ ConnectionDrops \/ UNCHANGED vars
  PROVE  CounterStep
<1>1. UNCHANGED <<active, counter, lock, pc, heard>> /\ (linked' => linked)
  BY DEF DeviceSends, DeviceOpensRtpc, ConnectionDrops, UnchangedByDevice, vars, attributes, device
<1>2. LockOrder' /\ SendersWait' /\ Lost' = Lost
  BY <1>1 DEF CounterInv, LockOrder, SendersWait, Lost
<1> QED BY <1>1, <1>2, QuietInStep DEF CounterStep, CounterInv

LEMMA MonitorCounts ==
  ASSUME FewPresses, LifeInv, CounterInv, MonitorStep
  PROVE  CounterStep
<1>0. /\ "monitor" \in Holders /\ "monitor" \in Tasks /\ "monitor" \notin Senders
      /\ "start" # "monitor" /\ None \notin Holders
  BY TasksApart, HoldersApart, ConstantsAssumption DEF Holders
<1>1. PICK to \in Places : pc' = [pc EXCEPT !["monitor"] = to] /\ Turns("monitor", to)
  <2>1. CASE MonitorReads
    <3>1. CASE UNCHANGED <<pc, lock>>
      <4>1. pc' = [pc EXCEPT !["monitor"] = "read"] /\ "read" \in Places
        BY <2>1, <3>1 DEF MonitorReads, LifeInv, Places
      <4> QED BY <3>1, <4>1 DEF Turns, Critical, Renewing
    <3>2. CASE /\ pc' = [pc EXCEPT !["monitor"] = IF Free THEN "reset" ELSE "lock"]
               /\ lock' = IF Free THEN "monitor" ELSE lock
      <4>1. CASE Free
        <5>1. pc' = [pc EXCEPT !["monitor"] = "reset"] /\ "reset" \in Places
          BY <3>2, <4>1 DEF Places, Renewing
        <5> QED BY <3>2, <4>1, <5>1 DEF Free, Turns
      <4>2. CASE ~Free
        <5>1. pc' = [pc EXCEPT !["monitor"] = "lock"] /\ "lock" \in Places
          BY <3>2, <4>2 DEF Places
        <5> QED BY <3>2, <4>2, <5>1 DEF Turns, Critical, Renewing
      <4> QED BY <4>1, <4>2
    <3> QED BY <2>1, <3>1, <3>2 DEF MonitorReads
  <2>2. CASE MonitorLeaves
    <3>1. pc' = [pc EXCEPT !["monitor"] = "done"] /\ lock' = lock
      BY <2>2 DEF MonitorLeaves, Monitor
    <3>2. "done" \in Places
      BY DEF Places
    <3>3. Turns("monitor", "done")
      BY <3>1 DEF Turns, Critical, Renewing
    <3> QED BY <3>1, <3>2, <3>3
  <2>3. CASE MonitorLocks
    BY <2>3 DEF MonitorLocks, Monitor, Turns, Free, Critical, Renewing, Places
  <2>4. CASE MonitorRecalls \/ MonitorRelinks
    BY <2>4 DEF MonitorRecalls, MonitorRelinks, Monitor, Turns, Critical, Renewing, Places
  <2>5. CASE MonitorRenewed \/ MonitorGivesUp
    BY <2>5 DEF MonitorRenewed, MonitorGivesUp, Monitor, Turns, Critical, Renewing, Places
  <2> QED BY <2>1, <2>2, <2>3, <2>4, <2>5 DEF MonitorStep
<1>2. LockOrder'
  BY <1>0, <1>1, TurnsHold DEF CounterInv
<1>3. \A t \in Tasks \ {"monitor"} : pc'[t] = pc[t]
  BY <1>1 DEF LifeInv
<1>4. pc'["start"] = pc["start"] /\ \A t \in Senders : pc'[t] = pc[t]
  BY <1>0, <1>3, TasksApart
<1>5. SendersWait' /\ Lost' = Lost
  BY <1>4 DEF CounterInv, SendersWait, Lost
<1>6. pc'["monitor"] = to
  BY <1>0, <1>1 DEF LifeInv
<1>7. linked' = linked
  BY DEF MonitorStep, MonitorReads, MonitorLeaves, MonitorLocks, MonitorRecalls, MonitorRelinks,
     MonitorRenewed, MonitorGivesUp, UnchangedByMonitor
<1>8. CASE MonitorReads \/ MonitorLeaves \/ MonitorLocks \/ MonitorRelinks \/ MonitorGivesUp
  <2>1. UNCHANGED <<counter, heard>> /\ (active' => active)
    BY <1>8 DEF MonitorReads, MonitorLeaves, MonitorLocks, MonitorRelinks, MonitorGivesUp
  <2>2. active' => pc'["monitor"] = pc["monitor"]
                   \/ {pc["monitor"], pc'["monitor"]} \cap {"recall", "relink"} = {}
                   \/ {pc["monitor"], pc'["monitor"]} \subseteq {"recall", "relink"}
    <3>1. \A p : pc' = [pc EXCEPT !["monitor"] = p] => pc'["monitor"] = p
      BY <1>0 DEF LifeInv
    <3>2. CASE MonitorReads
      BY <3>1, <3>2 DEF MonitorReads
    <3>3. CASE MonitorLeaves \/ MonitorLocks \/ MonitorRelinks
      BY <3>1, <3>3 DEF MonitorLeaves, MonitorLocks, MonitorRelinks, Monitor
    <3>4. CASE MonitorGivesUp
      BY <3>4 DEF MonitorGivesUp
    <3> QED BY <1>8, <3>2, <3>3, <3>4
  <2> QED BY <1>2, <1>5, <1>7, <2>1, <2>2, QuietInStep DEF CounterStep, CounterInv
<1>9. CASE MonitorRecalls
  <2>1. /\ pc["monitor"] = "reset" /\ pc'["monitor"] = "recall" /\ active' = active
        /\ counter' = counter /\ heard' = [call |-> heard.call + 1, high |-> 0]
    BY <1>0, <1>9 DEF MonitorRecalls, Monitor, LifeInv
  <2>2. CounterTypes'
    BY <2>1, ConstantsAssumption DEF CounterInv, CounterTypes, Counter
  <2>3. InStep' /\ Follows
    BY <2>1 DEF CounterInv, InStep, Follows
  <2> QED BY <1>2, <1>5, <2>2, <2>3 DEF CounterStep, CounterInv
<1>10. CASE MonitorRenewed
  <2>1. /\ pc["monitor"] = "relink" /\ pc'["monitor"] = "read" /\ active' = active
        /\ heard' = [heard EXCEPT !.high = 1] /\ counter' = heard'
    BY <1>0, <1>10 DEF MonitorRenewed, Monitor, LifeInv
  <2>2. /\ heard' \in Counter /\ heard'.high = 1 /\ heard'.call = heard.call
        /\ heard.call \in Nat /\ counter.call \in Nat
    BY <2>1 DEF CounterInv, CounterTypes, Counter
  <2>3. CounterTypes'
    BY <2>1, <2>2, ConstantsAssumption DEF CounterTypes
  <2>4. Follows
    <3>1. active => heard.call = counter.call + 1
      BY <2>1 DEF CounterInv, InStep
    <3> QED BY <2>1, <2>2, <3>1 DEF Follows
  <2>5. InStep'
    <3>1. Cardinality(Lost)' \in Nat
      BY LostMany
    <3> QED BY <2>1, <2>2, <3>1 DEF InStep
  <2> QED BY <1>2, <1>5, <2>3, <2>4, <2>5 DEF CounterStep, CounterInv
<1> QED BY <1>8, <1>9, <1>10 DEF MonitorStep

\* The start and the cleanups.
LEMMA AroundCounts ==
  ASSUME CounterInv, UNCHANGED <<counter, heard>>, active' => active, linked' = linked,
         active' => pc'["monitor"] = pc["monitor"],
         pc'["monitor"] \in {pc["monitor"], "cancelled"},
         \A t \in Answers \cup Senders : pc'[t] = pc[t],
         pc'["start"] # "done" => pc["start"] # "done",
         \/ lock' = lock
         \/ \A t \in Holders : lock = t => pc'[t] \notin Critical
  PROVE  CounterStep
<1>1. SendersWait' /\ Lost' = Lost
  BY DEF CounterInv, SendersWait, Lost
<1>2. \A t \in Holders : pc'[t] = pc[t] \/ pc'[t] \notin Critical
  BY DEF Holders, Critical, Renewing
<1>3. LockOrder'
  BY <1>2, OthersHold DEF CounterInv
<1> QED BY <1>1, <1>3, QuietInStep DEF CounterStep, CounterInv

LEMMA CleanupCounts ==
  ASSUME LifeInv, CounterInv, Cleanup
  PROVE  CounterStep
<1>1. PICK k \in Cleaners, j \in 0 .. 4 : CleanupStretch(k, j)
  BY CleanupShape
<1>2. PICK c \in Cleaners : CleanupBegins(c) \/ CleanupGoesOn(c)
  BY DEF Cleanup, StartFails, TimerFires, StopBegins, Cleaners
<1>3. UNCHANGED <<counter, heard, linked>> /\ active' = FALSE
  BY <1>1, <1>2 DEF CleanupBegins, CleanupGoesOn, device, CleanupStretch
<1>4. /\ \A t \in Answers \cup Senders : pc'[t] = pc[t]
      /\ pc'["monitor"] \in {pc["monitor"], "cancelled"}
  BY <1>1, TasksApart DEF CleanupStretch, Cleared, Cleaners
<1>5. pc'["start"] # "done" => pc["start"] # "done"
  <2>1. CASE k = "start"
    BY <1>1, <2>1 DEF CleanupStretch, MayBegin, Cleans, Starting, Awaits
  <2>2. CASE k # "start"
    BY <1>1, <2>2, TasksApart DEF CleanupStretch, Cleared, Cleaners, Timer
  <2> QED BY <2>1, <2>2
<1>6. PICK i \in 0 .. 4 : CleanupFrom(c, i)
  <2>1. CleanupBegins(c) => CleanupFrom(c, 0) /\ 0 \in 0 .. 4
    BY DEF CleanupBegins
  <2>2. CleanupGoesOn(c) => \E i \in 1 .. 4 : CleanupFrom(c, i)
    BY AwaitsOfCleanup DEF CleanupGoesOn
  <2> QED BY <1>2, <2>1, <2>2
<1>7. \/ lock' = lock
      \/ \A t \in Holders : lock = t => pc'[t] \notin Critical
  <2>1. CASE CleanupEnds(c)
    BY <2>1 DEF CleanupEnds
  <2>2. ASSUME NEW n \in i + 1 .. 4, Cancel(c, n)
        PROVE  \/ lock' = lock
               \/ \A t \in Holders : lock = t => pc'[t] \notin Critical
    <3> DEFINE victim == CASE Waits[n] = "timer" -> {Timer} \ {c}
                           [] Waits[n] = "ctpp" -> {"monitor"}
                           [] OTHER -> {}
    <3>1. pc' = [t \in Tasks |-> IF t = c THEN Waits[n]
                                ELSE IF t \in victim THEN "cancelled" ELSE pc[t]]
          /\ lock' = IF lock \in victim THEN None ELSE lock
      BY <2>2 DEF Cancel
    <3> HIDE DEF victim
    <3>2. \A t \in Holders : t \in victim => pc'[t] = "cancelled"
      BY <3>1, HoldersApart
    <3> QED BY <3>1, <3>2 DEF Critical, Renewing
  <2> QED BY <1>6, <2>1, <2>2, CleanupEffect
<1> QED BY <1>3, <1>4, <1>5, <1>7, AroundCounts

LEMMA StartCounts ==
  ASSUME LifeInv, CounterInv,
         \/ StartBegins \/ InboundBegins \/ StartCalls \/ StartControls \/ StartExchanges
         \/ StartLinks \/ StartCancelled
  PROVE  CounterStep
<1>1. \E to : to # "done" /\ pc' = [pc EXCEPT !["start"] = to]
  BY DEF StartBegins, InboundBegins, StartCalls, StartControls, StartExchanges, StartLinks,
     StartCancelled, Stage
<1>2. /\ UNCHANGED <<active, counter, heard, linked, lock>> /\ pc["start"] # "done"
  BY DEF StartBegins, InboundBegins, StartCalls, StartControls, StartExchanges, StartLinks,
     StartCancelled, Stage, UnchangedByStart, attributes, device, Starting
<1>3. \A t \in Answers \cup Senders \cup {"monitor"} : pc'[t] = pc[t]
  BY <1>1, HoldersApart DEF Holders, Cleaners, LifeInv
<1>4. pc'["monitor"] = pc["monitor"]
  BY <1>3
<1> QED BY <1>2, <1>3, <1>4, AroundCounts

LEMMA LiveCounts ==
  ASSUME FewPresses, LifeInv, CounterInv, NEW n \in Firsts \cup {1}, pc["start"] = "linking",
         GoesLive(n)
  PROVE  CounterStep
<1>1. n \in Nat /\ n < Top
  BY ConstantsAssumption
<1>2. /\ ~active /\ lock' = lock /\ counter' = [call |-> 1, high |-> n] /\ heard' = counter'
      /\ pc["start"] # "done"
  BY DEF GoesLive, LifeInv, StartOrder, Starting
<1>3. /\ pc'["monitor"] = "read" /\ \A t \in Answers \cup Senders : pc'[t] = pc[t]
  BY TasksApart, HoldersApart DEF GoesLive, LifeInv, Cleaners
<1>4. CounterTypes' /\ Follows
  BY <1>1, <1>2 DEF CounterTypes, Counter, Follows
<1>5. SendersWait'
  BY <1>2, <1>3 DEF CounterInv, SendersWait
<1>6. LockOrder'
  BY <1>2, <1>3, OthersHold DEF CounterInv, Holders, Critical, Renewing
<1>7. Cardinality(Lost)' \in Nat
  BY LostMany
<1>8. InStep'
  BY <1>1, <1>2, <1>3, <1>7 DEF InStep
<1> QED BY <1>4, <1>5, <1>6, <1>8 DEF CounterStep, CounterInv

LEMMA TimerCounts ==
  ASSUME LifeInv, CounterInv, NEW next \in {"idle", "lock"}, TimerStarts(next)
  PROVE  CounterStep
<1>1. /\ pc["start"] = "gate" /\ UNCHANGED <<active, counter, heard, linked, lock>>
  BY DEF TimerStarts, device
<1>2. /\ pc'["start"] = "done" /\ pc'["monitor"] = pc["monitor"]
      /\ \A t \in Answers \cup Senders : pc'[t] = pc[t] \/ (t = "sequence" /\ pc'[t] = next)
  <2>1. /\ pc' = [pc EXCEPT !["start"] = "done", !["sequence"] = next, ![Timer] = "armed"]
        /\ pc \in [Tasks -> Places]
    BY DEF TimerStarts, LifeInv
  <2>2. /\ {"start", "monitor", "sequence", Timer} \subseteq Tasks
        /\ "start" # "sequence" /\ "start" # Timer /\ "monitor" # Timer
    BY DEF Tasks, Own, Timer
  <2>3. pc'["start"] = "done" /\ pc'["monitor"] = pc["monitor"]
    BY <2>1, <2>2
  <2>4. ASSUME NEW t \in Answers \cup Senders
        PROVE  pc'[t] = pc[t] \/ (t = "sequence" /\ pc'[t] = next)
    <3>1. t \in Tasks /\ t # "start" /\ t # Timer
      BY HoldersApart DEF Holders, Cleaners
    <3> QED BY <2>1, <3>1
  <2> QED BY <2>3, <2>4
<1>3. \A t \in Senders : pc[t] = "idle"
  BY <1>1 DEF CounterInv, SendersWait
<1>4. Lost' = Lost
  BY <1>2, <1>3 DEF Lost
<1>5. SendersWait'
  BY <1>2 DEF SendersWait
<1>6. LockOrder'
  BY <1>1, <1>2, OthersHold DEF CounterInv, Holders, Critical, Renewing
<1> QED BY <1>1, <1>2, <1>4, <1>5, <1>6, QuietInStep DEF CounterStep, CounterInv

LEMMA EveryStepCounts ==
  ASSUME FewPresses, LifeInv, CounterInv, [Next]_vars
  PROVE  CounterStep
<1>1. CASE Beside
  <2>1. Doors \subseteq Senders
    BY DEF Senders
  <2> QED BY <1>1, <2>1, AnswerCounts, SenderCounts, DeviceCounts DEF Beside
<1> QED BY <1>1, StepKinds, CleanupCounts, MonitorCounts, StartCounts, LiveCounts, TimerCounts

\* Every message with the shared counter reaches the device in the call it counts in and
\* follows the one before (_ctpp_lock, _inline_reestablish, answer_inbound): the lock keeps
\* a renewal apart from the senders, and what was lost past the end of the range moves the
\* next answer by less than half of it, as long as the presses of a session are few.
THEOREM CountersRight == ASSUME FewPresses PROVE Spec => CountersFollow
<1>0. FewPresses
  OBVIOUS
<1>1. Init => CounterInv
  <2> SUFFICES ASSUME Init PROVE CounterInv
    OBVIOUS
  <2>1. \A t \in Tasks : pc[t] = "idle"
    BY DEF Init
  <2>2. LockOrder /\ SendersWait
    BY <2>1, HoldersApart, TasksApart DEF LockOrder, SendersWait, Critical, Renewing
  <2>3. CounterTypes /\ InStep
    BY ConstantsAssumption DEF Init, CounterTypes, InStep, Counter
  <2> QED BY <2>2, <2>3 DEF CounterInv
<1>2. LifeInv /\ CounterInv /\ [Next]_vars => CounterInv' /\ Follows
  BY <1>0, EveryStepCounts DEF CounterStep
<1>3. Spec => []LifeInv
  BY Invariance, PTL DEF SessionInv
<1>4. Follows => [active /\ counter' # counter /\ counter'.call = counter.call /\ heard' # heard
                    => /\ heard'.call = heard.call
                       /\ (heard'.high - heard.high) % Top \in 1 .. Top \div 2]_vars
  BY DEF Follows
<1> QED BY <1>1, <1>2, <1>3, <1>4, PTL DEF Spec, CountersFollow
=============================================================================
