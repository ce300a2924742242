------------------------- MODULE RtpReceiverProofs -------------------------
(***************************************************************************)
(* What holds of RtpReceiver for every number of fragments, callers and    *)
(* senders and every kind of behaviour: reassembly heals at the next start *)
(* fragment, get_jpeg_frame returns a new frame, a stopped receiver is     *)
(* quiet, and talk reaches the device in order and in time.                *)
(***************************************************************************)
EXTENDS RtpReceiver, TLAPS

\* The first k fragments of a NAL unit.
Prefix(n, k) == [i \in 1 .. k |-> [nal |-> n, part |-> i]]

\* What arrived in order since a start fragment is what _current_fua_nal holds.
UnitInv ==
  /\ clean.upto \in 1 .. Parts - 1 => fua = Prefix(clean.nal, clean.upto) /\ fuaTs = clean.nal
  /\ HealsAtNextStart

LEMMA PrefixGrows ==
  ASSUME NEW n, NEW k \in Nat
  PROVE  Append(Prefix(n, k), [nal |-> n, part |-> k + 1]) = Prefix(n, k + 1)
<1>1. Prefix(n, k) \in Seq({[nal |-> n, part |-> i] : i \in 1 .. k}) /\ Len(Prefix(n, k)) = k
  BY DEF Prefix
<1>2. Len(Append(Prefix(n, k), [nal |-> n, part |-> k + 1])) = k + 1
  BY <1>1
<1> QED BY <1>1, <1>2 DEF Prefix

\* No step but that of a fragment touches the NAL unit in the making.
LEMMA OthersReassemble ==
  ASSUME [Next]_vars, ~(\E tcp \in BOOLEAN, f \in Fragments : Fragment(tcp, f))
  PROVE  UNCHANGED <<fua, fuaTs, clean, handed>>
<1>1. CASE \E tcp \in BOOLEAN : SingleNal(tcp) \/ AudioPacket(tcp)
  BY <1>1 DEF SingleNal, AudioPacket
<1>2. CASE \E t \in Tasks : TaskCancelled(t)
  BY <1>2 DEF TaskCancelled, nalVars
<1>3. CASE StartMedia \/ CodecLoaded \/ CodecMissing \/ Decodes \/ DecodeIdles \/ DecodeFails
  BY <1>3 DEF StartMedia, CodecLoaded, CodecMissing, Decodes, DecodeIdles, DecodeFails, nalVars
<1>4. CASE \E n \in 0 .. 2 : FramesDecoded(n)
  BY <1>4 DEF FramesDecoded, nalVars
<1>5. CASE \E w \in Waiters : GetFrame(w) \/ FrameReturned(w) \/ FrameTimesOut(w)
  BY <1>5 DEF GetFrame, FrameReturned, FrameTimesOut, nalVars
<1>6. CASE AttachBackchannel \/ \E n \in Bursts : Speak(n)
  BY <1>6 DEF AttachBackchannel, Speak, nalVars
<1>7. CASE \E s \in Senders : StartAudioSender(s) \/ SendFrame(s) \/ FrameSent(s) \/ SenderEnds(s)
  BY <1>7 DEF StartAudioSender, SendFrame, FrameSent, SenderEnds, nalVars
<1>8. CASE Stop \/ StopGoesOn
  BY <1>8 DEF Stop, StopGoesOn, nalVars
<1>9. CASE UNCHANGED vars
  BY <1>9 DEF vars, nalVars
<1> QED BY <1>1, <1>2, <1>3, <1>4, <1>5, <1>6, <1>7, <1>8, <1>9 DEF Next

\* A fragment begins a unit, continues it in order, or breaks the order.
LEMMA FragmentReassembles ==
  ASSUME UnitInv, NEW tcp \in BOOLEAN, NEW f \in Fragments, Fragment(tcp, f)
  PROVE  UnitInv'
<1> DEFINE item == Reassembled(f)
<1>1. /\ Parts \in Nat /\ Parts > 1 /\ f.part \in 1 .. Parts
      /\ f = [nal |-> f.nal, part |-> f.part]
  BY ConstantsAssumption DEF Fragments
<1>2. /\ Follows(f) /\ fuaTs' = item.ts
      /\ IF f.part = Parts /\ item.parts # <<>> THEN fua' = <<>> /\ handed' = item
         ELSE fua' = item.parts /\ handed' = handed
  BY DEF Fragment
<1>3. CASE f.part = 1
  <2>1. item = [ts |-> f.nal, parts |-> <<f>>] /\ clean' = [nal |-> f.nal, upto |-> 1]
    BY <1>2, <1>3 DEF Reassembled, Follows
  <2>2. fua' = <<f>> /\ fuaTs' = f.nal
    BY <1>1, <1>2, <1>3, <2>1
  <2>3. <<f>> = Prefix(f.nal, 1)
    BY <1>1, <1>3 DEF Prefix
  <2> QED BY <1>1, <2>1, <2>2, <2>3 DEF UnitInv, HealsAtNextStart
<1>4. CASE f.part # 1 /\ clean = [nal |-> f.nal, upto |-> f.part - 1]
  <2>1. fua = Prefix(f.nal, f.part - 1) /\ fuaTs = f.nal
    BY <1>1, <1>4 DEF UnitInv
  <2>2. fua # <<>>
    <3>1. f.part - 1 \in 1 .. f.part - 1
      BY <1>1, <1>4
    <3>2. DOMAIN fua = 1 .. f.part - 1
      BY <2>1 DEF Prefix
    <3>3. DOMAIN <<>> = 1 .. 0
      OBVIOUS
    <3> QED BY <3>1, <3>2, <3>3
  <2>3. Append(fua, f) = Prefix(f.nal, f.part)
    BY <1>1, <1>4, <2>1, PrefixGrows, f.part - 1 \in Nat, (f.part - 1) + 1 = f.part
  <2>4. item = [ts |-> f.nal, parts |-> Prefix(f.nal, f.part)]
    BY <1>4, <2>1, <2>2, <2>3 DEF Reassembled
  <2>5. clean' = [nal |-> f.nal, upto |-> f.part]
    BY <1>2, <1>4 DEF Follows
  <2>6. item.parts # <<>>
    BY <1>1, <2>4 DEF Prefix
  <2>7. CASE f.part = Parts
    <3>1. handed' = item
      BY <1>2, <2>6, <2>7
    <3>2. item = Whole(f.nal)
      BY <2>4, <2>7 DEF Prefix, Whole
    <3> QED BY <1>1, <2>5, <2>7, <3>1, <3>2 DEF UnitInv, HealsAtNextStart, Whole
  <2>8. CASE f.part # Parts
    <3>1. fua' = Prefix(f.nal, f.part) /\ fuaTs' = f.nal
      BY <1>2, <2>4, <2>8
    <3> QED BY <1>1, <2>5, <2>8, <3>1 DEF UnitInv, HealsAtNextStart
  <2> QED BY <2>7, <2>8
<1>5. CASE f.part # 1 /\ clean # [nal |-> f.nal, upto |-> f.part - 1]
  <2>1. clean' = [nal |-> None, upto |-> 0]
    BY <1>2, <1>5 DEF Follows
  <2> QED BY <1>1, <2>1 DEF UnitInv, HealsAtNextStart
<1> QED BY <1>3, <1>4, <1>5

\* A NAL unit whose fragments arrive in order is handed on as it was sent, for any number
\* of units and fragments and whatever else happens (_process_fua).
THEOREM Heals == Spec => []HealsAtNextStart
<1>1. Init => UnitInv
  BY ConstantsAssumption DEF Init, UnitInv, HealsAtNextStart
<1>2. UnitInv /\ [Next]_vars => UnitInv'
  <2> SUFFICES ASSUME UnitInv, [Next]_vars PROVE UnitInv'
    OBVIOUS
  <2>1. CASE \E tcp \in BOOLEAN, f \in Fragments : Fragment(tcp, f)
    BY <2>1, FragmentReassembles
  <2>2. CASE ~(\E tcp \in BOOLEAN, f \in Fragments : Fragment(tcp, f))
    <3>1. UNCHANGED <<fua, fuaTs, clean, handed>>
      BY <2>2, OthersReassemble
    <3> QED BY <3>1 DEF UnitInv, HealsAtNextStart, Whole, Prefix
  <2> QED BY <2>1, <2>2
<1>3. UnitInv => HealsAtNextStart
  BY DEF UnitInv
<1> QED BY <1>1, <1>2, <1>3, PTL DEF Spec
-----------------------------------------------------------------------------
(* get_jpeg_frame *)

\* The frame kept is the last one decoded, and it is taken away only by stop(); whoever
\* was woken has seen a frame come in.
FrameInv ==
  /\ frames \in Nat /\ since \in [Waiters -> Nat] /\ got \in [Waiters -> Nat \cup {None}]
  /\ waiter \in [Waiters -> {"idle", "waiting", "woken", "returned", "timed out"}]
  /\ latest \in {None, frames} /\ (latest = None => frames = 0 \/ stopping # "no")
  /\ \A w \in Waiters : since[w] <= frames /\ (waiter[w] = "woken" => since[w] < frames)
  /\ FrameIsNew

LEMMA StopAdvances ==
  ASSUME NEW i \in 1 .. 4, StopFrom(i)
  PROVE  stopping' # "no" /\ latest' \in {latest, None}
<1>1. \A j \in 1 .. 3 : Order[j] \in {"keepalive", "decode", "sender"}
  BY DEF Order
<1>2. CASE \E j \in i .. 3 : Waits(j)
  <2>1. PICK j \in i .. 3 : stopping' = Order[j] /\ latest' = latest
    BY <1>2 DEF StopFrom
  <2> QED BY <1>1, <2>1
<1>3. CASE ~(\E j \in i .. 3 : Waits(j))
  BY <1>3 DEF StopFrom
<1> QED BY <1>2, <1>3

\* The steps that neither decode, nor wait for a frame, nor stop.
LEMMA OthersKeepFrames ==
  ASSUME [Next]_vars, ~(\E n \in 0 .. 2 : FramesDecoded(n)),
         ~(\E w \in Waiters : GetFrame(w) \/ FrameReturned(w) \/ FrameTimesOut(w)),
         ~(Stop \/ StopGoesOn)
  PROVE  UNCHANGED <<frames, latest, since, got, waiter, stopping>>
<1>1. CASE \E tcp \in BOOLEAN, f \in Fragments : Fragment(tcp, f)
  BY <1>1 DEF Fragment, frameVars, taskVars
<1>2. CASE \E tcp \in BOOLEAN : SingleNal(tcp) \/ AudioPacket(tcp)
  BY <1>2 DEF SingleNal, AudioPacket, frameVars, taskVars
<1>3. CASE \E t \in Tasks : TaskCancelled(t)
  BY <1>3 DEF TaskCancelled, frameVars
<1>4. CASE StartMedia \/ CodecLoaded \/ CodecMissing \/ Decodes \/ DecodeIdles \/ DecodeFails
  BY <1>4 DEF StartMedia, CodecLoaded, CodecMissing, Decodes, DecodeIdles, DecodeFails, frameVars
<1>5. CASE AttachBackchannel \/ \E n \in Bursts : Speak(n)
  BY <1>5 DEF AttachBackchannel, Speak, frameVars, taskVars
<1>6. CASE \E s \in Senders : StartAudioSender(s) \/ SendFrame(s) \/ FrameSent(s) \/ SenderEnds(s)
  BY <1>6 DEF StartAudioSender, SendFrame, FrameSent, SenderEnds, frameVars
<1>7. CASE UNCHANGED vars
  BY <1>7 DEF vars, frameVars, taskVars
<1> QED BY <1>1, <1>2, <1>3, <1>4, <1>5, <1>6, <1>7 DEF Next

LEMMA FrameStep ==
  ASSUME FrameInv, [Next]_vars
  PROVE  FrameInv'
<1>0. None \notin Nat
  BY ConstantsAssumption
<1>1. CASE \E n \in 0 .. 2 : FramesDecoded(n)
  <2>1. PICK n \in 0 .. 2 : FramesDecoded(n)
    BY <1>1
  <2>2. UNCHANGED <<stopping, got, since>>
    BY <2>1 DEF FramesDecoded
  <2>3. CASE n = 0
    <3>1. UNCHANGED <<frames, latest, waiter>>
      BY <2>1, <2>3 DEF FramesDecoded
    <3> QED BY <2>2, <3>1 DEF FrameInv, FrameIsNew
  <2>4. CASE n # 0
    <3>1. /\ frames' = frames + n /\ latest' = frames + n
          /\ waiter' = [w \in Waiters |-> IF waiter[w] = "waiting" THEN "woken" ELSE waiter[w]]
      BY <2>1, <2>4 DEF FramesDecoded
    <3>2. frames' \in Nat /\ frames < frames' /\ latest' = frames' /\ latest' # None
      <4>1. frames \in Nat
        BY DEF FrameInv
      <4>2. n \in Nat /\ n > 0
        BY <2>4
      <4> QED BY <1>0, <3>1, <4>1, <4>2
    <3>3. waiter' \in [Waiters -> {"idle", "waiting", "woken", "returned", "timed out"}]
      BY <3>1 DEF FrameInv
    <3>4. \A w \in Waiters : since'[w] < frames'
      <4> SUFFICES ASSUME NEW w \in Waiters PROVE since[w] < frames'
        BY <2>2
      <4>1. since[w] \in Nat /\ since[w] <= frames /\ frames \in Nat
        BY DEF FrameInv
      <4> QED BY <3>2, <4>1
    <3>5. FrameIsNew'
      <4> SUFFICES ASSUME NEW w \in Waiters, waiter'[w] = "returned"
                   PROVE  IF got'[w] = None THEN stopping' # "no" ELSE got'[w] > since'[w]
        BY DEF FrameIsNew
      <4>1. waiter[w] = "returned"
        BY <3>1
      <4> QED BY <2>2, <4>1 DEF FrameInv, FrameIsNew
    <3>6. \A w \in Waiters : since'[w] <= frames' /\ (waiter'[w] = "woken" => since'[w] < frames')
      <4> SUFFICES ASSUME NEW w \in Waiters PROVE since'[w] <= frames' /\ since'[w] < frames'
        OBVIOUS
      <4>1. since'[w] \in Nat /\ since'[w] < frames'
        BY <2>2, <3>4 DEF FrameInv
      <4> QED BY <3>2, <4>1
    <3> QED BY <2>2, <3>2, <3>3, <3>5, <3>6 DEF FrameInv
  <2> QED BY <2>3, <2>4
<1>2. CASE \E w \in Waiters : GetFrame(w)
  <2>1. PICK w \in Waiters : GetFrame(w)
    BY <1>2
  <2>2. /\ waiter' = [waiter EXCEPT ![w] = "waiting"] /\ since' = [since EXCEPT ![w] = frames]
        /\ UNCHANGED <<frames, latest, got, stopping>>
    BY <2>1 DEF GetFrame, taskVars
  <2>0. frames \in Nat
    BY DEF FrameInv
  <2>3. since' \in [Waiters -> Nat]
        /\ waiter' \in [Waiters -> {"idle", "waiting", "woken", "returned", "timed out"}]
    BY <2>2 DEF FrameInv
  <2>4. \A x \in Waiters : since'[x] <= frames /\ (waiter'[x] = "woken" => since'[x] < frames)
    <3> SUFFICES ASSUME NEW x \in Waiters
                 PROVE  since'[x] <= frames /\ (waiter'[x] = "woken" => since'[x] < frames)
      OBVIOUS
    <3>1. since[x] <= frames /\ (waiter[x] = "woken" => since[x] < frames)
      BY DEF FrameInv
    <3>2. CASE x = w
      <4>1. waiter'[x] = "waiting" /\ since'[x] = frames
        BY <2>2, <3>2 DEF FrameInv
      <4> QED BY <2>0, <4>1
    <3>3. CASE x # w
      <4>1. waiter'[x] = waiter[x] /\ since'[x] = since[x]
        BY <2>2, <3>3 DEF FrameInv
      <4> QED BY <3>1, <4>1
    <3> QED BY <3>2, <3>3
  <2>5. FrameIsNew'
    BY <2>2 DEF FrameInv, FrameIsNew
  <2> QED BY <2>2, <2>3, <2>4, <2>5 DEF FrameInv
<1>3. CASE \E w \in Waiters : FrameReturned(w)
  <2>1. PICK w \in Waiters : FrameReturned(w)
    BY <1>3
  <2>2. /\ waiter[w] = "woken" /\ waiter' = [waiter EXCEPT ![w] = "returned"]
        /\ got' = [got EXCEPT ![w] = latest]
        /\ UNCHANGED <<frames, latest, since, stopping>>
    BY <2>1 DEF FrameReturned, taskVars
  <2>3. since[w] < frames /\ since[w] \in Nat /\ frames \in Nat
    BY <2>2 DEF FrameInv
  <2>4. latest \in {None, frames} /\ (latest = None => frames = 0 \/ stopping # "no")
    BY DEF FrameInv
  <2>6. /\ frames # 0
        /\ IF latest = None THEN stopping # "no" ELSE latest > since[w]
    <3>1. frames # 0
      BY <2>3
    <3>2. CASE latest = None
      BY <2>4, <3>1, <3>2
    <3>3. CASE latest = frames
      BY <1>0, <2>3, <3>3
    <3> QED BY <2>4, <3>1, <3>2, <3>3
  <2>5. FrameIsNew'
    BY <2>2, <2>6 DEF FrameInv, FrameIsNew
  <2> QED BY <2>2, <2>5 DEF FrameInv
<1>4. CASE \E w \in Waiters : FrameTimesOut(w)
  <2>1. PICK w \in Waiters : FrameTimesOut(w)
    BY <1>4
  <2>2. /\ waiter' = [waiter EXCEPT ![w] = "timed out"]
        /\ UNCHANGED <<frames, latest, got, since, stopping>>
    BY <2>1 DEF FrameTimesOut, taskVars
  <2> QED BY <2>2 DEF FrameInv, FrameIsNew
<1>5. CASE Stop \/ StopGoesOn
  <2>1. stopping' # "no" /\ latest' \in {latest, None}
    <3>1. CASE Stop
      BY <3>1, StopAdvances, 1 \in 1 .. 4 DEF Stop
    <3>2. CASE StopGoesOn
      <4>1. PICK i \in 1 .. 3 : StopFrom(i + 1)
        BY <3>2 DEF StopGoesOn
      <4>2. i + 1 \in 1 .. 4
        OBVIOUS
      <4> QED BY <4>1, <4>2, StopAdvances
    <3> QED BY <1>5, <3>1, <3>2
  <2>2. UNCHANGED <<frames, since, got, waiter>>
    BY <1>5 DEF Stop, StopGoesOn
  <2> QED BY <2>1, <2>2 DEF FrameInv, FrameIsNew
<1>6. CASE ~(\E n \in 0 .. 2 : FramesDecoded(n)) /\ ~(Stop \/ StopGoesOn)
           /\ ~(\E w \in Waiters : GetFrame(w) \/ FrameReturned(w) \/ FrameTimesOut(w))
  <2>1. UNCHANGED <<frames, latest, since, got, waiter, stopping>>
    BY <1>6, OthersKeepFrames
  <2> QED BY <2>1 DEF FrameInv, FrameIsNew
<1> QED BY <1>1, <1>2, <1>3, <1>4, <1>5, <1>6

\* get_jpeg_frame never returns a frame from before the call, however many callers share
\* the event, and nothing only once the receiver is being stopped.
THEOREM FramesNew == Spec => []FrameIsNew
<1>1. Init => FrameInv
  BY DEF Init, FrameInv, FrameIsNew
<1>2. FrameInv => FrameIsNew
  BY DEF FrameInv
<1> QED BY <1>1, <1>2, FrameStep, PTL DEF Spec
-----------------------------------------------------------------------------
(* stop() *)

Places == {"off", "loading", "ready", "busy", "ended"}
Taken(t) == Live(t) => t \in cancelled

\* stop() has dealt with every task up to the one it waits for, and there is no sender
\* but the one it knows.
QuietInv ==
  /\ pc \in [Tasks -> Places] /\ sender \in Senders \cup {None}
  /\ stopping \in {"no", "keepalive", "decode", "sender", "done"}
  /\ \A s \in Senders : Live(s) => s = sender
  /\ stopping # "no" => ~running /\ Taken("keepalive")
  /\ stopping \in {"decode", "sender", "done"} => Taken("decode")
  /\ stopping \in {"sender", "done"} => \A s \in Senders : Taken(s)
  /\ stopping = "done" => ~open /\ latest = None

\* A task that goes on or ends; only the decode task may leave a frame.
LEMMA TaskGoesOn ==
  ASSUME QuietInv, NEW t \in Tasks, NEW x \in Places, Live(t), pc' = [pc EXCEPT ![t] = x],
         t \notin cancelled \/ x = "ended",
         latest' = latest \/ (t = "decode" /\ t \notin cancelled),
         UNCHANGED <<running, open, stopping, cancelled, sender>>
  PROVE  QuietInv'
<1>1. pc' \in [Tasks -> Places]
  BY DEF QuietInv
<1>2. \A u \in Tasks : Live(u)' => Live(u)
  BY DEF QuietInv, Live
<1>3. \A u \in Tasks : Taken(u) => Taken(u)'
  BY <1>2 DEF Taken
<1>4. stopping = "done" => latest' = latest
  <2> SUFFICES ASSUME stopping = "done" PROVE latest' = latest
    OBVIOUS
  <2>1. Taken("decode")
    BY DEF QuietInv
  <2> QED BY <2>1 DEF Taken
<1>5. Senders \subseteq Tasks /\ "keepalive" \in Tasks /\ "decode" \in Tasks
  BY DEF Tasks
<1> QED BY <1>1, <1>2, <1>3, <1>4, <1>5 DEF QuietInv

\* stop() takes the tasks from the i-th one on.
LEMMA StopTakes ==
  ASSUME QuietInv, NEW i \in 1 .. 4, StopFrom(i), UNCHANGED <<pc, sender>>, ~running',
         i > 1 => Taken("keepalive"), i > 2 => Taken("decode"),
         i > 3 => \A s \in Senders : Taken(s)
  PROVE  QuietInv'
<1>1. /\ Waits(1) <=> Live("keepalive")
      /\ Waits(2) <=> Live("decode")
      /\ Waits(3) <=> sender # None /\ Live(sender)
  BY ConstantsAssumption DEF Waits, TaskOf, Order
<1>2. \A u \in Tasks : Live(u)' <=> Live(u)
  BY DEF Live
<1>3. \A s \in Senders : Live(s) => s = sender /\ sender # None
  BY ConstantsAssumption DEF QuietInv
<1>4. Senders \subseteq Tasks /\ "keepalive" \in Tasks /\ "decode" \in Tasks
  BY DEF Tasks
<1>5. CASE \E j \in i .. 3 : Waits(j)
  <2>1. PICK j \in i .. 3 :
          /\ Waits(j) /\ \A k \in i .. j - 1 : ~Waits(k)
          /\ stopping' = Order[j] /\ cancelled' = cancelled \cup {TaskOf(Order[j])}
          /\ UNCHANGED <<open, latest>>
    BY <1>5 DEF StopFrom
  <2>2. \A u \in Tasks : Taken(u) => Taken(u)'
    BY <1>2, <2>1 DEF Taken
  <2>3. CASE j = 1
    <3>1. stopping' = "keepalive" /\ "keepalive" \in cancelled'
      BY <2>1, <2>3 DEF Order, TaskOf
    <3> QED BY <1>2, <1>3, <1>4, <3>1 DEF QuietInv, Taken
  <2>4. CASE j = 2
    <3>1. stopping' = "decode" /\ "decode" \in cancelled'
      BY <2>1, <2>4 DEF Order, TaskOf
    <3>2. Taken("keepalive")
      BY <1>1, <2>1, <2>4 DEF Taken
    <3> QED BY <1>2, <1>3, <1>4, <2>2, <3>1, <3>2 DEF QuietInv, Taken
  <2>5. CASE j = 3
    <3>1. stopping' = "sender" /\ sender \in cancelled'
      BY <2>1, <2>5 DEF Order, TaskOf
    <3>2. Taken("keepalive") /\ Taken("decode")
      BY <1>1, <2>1, <2>5 DEF Taken
    <3>3. \A s \in Senders : Taken(s)'
      BY <1>2, <1>3, <1>4, <3>1 DEF Taken
    <3> QED BY <1>2, <1>3, <1>4, <2>2, <3>1, <3>2, <3>3 DEF QuietInv
  <2> QED BY <2>3, <2>4, <2>5
<1>6. CASE ~(\E j \in i .. 3 : Waits(j))
  <2>1. ~open' /\ latest' = None /\ stopping' = "done" /\ cancelled' = cancelled
    BY <1>6 DEF StopFrom
  <2>2. Taken("keepalive") /\ Taken("decode") /\ \A s \in Senders : Taken(s)
    BY <1>1, <1>3, <1>6 DEF Taken
  <2>3. \A u \in Tasks : Taken(u)'
    BY <1>2, <2>1, <2>2 DEF Taken, Tasks
  <2> QED BY <1>2, <1>3, <1>4, <2>1, <2>3 DEF QuietInv
<1> QED BY <1>5, <1>6

LEMMA QuietStep ==
  ASSUME QuietInv, [Next]_vars
  PROVE  QuietInv'
<1>0. "decode" \in Tasks /\ Senders \subseteq Tasks
  BY DEF Tasks
<1>1. CASE UNCHANGED <<taskVars, latest>>
  BY <1>1 DEF QuietInv, Taken, Live, taskVars
<1>2. CASE (\E tcp \in BOOLEAN, f \in Fragments : Fragment(tcp, f))
           \/ (\E tcp \in BOOLEAN : SingleNal(tcp) \/ AudioPacket(tcp))
           \/ (\E w \in Waiters : GetFrame(w) \/ FrameReturned(w) \/ FrameTimesOut(w))
           \/ AttachBackchannel \/ (\E n \in Bursts : Speak(n)) \/ UNCHANGED vars
  <2>1. UNCHANGED <<taskVars, latest>>
    BY <1>2 DEF Fragment, SingleNal, AudioPacket, GetFrame, FrameReturned, FrameTimesOut,
                AttachBackchannel, Speak, vars, frameVars
  <2> QED BY <1>1, <2>1
<1>3. CASE \E t \in Tasks : TaskCancelled(t)
  <2>1. PICK t \in Tasks : TaskCancelled(t)
    BY <1>3
  <2> QED BY <2>1, TaskGoesOn, "ended" \in Places DEF TaskCancelled, frameVars, Places
<1>4. CASE StartMedia
  <2>1. /\ stopping = "no" /\ pc' = [pc EXCEPT !["decode"] = "loading"]
        /\ UNCHANGED <<running, open, stopping, cancelled, sender, latest>>
    BY <1>4 DEF StartMedia, frameVars
  <2>2. \A s \in Senders : Live(s)' => Live(s)
    BY <1>0, <2>1, ConstantsAssumption DEF QuietInv, Live
  <2> QED BY <1>0, <2>1, <2>2 DEF QuietInv, Places
<1>5. CASE CodecLoaded \/ CodecMissing \/ Decodes \/ DecodeIdles \/ DecodeFails
           \/ \E n \in 0 .. 2 : FramesDecoded(n)
  <2>1. /\ Live("decode") /\ "decode" \notin cancelled
        /\ \E x \in Places : pc' = [pc EXCEPT !["decode"] = x]
    BY <1>5 DEF CodecLoaded, CodecMissing, Decodes, DecodeIdles, DecodeFails, FramesDecoded,
                Loop, Step, Live, Places
  <2>2. UNCHANGED <<running, open, stopping, cancelled, sender>>
    BY <1>5 DEF CodecLoaded, CodecMissing, Decodes, DecodeIdles, DecodeFails, FramesDecoded
  <2> QED BY <1>0, <2>1, <2>2, TaskGoesOn
<1>6. CASE \E s \in Senders : SendFrame(s) \/ FrameSent(s) \/ SenderEnds(s)
  <2>1. PICK s \in Senders : SendFrame(s) \/ FrameSent(s) \/ SenderEnds(s)
    BY <1>6
  <2>2. /\ Live(s) /\ s \notin cancelled
        /\ \E x \in Places : pc' = [pc EXCEPT ![s] = x]
    BY <2>1 DEF SendFrame, FrameSent, SenderEnds, Loop, Step, Live, Places
  <2>3. UNCHANGED <<running, open, stopping, cancelled, sender, latest>>
    BY <2>1 DEF SendFrame, FrameSent, SenderEnds, frameVars
  <2> QED BY <1>0, <2>2, <2>3, TaskGoesOn
<1>7. CASE \E s \in Senders : StartAudioSender(s)
  <2>1. PICK s \in Senders : StartAudioSender(s)
    BY <1>7
  <2>2. /\ stopping = "no" /\ sender' = s /\ pc' = [pc EXCEPT ![s] = "ready"]
        /\ ~(sender # None /\ Live(sender))
        /\ UNCHANGED <<running, open, stopping, cancelled, latest>>
    BY <2>1 DEF StartAudioSender, frameVars
  <2>3. \A u \in Senders : ~Live(u)
    BY <2>2, ConstantsAssumption DEF QuietInv
  <2>4. \A u \in Senders : Live(u)' => u = s
    BY <1>0, <2>2, <2>3 DEF QuietInv, Live
  <2> QED BY <1>0, <2>2, <2>4 DEF QuietInv, Places
<1>8. CASE Stop
  <2>1. StopFrom(1) /\ ~running' /\ UNCHANGED <<pc, sender>>
    BY <1>8 DEF Stop
  <2> QED BY <2>1, StopTakes, 1 \in 1 .. 4
<1>9. CASE StopGoesOn
  <2>1. PICK i \in 1 .. 3 : stopping = Order[i] /\ StopFrom(i + 1)
    BY <1>9 DEF StopGoesOn
  <2>2. UNCHANGED <<pc, sender, running>>
    BY <1>9 DEF StopGoesOn
  <2>3. stopping # "no" /\ (i > 1 => stopping \in {"decode", "sender"})
        /\ (i > 2 => stopping = "sender")
    BY <2>1 DEF Order
  <2>4. /\ ~running' /\ Taken("keepalive") /\ (i > 1 => Taken("decode"))
        /\ (i > 2 => \A s \in Senders : Taken(s))
    BY <2>2, <2>3 DEF QuietInv
  <2>5. i + 1 \in 1 .. 4 /\ (i + 1 > 2 => i > 1) /\ (i + 1 > 3 => i > 2)
    OBVIOUS
  <2> QED BY <2>1, <2>2, <2>4, <2>5, StopTakes
<1> QED BY <1>2, <1>3, <1>4, <1>5, <1>6, <1>7, <1>8, <1>9 DEF Next

\* After stop() there is no frame and none appears, the socket is closed and no task goes
\* on, whatever ran while it waited, for any number of senders asked for before.
THEOREM Quiet == Spec => []QuietAfterStop
<1>1. Init => QuietInv
  BY ConstantsAssumption DEF Init, QuietInv, Places, Live, Tasks
<1>2. QuietInv => QuietAfterStop
  BY DEF QuietInv, QuietAfterStop, Taken, Tasks
<1> QED BY <1>1, <1>2, QuietStep, PTL DEF Spec
-----------------------------------------------------------------------------
(* The microphone *)

\* Units are numbered from 1.
Units == Nat \ {0}

Rising(q) == \A i, j \in DOMAIN q : i < j => q[i] < q[j]
Before(p, q) == \A i \in DOMAIN p, j \in DOMAIN q : p[i] < q[j]
Below(q, n) == \A i \in DOMAIN q : q[i] < n

LEMMA Numbers ==
  /\ {Frame, Cap, Keep, MicSize} \subseteq Nat \ {0} /\ Keep <= Cap /\ Cap % Frame = 0
  /\ Bursts \subseteq Nat \ {0}
BY ConstantsAssumption

\* What is left of a queue without its first m members, and what those are.
LEMMA Suffix ==
  ASSUME NEW q \in Seq(Units), NEW m \in 0 .. Len(q)
  PROVE  /\ SubSeq(q, m + 1, Len(q)) \in Seq(Units)
         /\ Len(SubSeq(q, m + 1, Len(q))) = Len(q) - m
         /\ \A i \in 1 .. Len(q) - m : SubSeq(q, m + 1, Len(q))[i] = q[m + i]
OBVIOUS

LEMMA Start ==
  ASSUME NEW q \in Seq(Units), NEW m \in 0 .. Len(q)
  PROVE  /\ SubSeq(q, 1, m) \in Seq(Units) /\ Len(SubSeq(q, 1, m)) = m
         /\ \A i \in 1 .. m : SubSeq(q, 1, m)[i] = q[i]
OBVIOUS

LEMMA Concat ==
  ASSUME NEW p \in Seq(Units), NEW q \in Seq(Units)
  PROVE  /\ p \o q \in Seq(Units) /\ Len(p \o q) = Len(p) + Len(q)
         /\ \A i \in 1 .. Len(p) : (p \o q)[i] = p[i]
         /\ \A i \in 1 .. Len(q) : (p \o q)[Len(p) + i] = q[i]
OBVIOUS

LEMMA Regroup ==
  ASSUME NEW p \in Seq(Units), NEW q \in Seq(Units), NEW r \in Seq(Units)
  PROVE  (p \o q) \o r = p \o (q \o r)
OBVIOUS

\* Two rising queues in a row, the first before the second.
LEMMA RisingInRow ==
  ASSUME NEW p \in Seq(Units), NEW q \in Seq(Units), Rising(p), Rising(q), Before(p, q)
  PROVE  Rising(p \o q)
<1> SUFFICES ASSUME NEW i \in 1 .. Len(p) + Len(q), NEW j \in 1 .. Len(p) + Len(q), i < j
             PROVE  (p \o q)[i] < (p \o q)[j]
  BY Concat DEF Rising
<1>1. CASE j <= Len(p)
  BY <1>1, Concat DEF Rising
<1>2. CASE i > Len(p)
  <2>1. /\ i - Len(p) \in 1 .. Len(q) /\ j - Len(p) \in 1 .. Len(q) /\ i - Len(p) < j - Len(p)
        /\ Len(p) + (i - Len(p)) = i /\ Len(p) + (j - Len(p)) = j
    BY <1>2
  <2>2. (p \o q)[i] = q[i - Len(p)] /\ (p \o q)[j] = q[j - Len(p)]
    BY <2>1, Concat
  <2> QED BY <2>1, <2>2 DEF Rising
<1>3. CASE i <= Len(p) /\ j > Len(p)
  <2>1. j - Len(p) \in 1 .. Len(q) /\ Len(p) + (j - Len(p)) = j /\ i \in 1 .. Len(p)
    BY <1>3
  <2>2. (p \o q)[i] = p[i] /\ (p \o q)[j] = q[j - Len(p)]
    BY <2>1, Concat
  <2> QED BY <2>1, <2>2 DEF Before
<1> QED BY <1>1, <1>2, <1>3

LEMMA BelowInRow ==
  ASSUME NEW p \in Seq(Units), NEW q \in Seq(Units), NEW n, Below(p, n), Below(q, n)
  PROVE  Below(p \o q, n)
<1> SUFFICES ASSUME NEW i \in 1 .. Len(p) + Len(q) PROVE (p \o q)[i] < n
  BY Concat DEF Below
<1>1. CASE i <= Len(p)
  BY <1>1, Concat DEF Below
<1>2. CASE i > Len(p)
  <2>1. i - Len(p) \in 1 .. Len(q) /\ Len(p) + (i - Len(p)) = i
    BY <1>2
  <2> QED BY <2>1, Concat DEF Below
<1> QED BY <1>1, <1>2

LEMMA BeforeInRow ==
  ASSUME NEW r \in Seq(Units), NEW p \in Seq(Units), NEW q \in Seq(Units), Before(r, p), Before(r, q)
  PROVE  Before(r, p \o q)
<1> SUFFICES ASSUME NEW k \in 1 .. Len(r), NEW i \in 1 .. Len(p) + Len(q)
             PROVE  r[k] < (p \o q)[i]
  BY Concat DEF Before
<1>1. CASE i <= Len(p)
  BY <1>1, Concat DEF Before
<1>2. CASE i > Len(p)
  <2>1. i - Len(p) \in 1 .. Len(q) /\ Len(p) + (i - Len(p)) = i
    BY <1>2
  <2> QED BY <2>1, Concat DEF Before
<1> QED BY <1>1, <1>2

TalkTypes ==
  /\ spoken \in Nat /\ ticks \in Nat /\ mic \in Seq(Units) /\ said \in Seq(Units)
  /\ tx \in [Senders -> Seq(Units)] /\ spokeAt \in Seq(Nat) /\ Len(spokeAt) = spoken
  /\ attached \in BOOLEAN

\* While the receiver runs its one sender does, and nobody else has a buffer.
SenderInv ==
  /\ stopping = "no" => running /\ cancelled = {} /\ (sender # None => Live(sender))
  /\ \A s \in Senders : s # sender => tx[s] = <<>>

\* What was sent comes before what is buffered, and that before what is queued.
MicInv ==
  /\ Rising(mic) /\ \A i \in DOMAIN mic : mic[i] \in 1 .. spoken
  /\ Rising(said) /\ Below(said, FirstInMic)
  /\ \A s \in Senders : Rising(tx[s]) /\ Below(tx[s], FirstInMic) /\ Before(said, tx[s])

\* Each tick takes a frame from the front of a buffer that has one, so a unit's place
\* bounds how long it has waited.
LagInv ==
  /\ attached => \A u \in FirstInMic .. spoken : spokeAt[u] = ticks
  /\ ~attached => \A s \in Senders : tx[s] = <<>>
  /\ \A s \in Senders : Len(tx[s]) >= Frame =>
       \A i \in 1 .. Len(tx[s]) : (ticks - spokeAt[tx[s][i]]) * Frame + i <= Cap

TalkInv == TalkTypes /\ SenderInv /\ MicInv /\ LagInv

LEMMA FirstType == ASSUME TalkTypes, MicInv PROVE FirstInMic \in 1 .. spoken + 1
<1>1. CASE mic = <<>>
  BY <1>1 DEF FirstInMic, TalkTypes
<1>2. CASE mic # <<>>
  <2>1. 1 \in DOMAIN mic /\ Head(mic) = mic[1]
    BY <1>2 DEF TalkTypes
  <2> QED BY <1>2, <2>1 DEF FirstInMic, TalkTypes, MicInv
<1> QED BY <1>1, <1>2

LEMMA MicUnitsAre ==
  ASSUME TalkTypes, MicInv
  PROVE  /\ MicUnits \in Seq(Units) /\ Len(MicUnits) = spoken + 1 - FirstInMic
         /\ \A i \in 1 .. Len(MicUnits) :
              MicUnits[i] = FirstInMic + i - 1 /\ MicUnits[i] \in FirstInMic .. spoken
<1>1. FirstInMic \in 1 .. spoken + 1 /\ spoken \in Nat
  BY FirstType DEF TalkTypes
<1> HIDE DEF FirstInMic
<1>2. spoken + 1 - FirstInMic \in Nat
  BY <1>1
<1>3. \A i \in 1 .. spoken + 1 - FirstInMic :
        FirstInMic + i - 1 \in Units /\ FirstInMic + i - 1 \in FirstInMic .. spoken
  BY <1>1 DEF Units
<1> QED BY <1>2, <1>3 DEF MicUnits

\* The buffer and the queue in a row.
LEMMA AllInOrder ==
  ASSUME TalkTypes, MicInv, NEW s \in Senders
  PROVE  /\ tx[s] \o MicUnits \in Seq(Units) /\ Rising(tx[s] \o MicUnits)
         /\ Below(tx[s] \o MicUnits, spoken + 1) /\ Before(said, tx[s] \o MicUnits)
<1>1. /\ FirstInMic \in 1 .. spoken + 1 /\ spoken \in Nat /\ tx[s] \in Seq(Units)
      /\ said \in Seq(Units)
  BY FirstType DEF TalkTypes
<1>2. /\ Rising(tx[s]) /\ Below(tx[s], FirstInMic) /\ Before(said, tx[s])
      /\ Below(said, FirstInMic)
  BY DEF MicInv
<1>3. MicUnits \in Seq(Units) /\ DOMAIN MicUnits = 1 .. Len(MicUnits)
  BY MicUnitsAre
<1>4. Rising(MicUnits) /\ Below(MicUnits, spoken + 1)
  BY <1>1, <1>3, MicUnitsAre DEF Rising, Below
<1>5. Before(tx[s], MicUnits) /\ Before(said, MicUnits)
  <2>1. ASSUME NEW q \in Seq(Units), Below(q, FirstInMic) PROVE Before(q, MicUnits)
    <3> SUFFICES ASSUME NEW i \in DOMAIN q, NEW j \in DOMAIN MicUnits PROVE q[i] < MicUnits[j]
      BY DEF Before
    <3>1. q[i] < FirstInMic /\ q[i] \in Nat
      BY <2>1 DEF Below, Units
    <3>2. MicUnits[j] \in Nat /\ MicUnits[j] >= FirstInMic
      BY <1>1, <1>3, MicUnitsAre
    <3> QED BY <1>1, <3>1, <3>2
  <2> QED BY <1>1, <1>2, <2>1
<1>6. Below(tx[s], spoken + 1)
  <2> SUFFICES ASSUME NEW i \in DOMAIN tx[s] PROVE tx[s][i] < spoken + 1
    BY DEF Below
  <2>1. tx[s][i] < FirstInMic /\ tx[s][i] \in Nat
    BY <1>1, <1>2 DEF Below, Units
  <2> QED BY <1>1, <2>1
<1> QED BY ONLY <1>1, <1>2, <1>3, <1>4, <1>5, <1>6, Concat, RisingInRow, BelowInRow, BeforeInRow

\* What is said, buffered and queued is in the order it was spoken.
LEMMA LineInOrder == ASSUME TalkInv, sender \in Senders \cup {None} PROVE MicInOrder
<1> DEFINE buffer == IF sender = None THEN <<>> ELSE tx[sender]
<1>1. TalkTypes /\ MicInv /\ said \in Seq(Units) /\ Rising(said) /\ MicUnits \in Seq(Units)
  BY MicUnitsAre DEF TalkInv, TalkTypes, MicInv
<1>0. FirstInMic \in Nat /\ spoken \in Nat /\ DOMAIN MicUnits = 1 .. Len(MicUnits)
  BY <1>1, FirstType, MicUnitsAre DEF TalkTypes
<1>2. Rising((said \o buffer) \o MicUnits)
  <2>1. CASE sender = None
    <3>1. said \o <<>> = said
      BY <1>1
    <3>2. Rising(MicUnits)
      BY <1>0, <1>1, MicUnitsAre DEF Rising
    <3>3. Before(said, MicUnits)
      <4> SUFFICES ASSUME NEW i \in DOMAIN said, NEW j \in DOMAIN MicUnits
                   PROVE  said[i] < MicUnits[j]
        BY DEF Before
      <4>1. said[i] < FirstInMic /\ said[i] \in Nat
        BY <1>1 DEF MicInv, Below, Units
      <4>2. MicUnits[j] \in Nat /\ MicUnits[j] >= FirstInMic
        BY <1>0, <1>1, MicUnitsAre
      <4> QED BY <1>0, <4>1, <4>2
    <3> QED BY <1>1, <2>1, <3>1, <3>2, <3>3, RisingInRow
  <2>2. CASE sender # None
    <3>1. sender \in Senders /\ tx[sender] \in Seq(Units)
      BY <1>1, <2>2 DEF TalkTypes
    <3>2. Rising(tx[sender] \o MicUnits) /\ Before(said, tx[sender] \o MicUnits)
      BY <1>1, <3>1, AllInOrder
    <3>3. (said \o tx[sender]) \o MicUnits = said \o (tx[sender] \o MicUnits)
      BY <1>1, <3>1, Regroup
    <3>4. tx[sender] \o MicUnits \in Seq(Units)
      BY <1>1, <3>1
    <3> QED BY <1>1, <2>2, <3>2, <3>3, <3>4, RisingInRow
  <2> QED BY <2>1, <2>2
<1> QED BY <1>2 DEF MicInOrder, Rising

\* A unit's place in a buffer bounds its age.
LEMMA PlaceBoundsAge ==
  ASSUME NEW a \in Int, NEW i \in Nat \ {0}, a * Frame + i <= Cap
  PROVE  a < Cap \div Frame
<1> DEFINE q == Cap \div Frame
<1>1. Frame \in Nat \ {0} /\ Cap \in Nat /\ Cap % Frame = 0
  BY Numbers
<1>2. q \in Nat /\ Cap = q * Frame
  BY <1>1
<1> HIDE DEF q
<1>3. ASSUME a >= q PROVE FALSE
  <2>1. (a - q) \in Nat /\ a = q + (a - q)
    BY <1>2, <1>3
  <2>2. (a - q) * Frame >= 0 /\ (a - q) * Frame \in Int
    BY <1>1, <2>1
  <2>3. a * Frame = q * Frame + (a - q) * Frame
    BY <1>1, <1>2, <2>1
  <2> QED BY <1>1, <1>2, <2>2, <2>3
<1>4. a < q
  BY <1>2, <1>3
<1> QED BY <1>4 DEF q

LEMMA LagIsShort == ASSUME TalkInv PROVE TalkLatency
<1> SUFFICES ASSUME NEW s \in Senders, Len(tx[s]) >= Frame, NEW i \in DOMAIN tx[s]
             PROVE  ticks - spokeAt[tx[s][i]] < Cap \div Frame
  BY DEF TalkLatency
<1>1. TalkTypes /\ MicInv /\ tx[s] \in Seq(Units) /\ i \in 1 .. Len(tx[s])
  BY DEF TalkInv, TalkTypes
<1>2. tx[s][i] \in 1 .. spoken
  <2>1. tx[s][i] < FirstInMic /\ tx[s][i] \in Units
    BY <1>1 DEF MicInv, Below
  <2> QED BY <1>1, <2>1, FirstType DEF TalkTypes, Units
<1>3. (ticks - spokeAt[tx[s][i]]) * Frame + i <= Cap
  BY <1>1 DEF TalkInv, LagInv
<1>4. ticks - spokeAt[tx[s][i]] \in Int
  BY <1>1, <1>2 DEF TalkTypes
<1> QED BY <1>1, <1>3, <1>4, PlaceBoundsAge

LEMMA SenderStep == ASSUME QuietInv, SenderInv, TalkTypes, Next PROVE SenderInv'
<1>0. /\ pc \in [Tasks -> Places] /\ sender \in Senders \cup {None}
      /\ Senders \subseteq Tasks /\ {"keepalive", "decode"} \cap Senders = {}
      /\ None \notin Senders
  BY ConstantsAssumption DEF QuietInv, Tasks
<1>t. tx \in [Senders -> Seq(Units)]
  BY DEF TalkTypes
<1> USE DEF SenderInv
<1>1. CASE UNCHANGED <<running, stopping, pc, cancelled, sender, tx>>
  BY <1>1 DEF Live
<1>2. CASE (\E tcp \in BOOLEAN, f \in Fragments : Fragment(tcp, f))
           \/ (\E tcp \in BOOLEAN : SingleNal(tcp) \/ AudioPacket(tcp))
           \/ (\E w \in Waiters : GetFrame(w) \/ FrameReturned(w) \/ FrameTimesOut(w))
           \/ AttachBackchannel \/ (\E n \in Bursts : Speak(n))
  BY <1>1, <1>2 DEF Fragment, SingleNal, AudioPacket, GetFrame, FrameReturned, FrameTimesOut,
                    AttachBackchannel, Speak, taskVars, micVars
<1>3. CASE \E t \in Tasks : TaskCancelled(t)
  BY <1>3 DEF TaskCancelled, micVars
<1>4. CASE StartMedia \/ CodecLoaded \/ CodecMissing \/ Decodes \/ DecodeIdles \/ DecodeFails
           \/ \E n \in 0 .. 2 : FramesDecoded(n)
  <2>1. \E x \in Places : pc' = [pc EXCEPT !["decode"] = x]
    BY <1>4 DEF StartMedia, CodecLoaded, CodecMissing, Decodes, DecodeIdles, DecodeFails,
                FramesDecoded, Loop, Step, Places
  <2>2. UNCHANGED <<running, stopping, cancelled, sender, tx>>
    BY <1>4 DEF StartMedia, CodecLoaded, CodecMissing, Decodes, DecodeIdles, DecodeFails,
                FramesDecoded, micVars
  <2> QED BY <1>0, <2>1, <2>2 DEF Live
<1>5. CASE \E s \in Senders : FrameSent(s) \/ SenderEnds(s)
  BY <1>0, <1>5 DEF FrameSent, SenderEnds, Loop, Step, Live, micVars
<1>6. CASE \E s \in Senders : SendFrame(s)
  <2>1. PICK s \in Senders : SendFrame(s)
    BY <1>6
  <2>2. /\ Live(s) /\ UNCHANGED <<running, stopping, cancelled, sender>>
        /\ \E x \in {"busy", "ready"} : pc' = [pc EXCEPT ![s] = x]
        /\ \E q : tx' = [tx EXCEPT ![s] = q]
    BY <2>1 DEF SendFrame, Step, Live
  <2>3. s = sender
    BY <2>2 DEF QuietInv
  <2> QED BY <1>0, <1>t, <2>2, <2>3 DEF Live
<1>7. CASE \E s \in Senders : StartAudioSender(s)
  <2>1. PICK s \in Senders : StartAudioSender(s)
    BY <1>7
  <2>2. /\ stopping = "no" /\ sender = None /\ sender' = s /\ pc' = [pc EXCEPT ![s] = "ready"]
        /\ UNCHANGED <<running, stopping, cancelled, tx>>
    BY <2>1 DEF StartAudioSender, micVars
  <2> QED BY <1>0, <2>2 DEF Live
<1>8. CASE Stop \/ StopGoesOn
  <2>1. stopping' # "no"
    <3>1. CASE Stop
      BY <3>1, StopAdvances, 1 \in 1 .. 4 DEF Stop
    <3>2. CASE StopGoesOn
      <4>1. PICK i \in 1 .. 3 : StopFrom(i + 1)
        BY <3>2 DEF StopGoesOn
      <4>2. i + 1 \in 1 .. 4
        OBVIOUS
      <4> QED BY <4>1, <4>2, StopAdvances
    <3> QED BY <1>8, <3>1, <3>2
  <2> QED BY <1>8, <2>1 DEF Stop, StopGoesOn, micVars
<1> QED BY <1>2, <1>3, <1>4, <1>5, <1>6, <1>7, <1>8 DEF Next

\* The steps that neither speak nor send.
LEMMA OthersTalk ==
  ASSUME Next, ~AttachBackchannel, ~(\E n \in Bursts : Speak(n)),
         ~(\E s \in Senders : SendFrame(s))
  PROVE  UNCHANGED micVars
<1>1. CASE (\E tcp \in BOOLEAN, f \in Fragments : Fragment(tcp, f))
           \/ (\E tcp \in BOOLEAN : SingleNal(tcp) \/ AudioPacket(tcp))
           \/ (\E w \in Waiters : GetFrame(w) \/ FrameReturned(w) \/ FrameTimesOut(w))
  BY <1>1 DEF Fragment, SingleNal, AudioPacket, GetFrame, FrameReturned, FrameTimesOut
<1>2. CASE \E t \in Tasks : TaskCancelled(t)
  BY <1>2 DEF TaskCancelled
<1>3. CASE StartMedia \/ CodecLoaded \/ CodecMissing \/ Decodes \/ DecodeIdles \/ DecodeFails
           \/ \E n \in 0 .. 2 : FramesDecoded(n)
  BY <1>3 DEF StartMedia, CodecLoaded, CodecMissing, Decodes, DecodeIdles, DecodeFails,
              FramesDecoded
<1>4. CASE \E s \in Senders : StartAudioSender(s) \/ FrameSent(s) \/ SenderEnds(s)
  BY <1>4 DEF StartAudioSender, FrameSent, SenderEnds
<1>5. CASE Stop \/ StopGoesOn
  BY <1>5 DEF Stop, StopGoesOn
<1> QED BY <1>1, <1>2, <1>3, <1>4, <1>5 DEF Next

LEMMA TalkUnchanged ==
  ASSUME UNCHANGED micVars, TalkTypes, MicInv, LagInv
  PROVE  TalkTypes' /\ MicInv' /\ LagInv'
BY DEF micVars, TalkTypes, MicInv, LagInv, FirstInMic, Rising, Below, Before

LEMMA AttachTalk ==
  ASSUME TalkTypes, MicInv, LagInv, AttachBackchannel
  PROVE  TalkTypes' /\ MicInv' /\ LagInv'
<1>1. /\ ~attached /\ attached' = TRUE /\ spokeAt' = [i \in 1 .. spoken |-> ticks]
      /\ UNCHANGED <<mic, tx, spoken, ticks, said>>
  BY DEF AttachBackchannel
<1>2. TalkTypes'
  BY <1>1 DEF TalkTypes
<1>3. MicInv'
  BY <1>1 DEF MicInv, FirstInMic, Rising, Below, Before
<1>4. LagInv'
  <2>1. FirstInMic' = FirstInMic /\ FirstInMic \in 1 .. spoken + 1 /\ spoken \in Nat
    BY <1>1, FirstType DEF FirstInMic, TalkTypes
  <2>2. \A u \in FirstInMic .. spoken : u \in 1 .. spoken
    BY <2>1
  <2>3. \A s \in Senders : Len(tx[s]) < Frame
    BY <1>1, Numbers DEF LagInv
  <2>4. \A s \in Senders : ~(Len(tx[s]) >= Frame)
    BY <2>3, Numbers DEF TalkTypes
  <2> QED BY <1>1, <2>1, <2>2, <2>4 DEF LagInv
<1> QED BY <1>2, <1>3, <1>4

\* Units spoken later leave what is known of the earlier ones.
LEMMA Later ==
  ASSUME NEW p \in Seq(Nat), NEW q \in Seq(Nat)
  PROVE  /\ p \o q \in Seq(Nat) /\ Len(p \o q) = Len(p) + Len(q)
         /\ \A i \in 1 .. Len(p) : (p \o q)[i] = p[i]
         /\ \A i \in 1 .. Len(q) : (p \o q)[Len(p) + i] = q[i]
OBVIOUS

LEMMA SpeakTalk ==
  ASSUME TalkTypes, MicInv, LagInv, NEW n \in Bursts, Speak(n)
  PROVE  TalkTypes' /\ MicInv' /\ LagInv'
<1> DEFINE rest == IF Len(mic) = MicSize THEN Tail(mic) ELSE mic
           more == [i \in 1 .. n |-> ticks]
<1>1. /\ spoken' = spoken + n /\ spokeAt' = spokeAt \o more /\ mic' = Append(rest, spoken + 1)
      /\ UNCHANGED <<attached, tx, ticks, said>>
  BY DEF Speak
<1>2. /\ n \in Nat \ {0} /\ spoken \in Nat /\ ticks \in Nat /\ mic \in Seq(Units)
      /\ spokeAt \in Seq(Nat) /\ Len(spokeAt) = spoken
  BY Numbers DEF TalkTypes
<1>3. /\ rest \in Seq(Units) /\ Len(rest) \in {Len(mic), Len(mic) - 1}
      /\ \E d \in {0, 1} : Len(rest) = Len(mic) - d /\ \A i \in 1 .. Len(rest) : rest[i] = mic[i + d]
  <2>1. CASE Len(mic) = MicSize
    <3>1. mic # <<>> /\ rest = Tail(mic)
      BY <2>1, Numbers
    <3> QED BY <1>2, <3>1
  <2>2. CASE Len(mic) # MicSize
    BY <1>2, <2>2
  <2> QED BY <2>1, <2>2
<1>4. \A i \in 1 .. Len(mic) : mic[i] \in 1 .. spoken
  BY <1>2 DEF MicInv
<1>5. Rising(rest) /\ \A i \in 1 .. Len(rest) : rest[i] \in 1 .. spoken
  <2>1. PICK d \in {0, 1} : Len(rest) = Len(mic) - d /\ \A i \in 1 .. Len(rest) : rest[i] = mic[i + d]
    BY <1>3
  <2>2. \A i \in 1 .. Len(rest) : i + d \in 1 .. Len(mic)
    BY <1>2, <2>1
  <2> HIDE DEF rest
  <2>3. \A i, j \in 1 .. Len(rest) : i < j => rest[i] < rest[j]
    <3> SUFFICES ASSUME NEW i \in 1 .. Len(rest), NEW j \in 1 .. Len(rest), i < j
                 PROVE  rest[i] < rest[j]
      OBVIOUS
    <3>1. i + d < j + d /\ i + d \in 1 .. Len(mic) /\ j + d \in 1 .. Len(mic)
      BY <1>3, <2>2
    <3>2. mic[i + d] < mic[j + d]
      BY <1>2, <3>1 DEF MicInv, Rising
    <3> QED BY <2>1, <3>2
  <2>4. DOMAIN rest = 1 .. Len(rest)
    BY <1>3
  <2>5. Rising(rest)
    BY ONLY <2>3, <2>4 DEF Rising
  <2>6. \A i \in 1 .. Len(rest) : rest[i] \in 1 .. spoken
    BY ONLY <1>4, <2>1, <2>2
  <2> QED BY <2>5, <2>6
<1>d. rest \in Seq(Units) /\ Len(rest) \in Nat /\ DOMAIN rest = 1 .. Len(rest)
  BY <1>3
<1> HIDE DEF rest
<1>6. more \in Seq(Nat) /\ Len(more) = n /\ \A i \in 1 .. n : more[i] = ticks
  BY <1>2
<1> HIDE DEF more
<1>7. /\ spokeAt' \in Seq(Nat) /\ Len(spokeAt') = spoken'
      /\ \A u \in 1 .. spoken : spokeAt'[u] = spokeAt[u]
      /\ \A u \in spoken + 1 .. spoken' : spokeAt'[u] = ticks
  <2>1. /\ spokeAt' \in Seq(Nat) /\ Len(spokeAt') = spoken'
        /\ \A u \in 1 .. spoken : spokeAt'[u] = spokeAt[u]
        /\ \A i \in 1 .. n : spokeAt'[spoken + i] = ticks
    <3>1. n \in Nat /\ Len(more) = n
      BY <1>2, <1>6
    <3>2. /\ spokeAt \o more \in Seq(Nat) /\ Len(spokeAt \o more) = Len(spokeAt) + n
          /\ \A u \in 1 .. Len(spokeAt) : (spokeAt \o more)[u] = spokeAt[u]
          /\ \A i \in 1 .. n : (spokeAt \o more)[Len(spokeAt) + i] = more[i]
      <4>1. spokeAt \in Seq(Nat) /\ more \in Seq(Nat)
        BY <1>2, <1>6
      <4>2. /\ spokeAt \o more \in Seq(Nat) /\ Len(spokeAt \o more) = Len(spokeAt) + Len(more)
            /\ \A u \in 1 .. Len(spokeAt) : (spokeAt \o more)[u] = spokeAt[u]
            /\ \A i \in 1 .. Len(more) : (spokeAt \o more)[Len(spokeAt) + i] = more[i]
        BY ONLY <4>1, Later
      <4> QED BY ONLY <3>1, <4>2
    <3> QED BY ONLY <1>1, <1>2, <1>6, <3>2
  <2>2. ASSUME NEW u \in spoken + 1 .. spoken' PROVE spokeAt'[u] = ticks
    <3>1. u - spoken \in 1 .. n /\ spoken + (u - spoken) = u
      BY <1>1, <1>2
    <3> QED BY <2>1, <3>1
  <2> QED BY <2>1, <2>2
<1>8. mic' \in Seq(Units) /\ Len(mic') = Len(rest) + 1 /\ mic'[Len(rest) + 1] = spoken + 1
      /\ \A i \in 1 .. Len(rest) : mic'[i] = rest[i]
  BY <1>1, <1>2, <1>3 DEF Units
<1>9. FirstInMic' = (IF rest = <<>> THEN spoken + 1 ELSE rest[1]) /\ FirstInMic' \in 1 .. spoken + 1
  <2>1. mic' # <<>> /\ FirstInMic' = mic'[1]
    BY <1>8, <1>3 DEF FirstInMic
  <2>2. CASE rest = <<>>
    BY <1>2, <1>8, <2>1, <2>2
  <2>3. CASE rest # <<>>
    <3>1. 1 \in 1 .. Len(rest)
      BY <1>3, <2>3
    <3> QED BY <1>2, <1>5, <1>8, <2>1, <2>3, <3>1
  <2> QED BY <2>2, <2>3
<1>10. FirstInMic <= FirstInMic' /\ FirstInMic \in 1 .. spoken + 1
  <2>1. FirstInMic \in 1 .. spoken + 1
    BY FirstType
  <2>2. CASE rest = <<>>
    BY <1>2, <1>9, <2>1, <2>2
  <2>3. CASE rest # <<>>
    <3>1. 1 \in 1 .. Len(rest) /\ 1 \in 1 .. Len(mic) /\ mic # <<>> /\ FirstInMic = mic[1]
      BY <1>2, <1>3, <2>3 DEF FirstInMic
    <3>2. rest[1] = mic[1] \/ (2 \in 1 .. Len(mic) /\ rest[1] = mic[2])
      BY <1>2, <1>3, <3>1
    <3>3. rest[1] = mic[1] \/ mic[1] < rest[1]
      BY <1>2, <3>1, <3>2 DEF MicInv, Rising
    <3>4. mic[1] \in Nat /\ rest[1] \in Nat
      BY <1>4, <1>5, <3>1
    <3> QED BY ONLY <1>9, <2>1, <2>3, <3>1, <3>3, <3>4
  <2> QED BY <2>1, <2>2, <2>3
<1>a. TalkTypes'
  BY <1>1, <1>2, <1>7, <1>8 DEF TalkTypes
<1>b. MicInv'
  <2>1. Rising(mic')
    <3> SUFFICES ASSUME NEW i \in 1 .. Len(rest) + 1, NEW j \in 1 .. Len(rest) + 1, i < j
                 PROVE  mic'[i] < mic'[j]
      BY <1>8 DEF Rising
    <3>1. i \in 1 .. Len(rest)
      BY <1>d
    <3>2. CASE j \in 1 .. Len(rest)
      BY ONLY <1>d, <1>5, <1>8, <3>1, <3>2, i < j DEF Rising
    <3>3. CASE j = Len(rest) + 1
      <4>1. rest[i] \in 1 .. spoken
        BY <1>5, <3>1
      <4> QED BY <1>2, <1>8, <3>1, <3>3, <4>1
    <3> QED BY <1>d, <3>2, <3>3
  <2>2. \A i \in DOMAIN mic' : mic'[i] \in 1 .. spoken'
    <3> SUFFICES ASSUME NEW i \in 1 .. Len(rest) + 1 PROVE mic'[i] \in 1 .. spoken'
      BY <1>8
    <3>1. CASE i \in 1 .. Len(rest)
      BY <1>1, <1>2, <1>5, <1>8, <3>1
    <3>2. CASE i = Len(rest) + 1
      BY <1>1, <1>2, <1>8, <3>2
    <3> QED BY <1>3, <3>1, <3>2
  <2>3. ASSUME NEW q \in Seq(Units), Below(q, FirstInMic) PROVE Below(q, FirstInMic')
    <3> SUFFICES ASSUME NEW i \in DOMAIN q PROVE q[i] < FirstInMic'
      BY DEF Below
    <3>1. q[i] < FirstInMic /\ q[i] \in Nat
      BY <2>3 DEF Below, Units
    <3> QED BY <1>2, <1>9, <1>10, <3>1
  <2>4. said \in Seq(Units) /\ \A s \in Senders : tx[s] \in Seq(Units)
    BY DEF TalkTypes
  <2>5. Rising(said)' /\ \A s \in Senders : Rising(tx[s])' /\ Before(said, tx[s])'
    BY <1>1 DEF MicInv, Rising, Before
  <2>6. Below(said, FirstInMic') /\ \A s \in Senders : Below(tx[s], FirstInMic')
    BY <2>3, <2>4 DEF MicInv
  <2>7. Below(said, FirstInMic)' /\ \A s \in Senders : Below(tx[s], FirstInMic)'
    BY <1>1, <2>6 DEF Below
  <2>8. Rising(mic)'
    BY <2>1 DEF Rising
  <2> QED BY <2>2, <2>5, <2>7, <2>8 DEF MicInv
<1>c. LagInv'
  <2>1. attached' => \A u \in FirstInMic' .. spoken' : spokeAt'[u] = ticks'
    <3> SUFFICES ASSUME attached, NEW u \in FirstInMic' .. spoken' PROVE spokeAt'[u] = ticks
      BY <1>1
    <3>1. CASE u <= spoken
      <4>1. u \in FirstInMic .. spoken /\ u \in 1 .. spoken
        BY <1>1, <1>2, <1>9, <1>10, <3>1
      <4> QED BY <1>7, <4>1 DEF LagInv
    <3>2. CASE u > spoken
      <4>1. u \in spoken + 1 .. spoken'
        BY <1>1, <1>2, <1>9, <3>2
      <4> QED BY <1>7, <4>1
    <3>3. u \in Int /\ spoken \in Int
      BY <1>1, <1>2, <1>9
    <3> QED BY ONLY <3>1, <3>2, <3>3
  <2>2. ASSUME NEW s \in Senders, NEW i \in 1 .. Len(tx[s])
        PROVE  spokeAt'[tx[s][i]] = spokeAt[tx[s][i]]
    <3>1. tx[s] \in Seq(Units) /\ i \in DOMAIN tx[s]
      BY DEF TalkTypes
    <3>2. tx[s][i] < FirstInMic /\ tx[s][i] \in Units
      BY <3>1 DEF MicInv, Below
    <3>3. tx[s][i] \in 1 .. spoken
      BY <1>2, <1>10, <3>2 DEF Units
    <3> QED BY <1>7, <3>3
  <2> QED BY <1>1, <2>1, <2>2 DEF LagInv
<1> QED BY <1>a, <1>b, <1>c

\* The queue q ends with b.
EndsWith(q, b) ==
  \E d \in Nat : Len(q) = Len(b) + d /\ \A i \in 1 .. Len(b) : b[i] = q[d + i]

\* What a sender takes is the end of its buffer and the queue in a row: all of it, or what
\* the cut leaves, or, before there is a queue, nothing.
LEMMA DrainedIs ==
  ASSUME TalkTypes, MicInv, LagInv, NEW s \in Senders
  PROVE  /\ Drained(s) \in Seq(Units) /\ Len(Drained(s)) <= Cap
         /\ EndsWith(tx[s] \o MicUnits, Drained(s))
<1> DEFINE all == tx[s] \o MicUnits
<1>1. all \in Seq(Units)
  BY AllInOrder
<1>2. /\ Drained(s) = IF ~attached THEN tx[s]
                      ELSE IF Len(all) > Cap THEN SubSeq(all, Len(all) - Keep + 1, Len(all))
                      ELSE all
  BY DEF Drained
<1>3. ~attached => tx[s] = <<>>
  BY DEF LagInv
<1>4. Cap \in Nat \ {0} /\ Keep \in Nat \ {0} /\ Keep <= Cap
  BY Numbers
<1> HIDE DEF all
<1>5. CASE ~attached
  <2>1. Drained(s) = <<>> /\ Len(all) \in Nat /\ Len(all) = 0 + Len(all)
    BY <1>1, <1>2, <1>3, <1>5
  <2> QED BY <1>4, <2>1 DEF all, EndsWith
<1>6. CASE attached /\ Len(all) > Cap
  <2>1. Len(all) - Keep \in 0 .. Len(all) /\ Len(all) - Keep \in Nat
    BY <1>1, <1>4, <1>6
  <2>2. Drained(s) = SubSeq(all, (Len(all) - Keep) + 1, Len(all))
    BY <1>2, <1>6
  <2>3. /\ Drained(s) \in Seq(Units) /\ Len(Drained(s)) = Len(all) - (Len(all) - Keep)
        /\ \A i \in 1 .. Len(all) - (Len(all) - Keep) : Drained(s)[i] = all[(Len(all) - Keep) + i]
    BY ONLY <1>1, <2>1, <2>2, Suffix
  <2>4. Len(all) - (Len(all) - Keep) = Keep /\ Len(all) = Keep + (Len(all) - Keep)
    BY <1>1, <1>4
  <2> QED BY <1>4, <2>1, <2>3, <2>4 DEF all, EndsWith
<1>7. CASE attached /\ ~(Len(all) > Cap)
  <2>1. Drained(s) = all /\ Len(all) <= Cap /\ Len(all) = Len(all) + 0
        /\ \A i \in 1 .. Len(all) : all[i] = all[0 + i]
    BY <1>1, <1>2, <1>4, <1>7
  <2> QED BY <1>1, <2>1 DEF all, EndsWith
<1> QED BY <1>5, <1>6, <1>7

\* A suffix of what is in order is in order.
LEMMA DrainedInOrder ==
  ASSUME TalkTypes, MicInv, LagInv, NEW s \in Senders
  PROVE  /\ Rising(Drained(s)) /\ Below(Drained(s), spoken + 1) /\ Before(said, Drained(s))
<1> DEFINE all == tx[s] \o MicUnits
           b == Drained(s)
<1>1. /\ all \in Seq(Units) /\ Rising(all) /\ Below(all, spoken + 1) /\ Before(said, all)
      /\ said \in Seq(Units)
  BY AllInOrder DEF TalkTypes
<1>2. b \in Seq(Units) /\ DOMAIN b = 1 .. Len(b)
  BY DrainedIs
<1>e. EndsWith(all, b)
  BY DrainedIs
<1>3. PICK d \in Nat : Len(all) = Len(b) + d /\ \A i \in 1 .. Len(b) : b[i] = all[d + i]
  BY ONLY <1>e DEF EndsWith
<1> HIDE DEF all, b
<1>4. \A i \in 1 .. Len(b) : d + i \in DOMAIN all
  BY <1>1, <1>2, <1>3
<1>5. Rising(b)
  <2> SUFFICES ASSUME NEW i \in 1 .. Len(b), NEW j \in 1 .. Len(b), i < j PROVE b[i] < b[j]
    BY <1>2 DEF Rising
  <2>1. d + i < d + j /\ d + i \in DOMAIN all /\ d + j \in DOMAIN all
    BY <1>2, <1>3, <1>4
  <2> QED BY <1>1, <1>3, <2>1 DEF Rising
<1>6. Below(b, spoken + 1)
  BY ONLY <1>1, <1>2, <1>3, <1>4 DEF Below
<1>7. Before(said, b)
  BY ONLY <1>1, <1>2, <1>3, <1>4 DEF Before
<1> QED BY <1>5, <1>6, <1>7 DEF b

\* The place of a unit that is left when a frame is sent bounds how long it has waited:
\* either it was behind a whole frame before, or it came with the queue of this tick.
LEMMA DrainedAge ==
  ASSUME TalkTypes, MicInv, LagInv, NEW s \in Senders, NEW i \in Frame + 1 .. Len(Drained(s))
  PROVE  (ticks - spokeAt[Drained(s)[i]]) * Frame + i <= Cap
<1> DEFINE all == tx[s] \o MicUnits
           b == Drained(s)
<1>1. /\ Frame \in Nat \ {0} /\ Cap \in Nat /\ spoken \in Nat /\ ticks \in Nat
      /\ tx[s] \in Seq(Units) /\ MicUnits \in Seq(Units) /\ spokeAt \in Seq(Nat)
      /\ Len(spokeAt) = spoken /\ Len(tx[s]) \in Nat /\ Len(MicUnits) \in Nat
  BY Numbers, MicUnitsAre DEF TalkTypes
<1>2. b \in Seq(Units) /\ Len(b) \in Nat /\ Len(b) <= Cap /\ i \in 1 .. Len(b)
  BY <1>1, DrainedIs
<1>e. EndsWith(all, b)
  BY DrainedIs
<1>3. PICK d \in Nat : Len(all) = Len(b) + d /\ \A k \in 1 .. Len(b) : b[k] = all[d + k]
  BY ONLY <1>e DEF EndsWith
<1>4. /\ Len(all) = Len(tx[s]) + Len(MicUnits)
      /\ \A k \in 1 .. Len(tx[s]) : all[k] = tx[s][k]
      /\ \A k \in 1 .. Len(MicUnits) : all[Len(tx[s]) + k] = MicUnits[k]
  BY <1>1, Concat
<1>5. attached
  <2>1. CASE ~attached
    <3>1. b = <<>>
      BY <2>1 DEF LagInv, Drained
    <3> QED BY <1>2, <3>1
  <2> QED BY <2>1
<1> HIDE DEF all, b
<1>6. CASE d + i <= Len(tx[s])
  <2>1. d + i \in 1 .. Len(tx[s]) /\ Len(tx[s]) >= Frame
    BY <1>1, <1>2, <1>3, <1>6
  <2>2. b[i] = tx[s][d + i]
    BY <1>2, <1>3, <1>4, <2>1
  <2>3. (ticks - spokeAt[b[i]]) * Frame + (d + i) <= Cap
    BY <2>1, <2>2 DEF LagInv
  <2>4. b[i] \in 1 .. spoken
    <3>1. tx[s][d + i] < FirstInMic /\ tx[s][d + i] \in Units
      BY <1>1, <2>1 DEF MicInv, Below
    <3>2. FirstInMic \in 1 .. spoken + 1 /\ spoken \in Nat
      BY <1>1, FirstType
    <3> QED BY ONLY <2>2, <3>1, <3>2 DEF Units
  <2>5. spokeAt[b[i]] \in Nat
    BY <1>1, <2>4
  <2>6. (ticks - spokeAt[b[i]]) * Frame \in Int /\ d \in Nat /\ i \in Nat /\ Cap \in Nat
    BY <1>1, <1>2, <2>5
  <2>7. (ticks - spokeAt[b[i]]) * Frame + i <= Cap
    <3> DEFINE x == (ticks - spokeAt[b[i]]) * Frame
    <3>1. x + (d + i) <= Cap /\ x \in Int /\ d \in Nat /\ i \in Nat /\ Cap \in Nat
      BY <2>3, <2>6
    <3> HIDE DEF x
    <3>2. x + i <= Cap
      BY ONLY <3>1
    <3> QED BY <3>2 DEF x
  <2> QED BY <2>7 DEF b
<1>7. CASE d + i > Len(tx[s])
  <2> DEFINE k == d + i - Len(tx[s])
  <2>1. k \in 1 .. Len(MicUnits) /\ Len(tx[s]) + k = d + i
    BY <1>1, <1>2, <1>3, <1>4, <1>7
  <2> HIDE DEF k
  <2>2. b[i] = MicUnits[k]
    BY <1>2, <1>3, <1>4, <2>1
  <2>3. b[i] \in FirstInMic .. spoken
    BY <2>1, <2>2, MicUnitsAre
  <2>4. spokeAt[b[i]] = ticks
    BY <1>5, <2>3 DEF LagInv
  <2>5. (ticks - spokeAt[b[i]]) * Frame = 0
    BY <1>1, <2>4
  <2>6. (ticks - spokeAt[b[i]]) * Frame + i <= Cap
    BY ONLY <1>1, <1>2, <2>5
  <2> QED BY <2>6 DEF b
<1> QED BY <1>1, <1>2, <1>3, <1>6, <1>7

LEMMA LagGrows ==
  ASSUME NEW t \in Nat, NEW q \in Nat, NEW f \in Nat, NEW i \in Nat, NEW c \in Nat,
         (t - q) * f + (f + i) <= c
  PROVE  (t + 1 - q) * f + i <= c
<1>1. (t + 1 - q) * f = (t - q) * f + f
  OBVIOUS
<1>2. (t - q) * f \in Int
  OBVIOUS
<1> QED BY <1>1, <1>2

\* Each tick takes at most one frame from the front of what was drained.
LEMMA SendTalk ==
  ASSUME TalkTypes, MicInv, LagInv, NEW s \in Senders, SendFrame(s),
         \A u \in Senders : u # s => tx[u] = <<>>
  PROVE  TalkTypes' /\ MicInv' /\ LagInv'
<1> DEFINE b == Drained(s)
           n == IF Len(b) >= Frame THEN Frame ELSE 0
           gone == SubSeq(b, 1, n)
           left == SubSeq(b, n + 1, Len(b))
<1>1. /\ mic' = (IF attached THEN <<>> ELSE mic) /\ tx' = [tx EXCEPT ![s] = left]
      /\ said' = said \o gone /\ ticks' = ticks + 1
      /\ UNCHANGED <<attached, spoken, spokeAt>>
  BY DEF SendFrame
<1>2. /\ b \in Seq(Units) /\ Rising(b) /\ Below(b, spoken + 1) /\ Before(said, b)
      /\ Frame \in Nat \ {0} /\ Cap \in Nat /\ spoken \in Nat /\ ticks \in Nat
      /\ said \in Seq(Units) /\ tx \in [Senders -> Seq(Units)] /\ spokeAt \in Seq(Nat)
      /\ Len(spokeAt) = spoken
  BY DrainedIs, DrainedInOrder, Numbers DEF TalkTypes
<1>3. \A i \in Frame + 1 .. Len(b) : (ticks - spokeAt[b[i]]) * Frame + i <= Cap
  BY DrainedAge
<1>4. ~attached => b = <<>>
  BY DEF LagInv, Drained
<1> HIDE DEF b
<1>5. n \in 0 .. Len(b) /\ n \in Nat
  BY <1>2
<1>6. /\ gone \in Seq(Units) /\ Len(gone) = n /\ DOMAIN gone = 1 .. n
      /\ \A i \in 1 .. n : gone[i] = b[i]
  <2> HIDE DEF n
  <2>1. gone \in Seq(Units) /\ Len(gone) = n /\ \A i \in 1 .. n : gone[i] = b[i]
    BY ONLY <1>2, <1>5, Start
  <2> HIDE DEF gone
  <2> QED BY <1>5, <2>1
<1>7. /\ left \in Seq(Units) /\ Len(left) = Len(b) - n /\ DOMAIN left = 1 .. Len(b) - n
      /\ \A i \in 1 .. Len(b) - n : left[i] = b[n + i]
  <2> HIDE DEF n
  <2>1. left \in Seq(Units) /\ Len(left) = Len(b) - n /\ \A i \in 1 .. Len(b) - n : left[i] = b[n + i]
    BY ONLY <1>2, <1>5, Suffix
  <2> HIDE DEF left
  <2> QED BY <1>5, <2>1
<1>n. n = Frame \/ (n = 0 /\ Len(b) < Frame)
  BY <1>2
<1> HIDE DEF n, gone, left
<1>8. Rising(gone) /\ Rising(left) /\ Before(gone, left)
  <2>1. \A i \in 1 .. n : i \in DOMAIN b
    BY <1>2, <1>5
  <2>2. \A i \in 1 .. Len(b) - n : n + i \in DOMAIN b
    BY <1>2, <1>5
  <2>3. Rising(gone)
    BY ONLY <1>2, <1>6, <2>1 DEF Rising
  <2>4. Rising(left)
    <3> SUFFICES ASSUME NEW i \in 1 .. Len(b) - n, NEW j \in 1 .. Len(b) - n, i < j
                 PROVE  left[i] < left[j]
      BY <1>7 DEF Rising
    <3>1. n + i < n + j /\ n + i \in DOMAIN b /\ n + j \in DOMAIN b
      BY <1>2, <1>5, <2>2
    <3> QED BY <1>2, <1>7, <3>1 DEF Rising
  <2>5. Before(gone, left)
    <3> SUFFICES ASSUME NEW i \in 1 .. n, NEW j \in 1 .. Len(b) - n PROVE gone[i] < left[j]
      BY <1>6, <1>7 DEF Before
    <3>1. i < n + j /\ i \in DOMAIN b /\ n + j \in DOMAIN b
      BY <1>2, <1>5, <2>1, <2>2
    <3> QED BY <1>2, <1>6, <1>7, <3>1 DEF Rising
  <2> QED BY <2>3, <2>4, <2>5
<1>9. Below(gone, spoken + 1) /\ Below(left, spoken + 1)
  <2>1. \A i \in 1 .. n : i \in DOMAIN b
    BY <1>2, <1>5
  <2>2. \A i \in 1 .. Len(b) - n : n + i \in DOMAIN b
    BY <1>2, <1>5
  <2>3. Below(gone, spoken + 1)
    BY ONLY <1>2, <1>6, <2>1 DEF Below
  <2>4. Below(left, spoken + 1)
    BY ONLY <1>2, <1>7, <2>2 DEF Below
  <2> QED BY <2>3, <2>4
<1>10. Before(said, gone) /\ Before(said, left)
  <2>1. \A i \in 1 .. n : i \in DOMAIN b
    BY <1>2, <1>5
  <2>2. \A i \in 1 .. Len(b) - n : n + i \in DOMAIN b
    BY <1>2, <1>5
  <2>3. Before(said, gone)
    BY ONLY <1>2, <1>6, <2>1 DEF Before
  <2>4. Before(said, left)
    BY ONLY <1>2, <1>7, <2>2 DEF Before
  <2> QED BY <2>3, <2>4
<1>11. Rising(said \o gone) /\ said \o gone \in Seq(Units) /\ Before(said \o gone, left)
  <2>1. Rising(said) /\ said \o gone \in Seq(Units)
    BY <1>2, <1>6 DEF MicInv
  <2>2. Rising(said \o gone)
    BY ONLY <1>2, <1>6, <1>8, <1>10, <2>1, RisingInRow
  <2>3. Before(said \o gone, left)
    <3>d. DOMAIN (said \o gone) = 1 .. Len(said) + Len(gone)
      <4>1. said \o gone \in Seq(Units) /\ Len(said \o gone) = Len(said) + Len(gone)
        BY ONLY <1>2, <1>6, Concat
      <4> QED BY ONLY <4>1
    <3> SUFFICES ASSUME NEW i \in 1 .. Len(said) + Len(gone), NEW j \in DOMAIN left
                 PROVE  (said \o gone)[i] < left[j]
      BY <3>d, Zenon DEF Before
    <3>1. CASE i <= Len(said)
      <4>1. i \in DOMAIN said /\ (said \o gone)[i] = said[i]
        BY <1>2, <1>6, <3>1
      <4> QED BY <1>10, <4>1 DEF Before
    <3>2. CASE i > Len(said)
      <4>1. i - Len(said) \in 1 .. n /\ Len(said) + (i - Len(said)) = i
        BY <1>2, <1>5, <1>6, <3>2
      <4>2. (said \o gone)[i] = gone[i - Len(said)]
        BY <1>2, <1>6, <4>1, Concat
      <4> QED BY <1>6, <1>8, <4>1, <4>2 DEF Before
    <3> QED BY <1>2, <3>1, <3>2
  <2> QED BY <2>1, <2>2, <2>3
<1>12. /\ tx'[s] = left /\ \A u \in Senders : u # s => tx'[u] = <<>>
       /\ tx' \in [Senders -> Seq(Units)]
  BY <1>1, <1>2, <1>7
<1>a. TalkTypes'
  <2>1. mic \in Seq(Units) /\ attached \in BOOLEAN
    BY DEF TalkTypes
  <2>2. mic' \in Seq(Units)
    BY <1>1, <2>1
  <2> QED BY <1>1, <1>2, <1>11, <1>12, <2>1, <2>2 DEF TalkTypes
<1>b. MicInv'
  <2>1. Rising(mic)' /\ \A i \in DOMAIN mic' : mic'[i] \in 1 .. spoken'
    <3>1. CASE attached
      BY <1>1, <3>1 DEF Rising
    <3>2. CASE ~attached
      BY <1>1, <3>2 DEF MicInv, Rising
    <3> QED BY <3>1, <3>2
  <2>2. Rising(said)'
    BY <1>1, <1>11 DEF Rising
  <2>3. Below(said \o gone, FirstInMic') /\ Below(left, FirstInMic')
    <3>1. CASE attached
      <4>1. FirstInMic' = spoken + 1
        BY <1>1, <3>1 DEF FirstInMic
      <4>2. Below(said, spoken + 1)
        <5> SUFFICES ASSUME NEW i \in DOMAIN said PROVE said[i] < spoken + 1
          BY DEF Below
        <5>1. said[i] < FirstInMic /\ said[i] \in Nat
          BY <1>2 DEF MicInv, Below, Units
        <5> QED BY <1>2, <5>1, FirstType
      <4>3. Below(said \o gone, spoken + 1)
        BY ONLY <1>2, <1>6, <1>9, <4>2, BelowInRow
      <4> QED BY <1>9, <4>1, <4>3
    <3>2. CASE ~attached
      <4>1. b = <<>> /\ n = 0 /\ FirstInMic' = FirstInMic
        BY <1>1, <1>4, <1>5, <3>2 DEF FirstInMic
      <4>2. gone = <<>> /\ left = <<>>
        BY <1>6, <1>7, <4>1
      <4>3. said \o gone = said
        BY <1>2, <4>2
      <4>4. Below(said, FirstInMic)
        BY DEF MicInv
      <4> QED BY <4>1, <4>2, <4>3, <4>4 DEF Below
    <3> QED BY <3>1, <3>2
  <2>4. Below(said, FirstInMic)'
    BY <1>1, <2>3 DEF Below
  <2>5. ASSUME NEW u \in Senders
        PROVE  Rising(tx[u])' /\ Below(tx[u], FirstInMic)' /\ Before(said, tx[u])'
    <3>1. CASE u = s
      BY <1>1, <1>8, <1>11, <1>12, <2>3, <3>1 DEF Rising, Below, Before
    <3>2. CASE u # s
      <4>1. tx'[u] = <<>>
        BY <1>12, <3>2
      <4> QED BY <4>1 DEF Rising, Below, Before
    <3> QED BY <3>1, <3>2
  <2> QED BY <2>1, <2>2, <2>4, <2>5 DEF MicInv
<1>c. LagInv'
  <2>1. attached' => \A u \in FirstInMic' .. spoken' : spokeAt'[u] = ticks'
    <3> SUFFICES ASSUME attached PROVE \A u \in FirstInMic' .. spoken' : FALSE
      BY <1>1
    <3>1. FirstInMic' = spoken + 1 /\ spoken' = spoken
      BY <1>1 DEF FirstInMic
    <3> QED BY <1>2, <3>1
  <2>2. ~attached' => \A u \in Senders : tx'[u] = <<>>
    <3> SUFFICES ASSUME ~attached PROVE left = <<>>
      BY <1>1, <1>12
    <3>1. Len(left) = 0
      BY <1>4, <1>5, <1>7
    <3> QED BY <1>7, <3>1
  <2>3. ASSUME NEW u \in Senders, Len(tx'[u]) >= Frame, NEW i \in 1 .. Len(tx'[u])
        PROVE  (ticks' - spokeAt'[tx'[u][i]]) * Frame + i <= Cap
    <3>1. u = s
      BY <1>2, <1>12, <2>3
    <3>2. Len(left) >= Frame /\ i \in 1 .. Len(left)
      BY <1>12, <2>3, <3>1
    <3>3. n = Frame /\ n + i \in Frame + 1 .. Len(b) /\ n + i \in DOMAIN b
      BY <1>2, <1>5, <1>7, <1>n, <3>2
    <3>4. (ticks - spokeAt[b[n + i]]) * Frame + (Frame + i) <= Cap
      BY <1>3, <3>3
    <3>5. tx'[u][i] = b[n + i]
      BY <1>7, <1>12, <3>1, <3>2
    <3>6. spokeAt[b[n + i]] \in Nat
      <4>1. b[n + i] \in Units /\ b[n + i] < spoken + 1
        BY <1>2, <3>3 DEF Below
      <4>2. b[n + i] \in 1 .. Len(spokeAt)
        BY <1>2, <4>1 DEF Units
      <4>3. spokeAt \in Seq(Nat)
        BY <1>2
      <4> QED BY ONLY <4>2, <4>3
    <3>7. ticks' = ticks + 1 /\ spokeAt'[tx'[u][i]] = spokeAt[b[n + i]]
      <4>1. ticks' = ticks + 1 /\ spokeAt' = spokeAt
        BY <1>1
      <4>2. spokeAt'[tx'[u][i]] = spokeAt[b[n + i]]
        BY <3>5, <4>1, Zenon
      <4> QED BY <4>1, <4>2
    <3>8. i \in Nat /\ Frame \in Nat /\ ticks \in Nat /\ Cap \in Nat
      BY <1>2, <1>7, <3>2
    <3>9. (ticks + 1 - spokeAt[b[n + i]]) * Frame + i <= Cap
      BY ONLY <3>3, <3>4, <3>6, <3>8, LagGrows
    <3>a. ticks' \in Nat /\ spokeAt'[tx'[u][i]] \in Nat
      BY <3>6, <3>7, <3>8
    <3>b. ticks' - spokeAt'[tx'[u][i]] = ticks + 1 - spokeAt[b[n + i]]
      BY ONLY <3>6, <3>7, <3>8, <3>a
    <3> QED BY ONLY <3>9, <3>b
  <2> QED BY <2>1, <2>2, <2>3 DEF LagInv
<1> QED BY <1>a, <1>b, <1>c

LEMMA TalkStep == ASSUME QuietInv, TalkInv, [Next]_vars PROVE TalkInv'
<1>0. TalkTypes /\ SenderInv /\ MicInv /\ LagInv
  BY DEF TalkInv
<1>1. CASE UNCHANGED vars
  <2>1. SenderInv'
    BY <1>0, <1>1 DEF SenderInv, Live, vars, taskVars, micVars
  <2> QED BY <1>0, <1>1, <2>1, TalkUnchanged DEF TalkInv, vars
<1>2. CASE Next
  <2>1. SenderInv'
    BY <1>0, <1>2, SenderStep
  <2>2. TalkTypes' /\ MicInv' /\ LagInv'
    <3>1. CASE AttachBackchannel
      BY <1>0, <3>1, AttachTalk
    <3>2. CASE \E n \in Bursts : Speak(n)
      BY <1>0, <3>2, SpeakTalk
    <3>3. CASE \E s \in Senders : SendFrame(s)
      <4>1. PICK s \in Senders : SendFrame(s)
        BY <3>3
      <4>2. s = sender
        BY <4>1 DEF SendFrame, Step, QuietInv, Live
      <4>3. \A u \in Senders : u # s => tx[u] = <<>>
        BY <1>0, <4>2 DEF SenderInv
      <4> QED BY <1>0, <4>1, <4>3, SendTalk
    <3>4. CASE /\ ~AttachBackchannel /\ ~(\E n \in Bursts : Speak(n))
               /\ ~(\E s \in Senders : SendFrame(s))
      BY <1>0, <1>2, <3>4, OthersTalk, TalkUnchanged
    <3> QED BY <3>1, <3>2, <3>3, <3>4
  <2> QED BY <2>1, <2>2 DEF TalkInv
<1> QED BY <1>1, <1>2

LEMMA TalkStarts == ASSUME Init PROVE QuietInv /\ TalkInv
<1>1. QuietInv
  BY ConstantsAssumption DEF Init, QuietInv, Places, Live, Tasks
<1>2. TalkTypes
  <2>1. <<>> \in Seq(Units) /\ <<>> \in Seq(Nat) /\ Len(<<>>) = 0
    OBVIOUS
  <2>2. tx \in [Senders -> Seq(Units)]
    BY <2>1 DEF Init
  <2> QED BY <2>1, <2>2 DEF Init, TalkTypes
<1>3. SenderInv
  BY ConstantsAssumption DEF Init, SenderInv
<1>4. MicInv
  BY DEF Init, MicInv, Rising, Below, Before
<1>5. LagInv
  BY Numbers DEF Init, LagInv
<1> QED BY <1>1, <1>2, <1>3, <1>4, <1>5 DEF TalkInv

\* What is said, buffered and queued for the device is in the order it was spoken, nothing
\* twice, for any number of senders, packets of any length and any sizes of the buffers
\* (start_audio_sender, _audio_send_loop).
THEOREM TalkOrdered == Spec => []MicInOrder
<1>1. QuietInv /\ TalkInv /\ [Next]_vars => QuietInv' /\ TalkInv'
  BY QuietStep, TalkStep
<1>2. QuietInv /\ TalkInv => MicInOrder
  BY LineInOrder DEF QuietInv
<1> QED BY <1>1, <1>2, TalkStarts, PTL DEF Spec

\* Once a frame's worth is buffered every unit in it was queued less than Cap \div Frame
\* ticks ago, however the microphone's packets come (the cut of tx_buf).
THEOREM TalkTimely == Spec => []TalkLatency
<1>1. QuietInv /\ TalkInv /\ [Next]_vars => QuietInv' /\ TalkInv'
  BY QuietStep, TalkStep
<1>2. TalkInv => TalkLatency
  BY LagIsShort
<1> QED BY <1>1, <1>2, TalkStarts, PTL DEF Spec
=============================================================================
