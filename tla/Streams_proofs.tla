--------------------------- MODULE Streams_proofs ---------------------------
(***************************************************************************)
(* Proofs about the two streams that come in from the host: the flow       *)
(* control of the SID frames (SidFlow), for every size of the queue and    *)
(* every threshold that leaves room for what is on the way, and the MIDI   *)
(* parser (MidiStream), for every stream of bytes.                         *)
(***************************************************************************)
EXTENDS SidFlow, MidiStream, SequenceTheorems, TLAPS

(* SidFlow *)

\* What the MIN task knows of the host while nothing has been refused: the last control
\* it queued is the one it remembers, and a stop that is still on the way has room left
\* for all the host sends before it has read it, twice over when a start comes first.
Controlled ==
    \/ /\ flowCtl /\ control \in {<<>>, <<"start">>, <<"stop", "start">>}
       /\ frames <= Capacity - StopBelow + Batch
    \/ /\ ~flowCtl /\ control = <<>> /\ ~sending
       /\ frames + onWay <= Capacity
    \/ /\ ~flowCtl /\ control = <<"stop">>
       /\ frames + onWay + (Slack - extra) <= Capacity
    \/ /\ ~flowCtl /\ control = <<"start", "stop">>
       /\ frames + onWay + (Slack - extra) + Slack <= Capacity

\* As long as nothing is strained, one of the stages of the control holds.
FlowInv ==
    /\ FlowTypeOK /\ NothingDropped
    /\ ~inSid => strained
    /\ ~strained => Controlled

\* Two characters, one queued after the other.
LEMMA AppendOne ==
  \A a, b \in {"stop", "start"} : Append(<<a>>, b) = <<a, b>>
<1> SUFFICES ASSUME NEW a \in {"stop", "start"}, NEW b \in {"stop", "start"}
             PROVE  Append(<<a>>, b) = <<a, b>>
  OBVIOUS
<1>1. <<a>> \in Seq({"stop", "start"}) /\ Len(<<a>>) = 1 /\ <<a>>[1] = a
  OBVIOUS
<1>2. /\ Append(<<a>>, b) \in Seq({"stop", "start"}) /\ Len(Append(<<a>>, b)) = 2
      /\ Append(<<a>>, b)[1] = a /\ Append(<<a>>, b)[2] = b
  BY <1>1, AppendProperties
<1>3. <<a, b>> \in Seq({"stop", "start"}) /\ Len(<<a, b>>) = 2 /\ <<a, b>>[1] = a /\ <<a, b>>[2] = b
  OBVIOUS
<1>4. \A i \in 1 .. Len(Append(<<a>>, b)) : Append(<<a>>, b)[i] = <<a, b>>[i]
  <2>1. \A i \in 1 .. 2 : i = 1 \/ i = 2
    OBVIOUS
  <2> QED BY <1>2, <1>3, <2>1
<1> QED BY <1>2, <1>3, <1>4, SeqEqual

\* Which controls follow when one is queued or read.
LEMMA ControlSequences ==
  /\ Append(<<>>, "start") = <<"start">> /\ Append(<<>>, "stop") = <<"stop">>
  /\ Append(<<"start">>, "stop") = <<"start", "stop">>
  /\ Append(<<"stop">>, "start") = <<"stop", "start">>
  /\ Len(<<"stop", "start">>) = 2 /\ Len(<<"start", "stop">>) = 2
  /\ Tail(<<"start">>) = <<>> /\ Tail(<<"stop">>) = <<>>
  /\ Tail(<<"stop", "start">>) = <<"start">> /\ Tail(<<"start", "stop">>) = <<"stop">>
  /\ Head(<<"stop">>) = "stop" /\ <<"stop">>[1] = "stop" /\ <<"start", "stop">>[2] = "stop"
  /\ DOMAIN <<"stop">> = {1} /\ DOMAIN <<"start", "stop">> = {1, 2}
<1>1. Append(<<>>, "start") = <<"start">> /\ Append(<<>>, "stop") = <<"stop">>
  OBVIOUS
<1>2. Append(<<"start">>, "stop") = <<"start", "stop">>
  BY AppendOne
<1>3. Append(<<"stop">>, "start") = <<"stop", "start">>
  BY AppendOne
<1>4. Len(<<"stop", "start">>) = 2 /\ Len(<<"start", "stop">>) = 2
  OBVIOUS
<1>5. Tail(<<"start">>) = <<>> /\ Tail(<<"stop">>) = <<>>
  OBVIOUS
<1>6. Tail(<<"stop", "start">>) = <<"start">>
  OBVIOUS
<1>7. Tail(<<"start", "stop">>) = <<"stop">>
  OBVIOUS
<1>8. Head(<<"stop">>) = "stop" /\ <<"stop">>[1] = "stop" /\ <<"start", "stop">>[2] = "stop"
  OBVIOUS
<1>9. DOMAIN <<"stop">> = {1} /\ DOMAIN <<"start", "stop">> = {1, 2}
  OBVIOUS
<1> QED BY <1>1, <1>2, <1>3, <1>4, <1>5, <1>6, <1>7, <1>8, <1>9

\* The sizes, each by itself.
LEMMA FlowSizes ==
  /\ Capacity \in Nat /\ StopBelow \in Nat /\ StartAbove \in Nat /\ RepeatAbove \in Nat
  /\ Batch \in Nat /\ Slack \in Nat
  /\ StopBelow <= StartAbove /\ StartAbove <= RepeatAbove /\ RepeatAbove < Capacity
  /\ 2 * (Batch + Slack) < StopBelow
BY SidFlowAssumption

\* Queueing a control keeps the ring within its two places.
LEMMA QueueType ==
  ASSUME FlowTypeOK, NEW c \in {"stop", "start"}, Queue(c)
  PROVE  /\ control' \in Seq({"stop", "start"}) /\ Len(control') <= 2
         /\ strained' \in BOOLEAN
         /\ strained' = FALSE => /\ strained = FALSE /\ Len(control) < 2
                                 /\ control' = Append(control, c)
<1>1. control \in Seq({"stop", "start"}) /\ strained \in BOOLEAN
  BY DEF FlowTypeOK
<1>2. CASE Len(control) < 2 /\ control' = Append(control, c) /\ UNCHANGED strained
  <2>1. Append(control, c) \in Seq({"stop", "start"}) /\ Len(Append(control, c)) = Len(control) + 1
    BY <1>1
  <2> QED BY <1>1, <1>2, <2>1
<1>3. CASE control' = control /\ strained' = TRUE
  BY <1>1, <1>3 DEF FlowTypeOK
<1> QED BY <1>2, <1>3 DEF Queue

\* A round of the MIN task finds room for all that has come in.
LEMMA RoundKeepsFlow ==
  ASSUME FlowInv, MinRound
  PROVE  FlowInv'
<1>1. /\ frames \in Nat /\ frames <= Capacity /\ onWay \in Nat /\ onWay <= Batch
      /\ extra \in Nat /\ extra <= Slack /\ control \in Seq({"stop", "start"}) /\ Len(control) <= 2
      /\ strained \in BOOLEAN /\ flowCtl \in BOOLEAN /\ sending \in BOOLEAN /\ due \in BOOLEAN
      /\ inSid \in BOOLEAN /\ dropped = FALSE
  BY FlowSizes DEF FlowInv, FlowTypeOK, NothingDropped
<1>a. /\ frames \in Nat /\ onWay \in Nat /\ onWay <= Batch /\ extra \in Nat /\ extra <= Slack
      /\ extra' = extra /\ onWay' = 0 /\ frames <= Capacity
  BY <1>1 DEF MinRound, Receive
<1>b. ASSUME frames + onWay <= Capacity
      PROVE  frames' = frames + onWay /\ dropped' = FALSE
  <2>1. ~(frames + onWay > Capacity)
    BY <1>a, <1>b, FlowSizes
  <2> QED BY <2>1, <1>1 DEF MinRound, Receive
<1>2. /\ frames' = IF frames + onWay > Capacity THEN Capacity ELSE frames + onWay
      /\ dropped' = (dropped \/ (frames + onWay > Capacity /\ ~strained'))
      /\ onWay' = 0 /\ UNCHANGED <<extra, inSid>>
  BY DEF MinRound, Receive
<1>3. frames' \in 0 .. Capacity
  BY <1>1, <1>2, FlowSizes
<1>4. /\ control' \in Seq({"stop", "start"}) /\ Len(control') <= 2
      /\ {flowCtl', sending', due', strained'} \subseteq BOOLEAN
      /\ strained => strained'
  <2>1. CASE Stop
    <3>1. Queue("stop")
      BY <2>1 DEF Stop
    <3> QED BY <2>1, <3>1, <1>1, QueueType DEF Stop, FlowInv
  <2>2. CASE Start
    <3>1. Queue("start")
      BY <2>2 DEF Start
    <3> QED BY <2>2, <3>1, <1>1, QueueType DEF Start, FlowInv
  <2>3. CASE Repeat
    BY <2>3, <1>1 DEF Repeat
  <2>4. CASE UNCHANGED <<flowCtl, control, sending, due, strained>>
    BY <2>4, <1>1
  <2> QED BY <2>1, <2>2, <2>3, <2>4 DEF MinRound, Enough
<1>5. ASSUME strained' = FALSE
      PROVE  Controlled' /\ dropped' = FALSE
  <2>1. strained = FALSE /\ inSid /\ Controlled
    BY <1>1, <1>4, <1>5 DEF FlowInv
  <2>2. CASE Stop
    <3>1. /\ frames + onWay <= Capacity - StopBelow + 2 * Batch
          /\ control \in {<<>>, <<"start">>, <<"stop", "start">>}
      <4>1. flowCtl
        BY <2>2 DEF Stop, StopDue
      <4>2. /\ control \in {<<>>, <<"start">>, <<"stop", "start">>}
            /\ frames <= Capacity - StopBelow + Batch
        BY <4>1, <2>1 DEF Controlled
      <4> QED BY <4>2, <1>1, FlowSizes
    <3>2. control' = Append(control, "stop") /\ Len(control) < 2 /\ flowCtl' = FALSE
      BY <2>2, <1>5, QueueType DEF Stop, FlowInv
    <3>3. control' \in {<<"stop">>, <<"start", "stop">>}
      <4>1. control # <<"stop", "start">>
        <5>1. Len(<<"stop", "start">>) = 2 /\ ~(2 < 2)
          BY ControlSequences
        <5> QED BY <5>1, <3>2
      <4> QED BY <4>1, <3>1, <3>2, ControlSequences
    <3>a. frames + onWay <= Capacity - StopBelow + 2 * Batch
      BY <3>1
    <3>b. frames + onWay <= Capacity
      BY <3>a, <1>a, FlowSizes
    <3>4. frames' = frames + onWay /\ dropped' = FALSE
      BY <3>b, <1>b
    <3>c. frames' = frames + onWay
      BY <3>4
    <3>5. frames' + onWay' + (Slack - extra') + Slack <= Capacity
      BY <3>a, <3>c, <1>a, FlowSizes
    <3>6. frames' + onWay' + (Slack - extra') <= Capacity
      BY <3>c, <3>5, <1>a, FlowSizes
    <3> QED BY <3>2, <3>3, <3>4, <3>5, <3>6 DEF Controlled
  <2>3. CASE Start
    <3>1. frames < Capacity - StartAbove /\ ~flowCtl
      BY <2>3, <1>1, FlowSizes DEF Start, StartDue, Free
    <3>2. control' = Append(control, "start") /\ Len(control) < 2 /\ flowCtl' = TRUE
      BY <2>3, <1>5, QueueType DEF Start, FlowInv
    <3>3. control \in {<<>>, <<"stop">>}
      BY <3>1, <3>2, <2>1, ControlSequences DEF Controlled
    <3>4. control' \in {<<"start">>, <<"stop", "start">>}
      BY <3>2, <3>3, ControlSequences
    <3>a. frames < Capacity - StartAbove
      BY <3>1
    <3>b. frames + onWay <= Capacity /\ frames + onWay <= Capacity - StopBelow + Batch
      BY <3>a, <1>a, FlowSizes
    <3>5. frames' = frames + onWay /\ dropped' = FALSE
      BY <3>b, <1>b
    <3>6. frames' <= Capacity - StopBelow + Batch
      BY <3>b, <3>5
    <3> QED BY <3>2, <3>4, <3>5, <3>6 DEF Controlled
  <2>4. CASE (Repeat \/ Enough) /\ flowCtl
    <3>a. ~(Capacity - frames < StopBelow)
      BY <2>4 DEF Repeat, Enough, StopDue, Free
    <3>b. frames + onWay <= Capacity /\ frames + onWay <= Capacity - StopBelow + Batch
      BY <3>a, <1>a, FlowSizes
    <3>2. frames' = frames + onWay /\ dropped' = FALSE
      BY <3>b, <1>b
    <3>3. frames' <= Capacity - StopBelow + Batch
      BY <3>b, <3>2
    <3>4. control' = control /\ flowCtl' = TRUE
      BY <2>4, <1>1 DEF Repeat, Enough
    <3> QED BY <2>1, <2>4, <3>2, <3>3, <3>4 DEF Controlled
  <2>5. CASE (Repeat \/ Enough) /\ ~flowCtl
    <3>1. UNCHANGED <<flowCtl, control, sending>>
      <4>1. ~Repeat
        <5> SUFFICES ASSUME Repeat PROVE FALSE
          OBVIOUS
        <5>1. Capacity - frames > RepeatAbove /\ ~(Capacity - frames > StartAbove)
          BY <2>5 DEF Repeat, RepeatDue, StartDue, Free
        <5> QED BY <5>1, <1>a, FlowSizes
      <4> QED BY <2>5, <4>1 DEF Enough
    <3>2. frames + onWay <= Capacity
      <4>1. \/ frames + onWay <= Capacity
            \/ frames + onWay + (Slack - extra) <= Capacity
            \/ frames + onWay + (Slack - extra) + Slack <= Capacity
        BY <2>1, <2>5 DEF Controlled
      <4> QED BY <4>1, <1>a, FlowSizes
    <3>3. frames' = frames + onWay /\ dropped' = FALSE
      BY <3>2, <1>b
    <3>4. frames' + onWay' = frames + onWay
      <4>1. frames' = frames + onWay
        BY <3>3
      <4> QED BY <4>1, <1>a
    <3> QED BY <2>1, <2>5, <3>1, <3>3, <3>4, <1>2 DEF Controlled
  <2> QED BY <2>1, <2>2, <2>3, <2>4, <2>5 DEF MinRound
<1>6. dropped' = FALSE
  <2>1. CASE strained' = FALSE
    BY <2>1, <1>5
  <2>2. CASE strained' = TRUE
    BY <2>2, <1>1, <1>2
  <2> QED BY <2>1, <2>2, <1>4
<1>7. FlowTypeOK'
  <2>1. onWay' \in 0 .. Batch
    BY <1>2, FlowSizes
  <2> QED BY <1>1, <1>2, <1>3, <1>4, <1>6, <2>1, FlowSizes DEF FlowTypeOK, FlowInv
<1>8. ~inSid' => strained'
  BY <1>1, <1>2, <1>4 DEF FlowInv
<1>9. ~strained' => Controlled'
  BY <1>4, <1>5
<1> QED BY <1>6, <1>7, <1>8, <1>9 DEF FlowInv, NothingDropped

\* The host sends no more than the slack into a stop that is on the way.
LEMMA HostKeepsFlow ==
  ASSUME FlowInv, HostSends \/ HostReads
  PROVE  FlowInv'
<1>1. /\ frames \in Nat /\ frames <= Capacity /\ onWay \in Nat /\ onWay <= Batch
      /\ extra \in Nat /\ extra <= Slack /\ control \in Seq({"stop", "start"}) /\ Len(control) <= 2
      /\ strained \in BOOLEAN /\ flowCtl \in BOOLEAN /\ sending \in BOOLEAN /\ due \in BOOLEAN
      /\ inSid \in BOOLEAN /\ dropped = FALSE
  BY FlowSizes DEF FlowInv, FlowTypeOK, NothingDropped
<1>2. UNCHANGED <<frames, flowCtl, due, inSid, strained, dropped>>
  BY DEF HostSends, HostReads
<1>3. CASE HostSends
  <2>1. sending /\ onWay < Batch /\ onWay' = onWay + 1 /\ UNCHANGED <<control, sending>>
    BY <1>3 DEF HostSends
  <2>2. CASE Stopping
    <3>1. extra < Slack /\ extra' = extra + 1
      BY <1>3, <2>2 DEF HostSends
    <3>2. FlowTypeOK'
      BY <1>1, <1>2, <2>1, <3>1, FlowSizes DEF FlowTypeOK, FlowInv
    <3>3. onWay' + (Slack - extra') = onWay + (Slack - extra)
      BY <2>1, <3>1, <1>1, FlowSizes
    <3>4. ~strained => Controlled'
      <4> SUFFICES ASSUME ~strained PROVE Controlled'
        OBVIOUS
      <4>1. frames + onWay' + (Slack - extra') = frames + onWay + (Slack - extra)
        BY <2>1, <3>1, <1>1, FlowSizes
      <4>2. control # <<>>
        BY <2>2 DEF Stopping
      <4>3. Controlled
        BY DEF FlowInv
      <4> QED BY <1>2, <2>1, <4>1, <4>2, <4>3 DEF Controlled
    <3> QED BY <1>2, <3>2, <3>4 DEF FlowInv, NothingDropped
  <2>3. CASE ~Stopping
    <3>1. extra' = 0
      BY <1>3, <2>3 DEF HostSends
    <3>2. FlowTypeOK'
      BY <1>1, <1>2, <2>1, <3>1, FlowSizes DEF FlowTypeOK, FlowInv
    <3>3. control # <<"stop">> /\ control # <<"start", "stop">>
      BY <2>3, ControlSequences DEF Stopping
    <3>4. ~strained => Controlled'
      BY <1>2, <2>1, <3>3 DEF FlowInv, Controlled
    <3> QED BY <1>2, <3>2, <3>4 DEF FlowInv, NothingDropped
  <2> QED BY <2>2, <2>3
<1>4. CASE HostReads
  <2>1. /\ control # <<>> /\ sending' = (Head(control) = "start") /\ control' = Tail(control)
        /\ extra' = 0 /\ UNCHANGED onWay
    BY <1>4 DEF HostReads
  <2>2. control' \in Seq({"stop", "start"}) /\ Len(control') = Len(control) - 1 /\ Len(control) \in Nat
    BY <2>1, <1>1, HeadTailProperties
  <2>3. FlowTypeOK'
    BY <1>1, <1>2, <2>1, <2>2, FlowSizes DEF FlowTypeOK, FlowInv
  <2>4. ~strained => Controlled'
    <3> SUFFICES ASSUME ~strained PROVE Controlled'
      OBVIOUS
    <3>1. Controlled
      BY DEF FlowInv
    <3>2. CASE flowCtl
      <4>1. /\ control \in {<<"start">>, <<"stop", "start">>}
            /\ frames <= Capacity - StopBelow + Batch
        BY <3>1, <3>2, <2>1 DEF Controlled
      <4>2. control' \in {<<>>, <<"start">>}
        BY <4>1, <2>1, ControlSequences
      <4> QED BY <3>2, <4>1, <4>2, <1>2 DEF Controlled
    <3>3. CASE ~flowCtl /\ control = <<"stop">>
      <4>1. frames + onWay + (Slack - extra) <= Capacity
        BY <3>1, <3>3, ControlSequences DEF Controlled
      <4>2. frames + onWay <= Capacity
        BY <4>1, <1>1, FlowSizes
      <4>3. control' = <<>> /\ sending' = FALSE
        BY <3>3, <2>1, ControlSequences
      <4> QED BY <3>3, <4>2, <4>3, <1>2, <2>1 DEF Controlled
    <3>4. CASE ~flowCtl /\ control = <<"start", "stop">>
      <4>1. frames + onWay + (Slack - extra) + Slack <= Capacity
        BY <3>1, <3>4, ControlSequences DEF Controlled
      <4>2. frames + onWay + (Slack - 0) <= Capacity
        BY <4>1, <1>1, FlowSizes
      <4>3. control' = <<"stop">>
        BY <3>4, <2>1, ControlSequences
      <4> QED BY <3>4, <4>2, <4>3, <1>2, <2>1 DEF Controlled
    <3> QED BY <3>1, <3>2, <3>3, <3>4, <2>1 DEF Controlled
  <2> QED BY <1>2, <2>3, <2>4 DEF FlowInv, NothingDropped
<1> QED BY <1>3, <1>4

\* What fits still fits with fewer frames.
LEMMA LessIsEnough ==
  \A less, more, a, b, c, n \in Int : less <= more =>
    /\ more + a <= n => less + a <= n
    /\ more + a + b <= n => less + a + b <= n
    /\ more + a + b + c <= n => less + a + b + c <= n
OBVIOUS

\* A frame played makes room; from an empty queue on the count starts afresh.
LEMMA RestKeepsFlow ==
  ASSUME FlowInv, TimePasses \/ SidPlays \/ SwitchMode \/ UNCHANGED flowVars
  PROVE  FlowInv'
<1>1. /\ frames \in Nat /\ frames <= Capacity /\ onWay \in Nat /\ onWay <= Batch
      /\ extra \in Nat /\ extra <= Slack
      /\ strained \in BOOLEAN /\ flowCtl \in BOOLEAN /\ inSid \in BOOLEAN
  BY FlowSizes DEF FlowInv, FlowTypeOK, NothingDropped
<1>a. frames \in Nat /\ onWay \in Nat /\ extra \in Nat
  BY <1>1
<1>2. CASE TimePasses \/ SwitchMode \/ UNCHANGED flowVars
  <2>1. UNCHANGED <<frames, flowCtl, onWay, control, extra, sending, dropped>>
        /\ due' \in BOOLEAN /\ inSid' \in BOOLEAN /\ strained' \in BOOLEAN
        /\ (~strained' => inSid' = inSid /\ ~strained)
        /\ (strained => strained')
    BY <1>1, <1>2 DEF TimePasses, SwitchMode, flowVars, FlowInv, FlowTypeOK
  <2>2. FlowTypeOK'
    BY <2>1 DEF FlowInv, FlowTypeOK
  <2>3. ~strained' => Controlled'
    BY <2>1 DEF FlowInv, Controlled
  <2> QED BY <2>1, <2>2, <2>3 DEF FlowInv, NothingDropped
<1>3. CASE SidPlays
  <2>1. /\ inSid /\ frames > 0 /\ frames' = frames - 1
        /\ strained' = (strained /\ ~(frames' = 0 /\ control = <<>> /\ flowCtl))
        /\ UNCHANGED <<flowCtl, onWay, control, extra, sending, due, inSid, dropped>>
    BY <1>3 DEF SidPlays
  <2>2. frames' \in 0 .. Capacity /\ strained' \in BOOLEAN
    BY <2>1, <1>1, FlowSizes
  <2>3. FlowTypeOK'
    BY <2>1, <2>2 DEF FlowInv, FlowTypeOK
  <2>4. ~strained' => Controlled'
    <3>1. CASE strained
      <4> SUFFICES ASSUME ~strained' PROVE Controlled'
        OBVIOUS
      <4>1. frames' = 0 /\ control' = <<>> /\ flowCtl'
        BY <2>1, <3>1
      <4>2. frames' <= Capacity - StopBelow + Batch
        BY <4>1, FlowSizes
      <4> QED BY <4>1, <4>2 DEF Controlled
    <3>2. CASE ~strained
      <4>1. Controlled
        BY <3>2 DEF FlowInv
      <4>2. /\ frames' <= frames /\ frames' \in Int
            /\ frames' + onWay <= frames + onWay
            /\ frames' + onWay + (Slack - extra) <= frames + onWay + (Slack - extra)
            /\ frames' + onWay + (Slack - extra) + Slack <= frames + onWay + (Slack - extra) + Slack
        BY <2>1, <1>1, FlowSizes
      <4>3. flowCtl => /\ control \in {<<>>, <<"start">>, <<"stop", "start">>}
                       /\ frames' <= Capacity - StopBelow + Batch
        <5> SUFFICES ASSUME flowCtl
                     PROVE  /\ control \in {<<>>, <<"start">>, <<"stop", "start">>}
                            /\ frames' <= Capacity - StopBelow + Batch
          OBVIOUS
        <5>1. /\ control \in {<<>>, <<"start">>, <<"stop", "start">>}
              /\ frames <= Capacity - StopBelow + Batch
          BY <4>1 DEF Controlled
        <5>2. frames <= Capacity - StopBelow + Batch
          BY <5>1
        <5>3. frames' <= Capacity - StopBelow + Batch
          BY <5>2, <4>2, <1>a, FlowSizes
        <5> QED BY <5>1, <5>3
      <4>4. ~flowCtl => \/ control = <<>> /\ ~sending /\ frames + onWay <= Capacity
                        \/ /\ control = <<"stop">>
                           /\ frames + onWay + (Slack - extra) <= Capacity
                        \/ /\ control = <<"start", "stop">>
                           /\ frames + onWay + (Slack - extra) + Slack <= Capacity
        BY <4>1 DEF Controlled
      <4>5. /\ frames + onWay <= Capacity => frames' + onWay <= Capacity
            /\ frames + onWay + (Slack - extra) <= Capacity
                  => frames' + onWay + (Slack - extra) <= Capacity
            /\ frames + onWay + (Slack - extra) + Slack <= Capacity
                  => frames' + onWay + (Slack - extra) + Slack <= Capacity
        <5>1. frames' \in Int /\ frames' <= frames
          BY <4>2
        <5>2. frames \in Int /\ onWay \in Int /\ Slack - extra \in Int /\ Slack \in Int
              /\ Capacity \in Int
          BY <1>a, FlowSizes
        <5>3. frames + onWay <= Capacity => frames' + onWay <= Capacity
          BY <5>1, <5>2, LessIsEnough
        <5>4. frames + onWay + (Slack - extra) <= Capacity
                => frames' + onWay + (Slack - extra) <= Capacity
          BY <5>1, <5>2, LessIsEnough
        <5>5. frames + onWay + (Slack - extra) + Slack <= Capacity
                => frames' + onWay + (Slack - extra) + Slack <= Capacity
          BY <5>1, <5>2, LessIsEnough
        <5> QED BY <5>3, <5>4, <5>5
      <4> QED BY <2>1, <4>3, <4>4, <4>5 DEF Controlled
    <3> QED BY <3>1, <3>2, <1>1
  <2> QED BY <2>1, <2>3, <2>4 DEF FlowInv, NothingDropped
<1> QED BY <1>2, <1>3

\* NothingDropped: as long as the MIN ring takes the controls and the mode is not left,
\* no frame of the SID stream is lost in a full queue, for every queue whose threshold
\* for the stop leaves room for twice what a round and the host's slack may bring.
THEOREM NoFrameDropped == FlowSpec => []NothingDropped
<1>1. FlowInit => FlowInv
  <2> SUFFICES ASSUME FlowInit PROVE FlowInv
    OBVIOUS
  <2>1. <<>> \in Seq({"stop", "start"}) /\ Len(<<>>) = 0
    OBVIOUS
  <2>2. FlowTypeOK
    <3>1. 0 \in 0 .. Capacity /\ 0 \in 0 .. Batch /\ 0 \in 0 .. Slack /\ 0 <= 2
      BY FlowSizes
    <3>2. frames \in 0 .. Capacity /\ onWay \in 0 .. Batch /\ extra \in 0 .. Slack
      BY <3>1 DEF FlowInit
    <3>3. {flowCtl, sending, due, inSid, strained, dropped} \subseteq BOOLEAN
      BY DEF FlowInit
    <3>4. control \in Seq({"stop", "start"}) /\ Len(control) <= 2
      BY <2>1, <3>1 DEF FlowInit
    <3> QED BY <3>2, <3>3, <3>4 DEF FlowTypeOK
  <2>3. Controlled
    <3>1. 0 <= Capacity - StopBelow + Batch
      BY FlowSizes
    <3> QED BY <3>1 DEF FlowInit, Controlled
  <2> QED BY <2>2, <2>3 DEF FlowInit, FlowInv, NothingDropped
<1>2. FlowInv /\ [FlowNext]_flowVars => FlowInv'
  BY RoundKeepsFlow, HostKeepsFlow, RestKeepsFlow DEF FlowNext
<1>3. FlowInv => NothingDropped
  BY DEF FlowInv
<1> QED BY <1>1, <1>2, <1>3, PTL DEF FlowSpec

-----------------------------------------------------------------------------
(* MidiStream *)

\* What can come on the stream.
Bytes == Statuses \cup {"none", 0} \cup DataBytes

\* Where the data of a channel lie: those of an unfinished message in msg, those of a
\* finished one in the message that was queued.
InChannel ==
    LET size == ChannelSize[running[1]]
    IN  /\ stream.cmd = running[1] /\ stream.size = size
        /\ stream.received = Since % size
        /\ stream.received = 1 => stream.msg[1] = running[Len(running)]
        /\ IF Complete
           THEN /\ queued = <<running[1]>> \o stream.msg
                /\ size = 1 => stream.msg[1] = running[Len(running)]
                /\ size = 2 => /\ stream.msg[1] = running[Len(running) - 1]
                               /\ stream.msg[2] = running[Len(running)]
           ELSE queued = <<>>

\* The parser's memory.
StreamStates ==
    [cmd : (Statuses \ {"end"}) \cup {"none"}, size : Int, received : Nat,
     msg : Seq(DataBytes \cup {0})]

\* The parser holds at most the two data of a channel message.
StreamTyped ==
    /\ stream \in StreamStates /\ Len(stream.msg) = 2
    /\ stream.cmd # "sysex" => stream.size <= 2
    /\ running \in Seq(Bytes) /\ Len(running) > 0

\* What is queued is a channel message only when the bytes since the status make one.
StreamInv ==
    /\ StreamTyped
    /\ running[1] \in Channel => InChannel
    /\ running[1] \notin Channel \cup {"end"} =>
         stream.cmd \notin Channel /\ (queued # <<>> => queued[1] \notin Channel)

\* The kinds of messages and their sizes.
LEMMA MessageSizes ==
  /\ \A c \in Channel : ChannelSize[c] \in {1, 2} /\ c \in Statuses \ {"end"} /\ c # "sysex"
  /\ \A c \in Channel : SizeAfter(c) = ChannelSize[c]
  /\ \A c \in Statuses \ {"end"} : SizeAfter(c) \in Int /\ (c # "sysex" => SizeAfter(c) <= 2)
  /\ "none" \notin Channel /\ "end" \notin Channel
<1>1. Channel = {"note", "control", "bend", "program", "pressure"}
  BY DEF Channel, ChannelSize
<1>2. DOMAIN SystemSize = {"position", "select", "sysex", "clock"}
  BY DEF SystemSize
<1>3. SysexSize \in Int
  BY MidiStreamAssumption
<1>4. \A c \in Channel : ChannelSize[c] \in {1, 2}
  BY <1>1 DEF ChannelSize
<1>5. \A c \in DOMAIN SystemSize : SystemSize[c] \in Int /\ (c # "sysex" => SystemSize[c] <= 2)
  BY <1>2, <1>3 DEF SystemSize
<1>6. \A c \in {1, 2} : c \in Int /\ c <= 2
  OBVIOUS
<1> QED BY <1>1, <1>2, <1>4, <1>5, <1>6 DEF Statuses, SizeAfter

\* The state the parser starts in has the form.
LEMMA StreamStarts == StreamInit => StreamInv
<1> SUFFICES ASSUME StreamInit PROVE StreamInv
  OBVIOUS
<1>1. running = <<"none">> /\ queued = <<>> /\ stream.cmd = "none" /\ stream.size = -1
      /\ stream.received = 0 /\ stream.msg = <<0, 0>>
  BY DEF StreamInit, NotReady
<1>2. <<"none">> \in Seq(Bytes) /\ Len(<<"none">>) = 1 /\ <<"none">>[1] = "none"
  BY DEF Bytes
<1>3. <<0, 0>> \in Seq(DataBytes \cup {0}) /\ Len(<<0, 0>>) = 2
  OBVIOUS
<1>4. stream \in StreamStates
  BY <1>3 DEF StreamInit, NotReady, StreamStates
<1>5. StreamTyped
  BY <1>1, <1>2, <1>3, <1>4 DEF StreamTyped
<1> QED BY <1>1, <1>2, <1>5, MessageSizes DEF StreamInv

\* A status byte starts afresh, whatever was received before it.
LEMMA StatusKeepsStream ==
  ASSUME StreamInv, NEW c \in Statuses \ {"end"}, Status(c)
  PROVE  StreamInv'
<1>1. /\ stream'.cmd = c /\ stream'.size = SizeAfter(c) /\ stream'.received = 0
      /\ queued' = <<>> /\ running' = <<c>>
      /\ stream' \in StreamStates /\ Len(stream'.msg) = 2
  BY MessageSizes DEF Status, StreamInv, StreamTyped, StreamStates
<1>2. running' \in Seq(Bytes) /\ Len(running') = 1 /\ running'[1] = c
  BY <1>1 DEF Bytes
<1>3. StreamTyped'
  BY <1>1, <1>2, MessageSizes DEF StreamTyped
<1>4. ASSUME c \in Channel
      PROVE  InChannel'
  <2>1. Since' = 0 /\ ~Complete'
    BY <1>2 DEF Since, Complete
  <2>2. 0 % ChannelSize[c] = 0
    BY <1>4, MessageSizes
  <2> QED BY <1>1, <1>2, <1>4, <2>1, <2>2, MessageSizes DEF InChannel
<1> QED BY <1>1, <1>2, <1>3, <1>4 DEF StreamInv

\* The end of an exclusive message belongs to no channel.
LEMMA EndKeepsStream ==
  ASSUME StreamInv, SysexEnd
  PROVE  StreamInv'
<1>1. /\ stream'.cmd = stream.cmd /\ stream'.size = 0 /\ running' = <<"end">>
      /\ stream' \in StreamStates /\ Len(stream'.msg) = 2
  <2>1. stream \in StreamStates /\ Len(stream.msg) = 2
    BY DEF StreamInv, StreamTyped
  <2>2. stream' = [stream EXCEPT !.size = 0, !.received = 0] /\ running' = <<"end">>
    BY DEF SysexEnd
  <2>3. 0 \in Int /\ 0 \in Nat
    OBVIOUS
  <2>4. stream'.cmd = stream.cmd /\ stream'.size = 0 /\ stream'.msg = stream.msg
        /\ stream' \in StreamStates
    BY <2>1, <2>2, <2>3 DEF StreamStates
  <2> QED BY <2>1, <2>2, <2>4
<1>2. running' \in Seq(Bytes) /\ Len(running') = 1 /\ running'[1] = "end"
  BY <1>1 DEF Bytes, Statuses
<1>3. StreamTyped'
  BY <1>1, <1>2 DEF StreamTyped
<1> QED BY <1>2, <1>3, MessageSizes DEF StreamInv

\* A queued message starts with its command, and its data follow.
LEMMA QueuedMessage ==
  ASSUME NEW c \in Bytes, NEW msg \in Seq(DataBytes \cup {0}), Len(msg) = 2
  PROVE  /\ <<c>> \o msg \in Seq(Bytes) /\ Len(<<c>> \o msg) = 3 /\ <<c>> \o msg # <<>>
         /\ (<<c>> \o msg)[1] = c
         /\ (<<c>> \o msg)[2] = msg[1] /\ (<<c>> \o msg)[3] = msg[2]
<1>1. msg \in Seq(Bytes)
  <2>1. DataBytes \cup {0} \subseteq Bytes
    BY DEF Bytes
  <2> QED BY <2>1, SeqMonotonic
<1>2. <<c>> \in Seq(Bytes) /\ Len(<<c>>) = 1 /\ <<c>>[1] = c
  OBVIOUS
<1>3. /\ <<c>> \o msg \in Seq(Bytes) /\ Len(<<c>> \o msg) = 3
      /\ \A i \in 1 .. 3 : (<<c>> \o msg)[i] = IF i <= 1 THEN <<c>>[i] ELSE msg[i - 1]
  <2>1. Len(<<c>>) + Len(msg) = 3
    BY <1>2
  <2>2. /\ <<c>> \o msg \in Seq(Bytes) /\ Len(<<c>> \o msg) = Len(<<c>>) + Len(msg)
        /\ \A i \in 1 .. Len(<<c>>) + Len(msg) : (<<c>> \o msg)[i] =
              IF i <= Len(<<c>>) THEN <<c>>[i] ELSE msg[i - Len(<<c>>)]
    BY <1>1, <1>2, ConcatProperties
  <2> QED BY <1>2, <2>1, <2>2
<1>4. (<<c>> \o msg)[1] = c /\ (<<c>> \o msg)[2] = msg[1] /\ (<<c>> \o msg)[3] = msg[2]
  BY <1>2, <1>3
<1>5. <<c>> \o msg # <<>>
  BY <1>3, EmptySeq
<1> QED BY <1>3, <1>4, <1>5

\* A byte of data goes to the place its message has for it.
LEMMA DataKeepsStream ==
  ASSUME StreamInv, NEW d \in DataBytes, DataByte(d)
  PROVE  StreamInv'
<1> DEFINE wanted == stream.received < stream.size
           got == IF wanted THEN stream.received + 1 ELSE stream.received
           msg == IF wanted /\ stream.cmd # "sysex" THEN [stream.msg EXCEPT ![got] = d] ELSE stream.msg
           size == IF stream.cmd \in DOMAIN SystemSize THEN NotReady ELSE stream.size
<1>1. /\ running' = Append(running, d)
      /\ IF got = stream.size
         THEN /\ queued' = <<stream.cmd>> \o msg
              /\ stream' = [stream EXCEPT !.size = size, !.received = 0, !.msg = msg]
         ELSE /\ queued' = <<>>
              /\ stream' = [stream EXCEPT !.received = got, !.msg = msg]
  BY DEF DataByte
<1>2. StreamTyped
  BY DEF StreamInv
<1>3. /\ running' \in Seq(Bytes) /\ Len(running') = Len(running) + 1 /\ Len(running) \in Nat \ {0}
      /\ running'[1] = running[1] /\ running'[Len(running')] = d
      /\ running'[Len(running') - 1] = running[Len(running)]
  <2>1. running \in Seq(Bytes) /\ Len(running) > 0 /\ d \in Bytes /\ Len(running) \in Nat
    BY <1>2 DEF StreamTyped, Bytes
  <2> QED BY <1>1, <2>1, AppendProperties
<1>4. /\ stream.cmd \in Bytes /\ stream.size \in Int /\ stream.received \in Nat
      /\ stream.msg \in Seq(DataBytes \cup {0}) /\ Len(stream.msg) = 2
      /\ stream.cmd \in (Statuses \ {"end"}) \cup {"none"}
      /\ (stream.cmd # "sysex" => stream.size <= 2)
  BY <1>2 DEF StreamTyped, StreamStates, Bytes
<1>a. got \in Nat
  BY <1>4
<1>5. /\ msg \in Seq(DataBytes \cup {0}) /\ Len(msg) = 2
      /\ wanted /\ stream.cmd # "sysex" =>
           \A j \in 1 .. 2 : msg[j] = IF j = got THEN d ELSE stream.msg[j]
  <2>1. CASE wanted /\ stream.cmd # "sysex"
    <3>1. stream.received < stream.size /\ stream.size <= 2 /\ got = stream.received + 1
      BY <1>4, <2>1
    <3>2. got \in 1 .. 2
      BY <1>4, <3>1
    <3>3. msg = [stream.msg EXCEPT ![got] = d]
      BY <2>1
    <3> HIDE DEF got, msg
    <3> QED BY <1>4, <3>2, <3>3, ExceptSeq
  <2>2. CASE ~(wanted /\ stream.cmd # "sysex")
    BY <1>4, <2>2
  <2> QED BY <2>1, <2>2
<1> HIDE DEF msg
<1>6. StreamTyped' /\ stream'.cmd = stream.cmd /\ stream'.msg = msg
  <2>1. size \in Int /\ (stream.cmd # "sysex" => size <= 2)
    BY <1>4 DEF NotReady
  <2>2. CASE got = stream.size
    <3>1. stream' = [stream EXCEPT !.size = size, !.received = 0, !.msg = msg]
      BY <1>1, <2>2
    <3> HIDE DEF size
    <3>2. /\ stream' \in StreamStates /\ stream'.cmd = stream.cmd /\ stream'.msg = msg
          /\ stream'.size = size
      BY <1>2, <1>5, <2>1, <3>1 DEF StreamTyped, StreamStates
    <3> QED BY <1>3, <1>5, <2>1, <3>2 DEF StreamTyped
  <2>3. CASE got # stream.size
    <3>1. stream' = [stream EXCEPT !.received = got, !.msg = msg]
      BY <1>1, <2>3
    <3> HIDE DEF got
    <3>2. /\ stream' \in StreamStates /\ stream'.cmd = stream.cmd /\ stream'.msg = msg
          /\ stream'.size = stream.size
      BY <1>2, <1>5, <1>a, <3>1 DEF StreamTyped, StreamStates
    <3> QED BY <1>3, <1>4, <1>5, <3>2 DEF StreamTyped
  <2> QED BY <2>2, <2>3
<1>7. ASSUME running[1] \in Channel
      PROVE  InChannel'
  <2>1. /\ stream.cmd = running[1] /\ stream.size = ChannelSize[running[1]]
        /\ stream.received = Since % stream.size
        /\ stream.received = 1 => stream.msg[1] = running[Len(running)]
    BY <1>7 DEF StreamInv, InChannel
  <2>2. stream.size \in {1, 2} /\ stream.cmd \in Channel /\ stream.cmd # "sysex"
    BY <1>7, <2>1, MessageSizes
  <2>a. stream.cmd \notin DOMAIN SystemSize
    BY <2>2 DEF Channel, ChannelSize, SystemSize
  <2>3. Since \in Nat /\ Since' = Since + 1 /\ Len(running') = Since' + 1
    BY <1>3 DEF Since
  <2>4. Complete' <=> Since' % stream.size = 0
    BY <1>3, <1>7, <2>1, <2>3 DEF Complete
  <2>5. CASE stream.size = 1
    <3>1. Since % 1 = 0 /\ (Since + 1) % 1 = 0
      BY <2>3
    <3>2. stream.received = 0 /\ wanted /\ got = 1 /\ got = stream.size /\ Complete'
      BY <2>1, <2>3, <2>4, <2>5, <3>1
    <3>3. msg[1] = d
      BY <1>5, <2>2, <3>2
    <3>4. queued' = <<stream.cmd>> \o msg /\ stream'.size = 1 /\ stream'.received = 0
      BY <1>1, <1>2, <2>2, <2>a, <2>5, <3>2 DEF StreamTyped, StreamStates
    <3>5. stream'.received = Since' % ChannelSize[running'[1]]
      BY <1>3, <2>1, <2>3, <2>5, <3>1, <3>4
    <3> QED BY <1>3, <1>6, <2>1, <2>5, <3>2, <3>3, <3>4, <3>5 DEF InChannel
  <2>6. CASE stream.size = 2 /\ stream.received = 0
    <3>1. Since % 2 = 0
      BY <2>1, <2>6
    <3>2. (Since + 1) % 2 = 1
      BY <2>3, <3>1
    <3>3. wanted /\ got = 1 /\ got # stream.size /\ ~Complete'
      BY <2>3, <2>4, <2>6, <3>2
    <3>4. msg[1] = d
      BY <1>5, <2>2, <3>3
    <3>5. queued' = <<>> /\ stream'.size = 2 /\ stream'.received = 1
      BY <1>1, <1>2, <2>6, <3>3 DEF StreamTyped, StreamStates
    <3>6. stream'.received = Since' % ChannelSize[running'[1]]
      BY <1>3, <2>1, <2>3, <2>6, <3>2, <3>5
    <3> QED BY <1>3, <1>6, <2>1, <2>6, <3>3, <3>4, <3>5, <3>6 DEF InChannel
  <2>7. CASE stream.size = 2 /\ stream.received = 1
    <3>1. Since % 2 = 1
      BY <2>1, <2>7
    <3>2. (Since + 1) % 2 = 0
      BY <2>3, <3>1
    <3>3. wanted /\ got = 2 /\ got = stream.size /\ Complete'
      BY <2>3, <2>4, <2>7, <3>2
    <3>4. msg[2] = d /\ msg[1] = running[Len(running)]
      BY <1>5, <2>1, <2>2, <2>7, <3>3
    <3>5. queued' = <<stream.cmd>> \o msg /\ stream'.size = 2 /\ stream'.received = 0
      BY <1>1, <1>2, <2>2, <2>a, <2>7, <3>3 DEF StreamTyped, StreamStates
    <3>6. stream'.received = Since' % ChannelSize[running'[1]]
      BY <1>3, <2>1, <2>3, <2>7, <3>2, <3>5
    <3> QED BY <1>3, <1>6, <2>1, <2>7, <3>3, <3>4, <3>5, <3>6 DEF InChannel
  <2>8. stream.size = 2 => stream.received \in {0, 1}
    BY <2>1, <2>3
  <2> QED BY <2>2, <2>5, <2>6, <2>7, <2>8
<1>8. ASSUME running[1] \notin Channel \cup {"end"}
      PROVE  stream'.cmd \notin Channel /\ (queued' # <<>> => queued'[1] \notin Channel)
  <2>1. stream.cmd \notin Channel
    BY <1>8 DEF StreamInv
  <2>2. (<<stream.cmd>> \o msg)[1] = stream.cmd
    BY <1>4, <1>5, QueuedMessage
  <2> QED BY <1>1, <1>6, <2>1, <2>2
<1> QED BY <1>3, <1>6, <1>7, <1>8 DEF StreamInv

\* What the invariant says of the message that was queued last.
LEMMA QueuedIsComplete ==
  ASSUME StreamInv
  PROVE  ChannelMessagesArrive
<1>1. /\ StreamTyped /\ stream.cmd \in Bytes /\ stream.msg \in Seq(DataBytes \cup {0}) /\ Len(stream.msg) = 2
      /\ running \in Seq(Bytes) /\ Len(running) > 0 /\ Len(running) \in Nat
  BY DEF StreamInv, StreamTyped, StreamStates, Bytes
<1>2. ASSUME Complete
      PROVE  /\ queued # <<>> /\ queued[1] = running[1]
             /\ SubSeq(queued, 1, ChannelSize[running[1]] + 1)
                  = <<running[1]>> \o LastData(ChannelSize[running[1]])
  <2>1. running[1] \in Channel /\ InChannel /\ Since > 0
    BY <1>2 DEF Complete, StreamInv
  <2>2. queued = <<stream.cmd>> \o stream.msg /\ stream.cmd = running[1]
    BY <1>2, <2>1 DEF InChannel
  <2>3. /\ queued \in Seq(Bytes) /\ Len(queued) = 3 /\ queued # <<>> /\ queued[1] = running[1]
        /\ queued[2] = stream.msg[1] /\ queued[3] = stream.msg[2]
    BY <1>1, <2>2, QueuedMessage
  <2> DEFINE size == ChannelSize[running[1]]
             n == Len(running)
             sent == SubSeq(queued, 1, size + 1)
             said == <<running[1]>> \o LastData(size)
  <2>4. size \in {1, 2}
    BY <2>1, MessageSizes
  <2>5. n \in Nat /\ n - 1 > 0 /\ n - 1 \in Nat /\ (n - 1) % size = 0
    BY <1>1, <1>2, <2>1 DEF Since, Complete
  <2>6. n > size
    <3>1. CASE size = 1
      BY <2>5, <3>1
    <3>2. CASE size = 2
      <4>1. (n - 1) % 2 = 0
        BY <2>5, <3>2
      <4>2. n # 2
        <5> SUFFICES ASSUME n = 2 PROVE FALSE
          OBVIOUS
        <5>1. n - 1 = 1 /\ 1 % 2 = 1
          OBVIOUS
        <5> HIDE DEF n
        <5> QED BY <4>1, <5>1
      <4> QED BY <2>5, <3>2, <4>2
    <3> QED BY <2>4, <3>1, <3>2
  <2>7. /\ size = 1 => stream.msg[1] = running[n]
        /\ size = 2 => stream.msg[1] = running[n - 1] /\ stream.msg[2] = running[n]
    BY <1>2, <2>1 DEF InChannel
  <2>8. /\ sent \in Seq(Bytes) /\ Len(sent) = size + 1
        /\ \A i \in 1 .. size + 1 : sent[i] = queued[i]
    <3> HIDE DEF size
    <3>1. \A i \in 1 .. size + 1 : queued[i] \in Bytes
      <4>1. \A i \in 1 .. size + 1 : i \in 1 .. Len(queued)
        BY <2>3, <2>4
      <4> QED BY <2>3, <4>1, ElementOfSeq
    <3>2. size + 1 \in Int /\ 1 <= size + 1 /\ size + 1 - 1 + 1 = size + 1
          /\ \A i \in 1 .. size + 1 : 1 + i - 1 = i
      BY <2>4
    <3>3. /\ sent \in Seq(Bytes) /\ Len(sent) = size + 1 - 1 + 1
          /\ \A i \in 1 .. size + 1 - 1 + 1 : sent[i] = queued[1 + i - 1]
      BY <3>1, <3>2, SubSeqProperties
    <3> QED BY <3>2, <3>3
  <2>9. /\ LastData(size) \in Seq(Bytes) /\ Len(LastData(size)) = size
        /\ \A i \in 1 .. size : LastData(size)[i] = running[n - size + i]
    <3> DEFINE low == n - size + 1
    <3>1. low \in 1 .. n /\ n \in Nat /\ low \in Int
      BY <2>4, <2>5, <2>6
    <3>2. n - low + 1 = size /\ (\A i \in 1 .. size : low + i - 1 = n - size + i)
      BY <2>4, <2>5
    <3>3. \A i \in low .. n : running[i] \in Bytes
      <4>1. \A i \in low .. n : i \in 1 .. Len(running)
        BY <3>1
      <4> QED BY <1>1, <4>1, ElementOfSeq
    <3>4. LastData(size) = SubSeq(running, low, n)
      BY DEF LastData
    <3>5. low <= n
      BY <3>1
    <3> HIDE DEF low, n, size
    <3>6. /\ SubSeq(running, low, n) \in Seq(Bytes) /\ Len(SubSeq(running, low, n)) = n - low + 1
          /\ \A i \in 1 .. n - low + 1 : SubSeq(running, low, n)[i] = running[low + i - 1]
      BY <3>1, <3>3, <3>5, SubSeqProperties
    <3> QED BY <3>2, <3>4, <3>6
  <2>10. <<running[1]>> \in Seq(Bytes) /\ Len(<<running[1]>>) = 1 /\ <<running[1]>>[1] = running[1]
    BY <1>1
  <2> HIDE DEF size, n, sent
  <2>11. /\ said \in Seq(Bytes) /\ Len(said) = size + 1 /\ said[1] = running[1]
         /\ \A i \in 1 .. size : said[i + 1] = running[n - size + i]
    BY <2>4, <2>9, <2>10, ConcatProperties
  <2> HIDE DEF said
  <2>12. \A i \in 1 .. Len(sent) : sent[i] = said[i]
    <3>1. CASE size = 1
      <4>1. said[2] = running[n]
        BY <2>5, <2>11, <3>1
      <4>2. \A i \in 1 .. 2 : i = 1 \/ i = 2
        OBVIOUS
      <4> QED BY <2>3, <2>7, <2>8, <2>11, <3>1, <4>1, <4>2
    <3>2. CASE size = 2
      <4>1. said[2] = running[n - 1] /\ said[3] = running[n]
        BY <2>5, <2>11, <3>2
      <4>2. \A i \in 1 .. 3 : i = 1 \/ i = 2 \/ i = 3
        OBVIOUS
      <4> QED BY <2>3, <2>7, <2>8, <2>11, <3>2, <4>1, <4>2
    <3> QED BY <2>4, <3>1, <3>2
  <2>13. sent = said
    BY <2>8, <2>11, <2>12, SeqEqual
  <2> QED BY <2>3, <2>13 DEF size, sent, said
<1>3. ASSUME queued # <<>>, queued[1] \in Channel
      PROVE  Complete \/ running[1] = "end"
  BY <1>3 DEF StreamInv, InChannel
<1> QED BY <1>2, <1>3 DEF ChannelMessagesArrive

\* ChannelMessagesArrive, for every stream of bytes and every size of an exclusive
\* message: the parser queues a channel message when and only when its data are complete.
THEOREM MessagesArrive == StreamSpec => []ChannelMessagesArrive
<1>1. StreamInv /\ [StreamNext]_streamVars => StreamInv'
  <2> SUFFICES ASSUME StreamInv, [StreamNext]_streamVars PROVE StreamInv'
    OBVIOUS
  <2>1. CASE UNCHANGED streamVars
    BY <2>1 DEF streamVars, StreamInv, StreamTyped, InChannel, Complete, Since
  <2> QED BY <2>1, StatusKeepsStream, EndKeepsStream, DataKeepsStream DEF StreamNext
<1> QED BY <1>1, StreamStarts, QueuedIsComplete, PTL DEF StreamSpec
=============================================================================
