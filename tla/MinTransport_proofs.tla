------------------------- MODULE MinTransport_proofs -------------------------
(***************************************************************************)
(* Proofs about MinTransport for every size of the window, the queue and   *)
(* the line, every number of frames and resets: the window and the queue   *)
(* stay in step across resets, and a session between two resets            *)
(* implements ReliableLink.                                                *)
(***************************************************************************)
EXTENDS MinTransport, SequenceTheorems, TLAPS

USE DEF SeqNumbers

\* The sending half of TypeOK.
SenderOK ==
    /\ fifo \in [Ends -> Seq(Messages)]
    /\ \A e \in Ends : Len(fifo[e]) <= MaxFrames
    /\ snMin \in [Ends -> SeqNumbers] /\ snMax \in [Ends -> SeqNumbers]
    /\ room \in [Ends -> BOOLEAN]

\* The receiving half.
ReceiverOK == rn \in [Ends -> SeqNumbers] /\ active \in [Ends -> BOOLEAN]

\* What is on the way.
LineOK ==
    /\ line \in [Ends -> Seq(Frames)]
    /\ \A e \in Ends : Len(line[e]) <= LineSpace

\* What the histories hold.
HistoryOK ==
    /\ resets \in 0 .. MaxResets
    /\ offered \in [Ends -> 0 .. MaxMsgs] /\ arrived \in [Ends -> Seq(Messages)]
    /\ freed \in [Ends -> SUBSET Messages]

\* The inductive invariant of the window.
IInv == SenderOK /\ ReceiverOK /\ LineOK /\ HistoryOK /\ WindowInQueue

-----------------------------------------------------------------------------
\* Each end has another one.
LEMMA PeerInEnds == \A e \in Ends : Peer(e) \in Ends /\ Peer(e) # e
  BY MinTransportAssumption DEF Peer

\* Sequence arithmetic stays within the sequence numbers.
LEMMA PlusOne == \A s \in SeqNumbers : Plus(s, 1) \in SeqNumbers
  BY MinTransportAssumption DEF Plus

\* The distance between two sequence numbers is one.
LEMMA MinusType == \A s, t \in SeqNumbers : Minus(s, t) \in SeqNumbers
  BY MinTransportAssumption DEF Minus

\* One step of the upper end widens a window that is not the whole space by one.
LEMMA MinusGrows ==
  \A s, t \in SeqNumbers : Minus(s, t) < SeqSpace - 1 => Minus(Plus(s, 1), t) = Minus(s, t) + 1
  BY MinTransportAssumption DEF Minus, Plus

\* A step of the lower end to a number inside the window narrows it by the distance.
LEMMA MinusShrinks ==
  \A s, t, u \in SeqNumbers :
    Minus(u, t) <= Minus(s, t) => Minus(s, u) = Minus(s, t) - Minus(u, t)
  BY MinTransportAssumption DEF Minus

\* The window is a number within the two limits.
LEMMA WindowBounds ==
  ASSUME IInv
  PROVE  \A e \in Ends : /\ Window(e) \in Nat /\ Len(fifo[e]) \in Nat
                         /\ Window(e) <= MaxWindow /\ Window(e) <= Len(fifo[e])
<1> TAKE e \in Ends
<1>1. snMax[e] \in SeqNumbers /\ snMin[e] \in SeqNumbers /\ fifo[e] \in Seq(Messages)
  BY DEF IInv, SenderOK
<1>2. Window(e) \in SeqNumbers
  BY <1>1, MinusType DEF Window
<1>3. Window(e) <= MaxWindow /\ Window(e) <= Len(fifo[e])
  BY DEF IInv, WindowInQueue
<1> QED BY <1>1, <1>2, <1>3, MinTransportAssumption

\* What LineAfter puts on the lines is typed and fits.
LEMMA LineAfterType ==
  ASSUME LineOK, NEW e \in Ends, NEW n \in {0, 1}, n = 1 => line[e] # <<>>,
         NEW frames \in Seq(Frames), line' = LineAfter(e, n, frames)
  PROVE  LineOK'
<1> DEFINE room0 == LineSpace - Len(line[Peer(e)])
           sent == IF room0 >= Len(frames) THEN frames ELSE SubSeq(frames, 1, room0)
<1>1. Peer(e) \in Ends /\ Peer(e) # e
  BY PeerInEnds
<1>2. room0 \in Int /\ room0 >= 0 /\ LineSpace \in Nat
  BY <1>1, MinTransportAssumption DEF LineOK
<1>3. sent \in Seq(Frames) /\ Len(sent) <= room0
  <2>1. CASE room0 >= Len(frames)
    BY <2>1
  <2>2. CASE room0 < Len(frames)
    <3>1. \A i \in 1 .. room0 : frames[i] \in Frames
      BY <2>2, <1>2
    <3> HIDE DEF room0
    <3>2. SubSeq(frames, 1, room0) \in Seq(Frames) /\ Len(SubSeq(frames, 1, room0)) = room0
      BY <3>1, <1>2, SubSeqProperties
    <3> QED BY <2>2, <3>2, <1>2
  <2>3. Len(frames) \in Nat
    OBVIOUS
  <2> HIDE DEF sent
  <2>4. room0 >= Len(frames) \/ room0 < Len(frames)
    BY <2>3, <1>2
  <2> QED BY <2>1, <2>2, <2>4
<1>4. line' = [line EXCEPT ![e] = IF n = 1 THEN Tail(@) ELSE @, ![Peer(e)] = @ \o sent]
  BY DEF LineAfter
<1>5. line'[Peer(e)] = line[Peer(e)] \o sent
  BY <1>1, <1>4 DEF LineOK
<1>6. line'[e] = IF n = 1 THEN Tail(line[e]) ELSE line[e]
  BY <1>1, <1>4 DEF LineOK
<1>7. line'[Peer(e)] \in Seq(Frames) /\ Len(line'[Peer(e)]) <= LineSpace
  BY <1>1, <1>2, <1>3, <1>5 DEF LineOK
<1>8. line'[e] \in Seq(Frames) /\ Len(line'[e]) <= LineSpace
  BY <1>6, <1>2 DEF LineOK
<1>9. \A d \in Ends : d # e /\ d # Peer(e) => line'[d] = line[d]
  BY <1>4 DEF LineOK
<1>10. line' = [d \in Ends |-> line'[d]]
  BY <1>4 DEF LineOK
<1> QED
  BY <1>7, <1>8, <1>9, <1>10 DEF LineOK

\* A reset of one end empties its queue and closes its window.
LEMMA ResetKeeps ==
  ASSUME IInv, NEW e \in Ends, TransportFifoReset(e), UNCHANGED room
  PROVE  SenderOK' /\ ReceiverOK' /\ WindowInQueue'
<1>1. SenderOK' /\ ReceiverOK'
  BY MinTransportAssumption DEF IInv, SenderOK, ReceiverOK, TransportFifoReset
<1>2. \A d \in Ends : Window(d)' <= MaxWindow /\ Window(d)' <= Len(fifo'[d])
  <2> TAKE d \in Ends
  <2>1. CASE d = e
    BY <2>1, MinTransportAssumption DEF IInv, SenderOK, TransportFifoReset, Window, Minus
  <2>2. CASE d # e
    BY <2>2 DEF IInv, SenderOK, TransportFifoReset, Window, WindowInQueue
  <2> QED BY <2>1, <2>2
<1> QED BY <1>1, <1>2 DEF WindowInQueue

-----------------------------------------------------------------------------
(* The steps *)

\* A queued frame lengthens the queue beyond the window.
LEMMA QueueStep ==
  ASSUME IInv, NEW e \in Ends, Queue(e)
  PROVE  IInv'
<1>1. offered[e] + 1 \in Messages
  BY MinTransportAssumption DEF IInv, HistoryOK, Queue, Messages
<1>2. /\ fifo'[e] = Append(fifo[e], offered[e] + 1)
      /\ \A d \in Ends : d # e => fifo'[d] = fifo[d]
  BY DEF IInv, SenderOK, Queue
<1>3. SenderOK'
  BY <1>1, <1>2, MinTransportAssumption DEF IInv, SenderOK, Queue
<1>4. LineOK' /\ ReceiverOK'
  BY DEF IInv, LineOK, ReceiverOK, Queue, Frames
<1>5. HistoryOK'
  BY <1>1 DEF IInv, HistoryOK, Queue, Messages
<1>6. \A d \in Ends : Len(fifo'[d]) = Len(fifo[d]) \/ Len(fifo'[d]) = Len(fifo[d]) + 1
  <2> TAKE d \in Ends
  <2>1. fifo[e] \in Seq(Messages) /\ fifo[d] \in Seq(Messages)
    BY DEF IInv, SenderOK
  <2>2. Len(Append(fifo[e], offered[e] + 1)) = Len(fifo[e]) + 1
    BY <1>1, <2>1
  <2> QED BY <1>2, <2>2
<1>7. \A d \in Ends : Window(d)' = Window(d)
  BY DEF Queue, Window
<1>8. WindowInQueue'
  <2> SUFFICES ASSUME NEW d \in Ends
               PROVE  Window(d)' <= MaxWindow /\ Window(d)' <= Len(fifo'[d])
    BY DEF WindowInQueue
  <2>1. /\ Window(d) \in Nat /\ Len(fifo[d]) \in Nat
        /\ Window(d) <= MaxWindow /\ Window(d) <= Len(fifo[d])
    BY WindowBounds
  <2>2. Window(d)' = Window(d)
    BY <1>7
  <2>3. Len(fifo'[d]) = Len(fifo[d]) \/ Len(fifo'[d]) = Len(fifo[d]) + 1
    BY <1>6
  <2> QED BY <2>1, <2>2, <2>3
<1> QED BY <1>3, <1>4, <1>5, <1>8 DEF IInv

\* A poll opens the window only below its limit and only over a queued frame.
LEMMA PollStep ==
  ASSUME IInv, NEW e \in Ends, NEW n \in 0 .. MaxFrames, NEW ackDue \in BOOLEAN,
         Poll(e, n, ackDue)
  PROVE  IInv'
<1> DEFINE data == IF n = 0 THEN <<>> ELSE <<Data(Plus(snMin[e], n - 1), fifo[e][n])>>
           ack(r) == IF ackDue /\ active[e] THEN <<Ack(rn[e], r)>> ELSE <<>>
<1>1. Window(e) \in Nat /\ Window(e) <= MaxWindow /\ Window(e) <= Len(fifo[e])
  BY WindowBounds
<1>2. n # 0 => n \in 1 .. Len(fifo[e]) /\ n <= MaxWindow
  <2>1. n \in {0} \/ (Opens(e) /\ n = Window(e) + 1) \/ n \in 0 .. Window(e)
    BY DEF Poll, Sends
  <2>2. Len(fifo[e]) \in Nat /\ MaxWindow \in Nat
    BY MinTransportAssumption DEF IInv, SenderOK
  <2> QED BY <1>1, <2>1, <2>2 DEF Opens
<1>3. data \in Seq(Frames)
  <2>1. CASE n = 0
    BY <2>1
  <2>2. CASE n # 0
    <3>1. fifo[e][n] \in Messages
      BY <1>2, <2>2 DEF IInv, SenderOK
    <3>2. Plus(snMin[e], n - 1) \in SeqNumbers
      <4>1. /\ snMin[e] \in 0 .. SeqSpace - 1
            /\ SeqSpace \in Nat /\ MaxWindow \in Nat /\ MaxWindow < SeqSpace
        BY MinTransportAssumption DEF IInv, SenderOK
      <4>2. n - 1 \in 0 .. MaxWindow - 1
        BY <1>2, <2>2, <4>1
      <4> HIDE DEF IInv
      <4> QED BY <4>1, <4>2 DEF Plus
    <3>3. Data(Plus(snMin[e], n - 1), fifo[e][n]) \in Frames
      BY <3>1, <3>2 DEF Data, Frames
    <3> QED BY <2>2, <3>3
  <2> QED BY <2>1, <2>2
<1>4. \A r \in Rooms : ack(r) \in Seq(Frames)
  <2> TAKE r \in Rooms
  <2>1. Ack(rn[e], r) \in Frames
    BY DEF Ack, Frames, IInv, ReceiverOK
  <2> QED BY <2>1
<1>5. PICK r \in Rooms : line' = LineAfter(e, 0, data \o ack(r))
  BY DEF Poll
<1>6. LineOK'
  <2>1. data \o ack(r) \in Seq(Frames)
    BY <1>3, <1>4
  <2> HIDE DEF data, ack
  <2>2. LineOK
    BY DEF IInv
  <2>3. 0 \in {0, 1} /\ (0 = 1 => line[e] # <<>>)
    OBVIOUS
  <2> QED BY <2>1, <2>2, <2>3, <1>5, LineAfterType
<1>7. SenderOK' /\ ReceiverOK' /\ HistoryOK'
  BY PlusOne DEF IInv, SenderOK, ReceiverOK, HistoryOK, Poll, history, Messages
<1>8. \A d \in Ends : Window(d)' <= MaxWindow /\ Window(d)' <= Len(fifo'[d])
  <2> TAKE d \in Ends
  <2>1. CASE d = e /\ n = Window(e) + 1
    <3>1. Opens(e)
      BY <2>1, <1>1 DEF Poll, Sends
    <3>2. Window(e) < SeqSpace - 1
      BY <3>1, <1>1, MinTransportAssumption DEF Opens
    <3>3. Window(e)' = Window(e) + 1
      BY <2>1, <3>2, MinusGrows DEF Poll, Window, IInv, SenderOK
    <3> QED BY <2>1, <3>1, <3>3, <1>1, MinTransportAssumption DEF Opens, Poll, IInv, SenderOK
  <2>2. CASE d # e \/ n # Window(e) + 1
    <3>1. Window(d)' = Window(d)
      BY <2>2 DEF Poll, Window, IInv, SenderOK
    <3> QED BY <3>1 DEF Poll, IInv, WindowInQueue
  <2> QED BY <2>1, <2>2
<1> QED BY <1>6, <1>7, <1>8 DEF IInv, WindowInQueue

\* A frame received leaves the receiver's own window alone.
LEMMA ReceiveDataStep ==
  ASSUME IInv, NEW e \in Ends, ReceiveData(e)
  PROVE  IInv'
<1>1. line[e] # <<>> /\ Head(line[e]) \in Frames /\ Head(line[e]).type = "data"
  BY HeadTailProperties DEF ReceiveData, Receives, IInv, LineOK
<1>2. Head(line[e]).msg \in Messages
  BY <1>1 DEF Frames, Ack, Reset
<1>3. SenderOK'
  BY DEF IInv, SenderOK, ReceiveData, sender
<1>4. ReceiverOK'
  BY PlusOne DEF IInv, ReceiverOK, ReceiveData
<1>5. HistoryOK'
  <2>1. arrived' \in [Ends -> Seq(Messages)]
    <3>1. CASE arrived' = arrived
      BY <3>1 DEF IInv, HistoryOK
    <3>2. CASE arrived' = [arrived EXCEPT ![Peer(e)] = Append(@, Head(line[e]).msg)]
      <4>1. arrived[Peer(e)] \in Seq(Messages)
        BY PeerInEnds DEF IInv, HistoryOK
      <4>2. Append(arrived[Peer(e)], Head(line[e]).msg) \in Seq(Messages)
        BY <4>1, <1>2
      <4> QED BY <3>2, <4>2, PeerInEnds DEF IInv, HistoryOK
    <3> QED BY <3>1, <3>2 DEF ReceiveData
  <2> QED BY <2>1 DEF IInv, HistoryOK, ReceiveData
<1>6. LineOK'
  <2>1. PICK frames \in Seq(Frames) : line' = LineAfter(e, 1, frames)
    <3>1. CASE Head(line[e]).seq = rn[e]
      <4>1. PICK r \in Rooms : line' = LineAfter(e, 1, <<Ack(rn'[e], r)>>)
        BY <3>1 DEF ReceiveData
      <4>2. Ack(rn'[e], r) \in Frames
        BY <1>4 DEF Ack, Frames, ReceiverOK
      <4>3. <<Ack(rn'[e], r)>> \in Seq(Frames)
        BY <4>2
      <4> QED BY <4>1, <4>3
    <3>2. CASE Head(line[e]).seq # rn[e]
      <4>1. line' = LineAfter(e, 1, <<>>)
        BY <3>2 DEF ReceiveData
      <4>2. <<>> \in Seq(Frames)
        OBVIOUS
      <4> QED BY <4>1, <4>2
    <3> QED BY <3>1, <3>2
  <2>2. LineOK
    BY DEF IInv
  <2>3. 1 \in {0, 1}
    OBVIOUS
  <2> QED BY <2>1, <2>2, <2>3, <1>1, LineAfterType
<1>7. WindowInQueue'
  BY DEF IInv, WindowInQueue, ReceiveData, sender, Window
<1> QED BY <1>3, <1>4, <1>5, <1>6, <1>7 DEF IInv

\* The heart of the matter: what an acknowledgement takes off the queue and what it
\* takes off the window are the same number of frames.
LEMMA ReceiveAckStep ==
  ASSUME IInv, NEW e \in Ends, ReceiveAck(e)
  PROVE  IInv'
<1> DEFINE seq == Head(line[e]).seq
           acked == Minus(seq, snMin[e])
<1>1. line[e] # <<>> /\ Head(line[e]) \in Frames /\ Head(line[e]).type = "ack"
  BY HeadTailProperties DEF ReceiveAck, Receives, IInv, LineOK
<1>2. seq \in SeqNumbers /\ Head(line[e]).room \in BOOLEAN
  BY <1>1, MinTransportAssumption DEF Frames, Data, Reset
<1>3. /\ snMin[e] \in SeqNumbers /\ snMax[e] \in SeqNumbers
      /\ fifo[e] \in Seq(Messages) /\ Len(fifo[e]) <= MaxFrames
  BY DEF IInv, SenderOK
<1>4. acked \in Nat
  <2>1. acked \in 0 .. SeqSpace - 1
    BY <1>2, <1>3, MinusType
  <2> HIDE DEF acked
  <2> QED BY <2>1, MinTransportAssumption
<1>5. LineOK'
  <2>1. LineOK /\ 1 \in {0, 1} /\ <<>> \in Seq(Frames)
    BY DEF IInv
  <2>2. line' = LineAfter(e, 1, <<>>)
    BY DEF ReceiveAck
  <2> QED BY <2>1, <2>2, <1>1, LineAfterType
<1>6. ReceiverOK'
  BY DEF IInv, ReceiverOK, ReceiveAck
<1>7. room' \in [Ends -> BOOLEAN]
  BY <1>2 DEF IInv, SenderOK, ReceiveAck
<1>8. CASE acked <= Window(e)
  <2> DEFINE rest == SubSeq(fifo[e], acked + 1, Len(fifo[e]))
             gone == ToSet(SubSeq(fifo[e], 1, acked))
  <2>1. /\ snMin' = [snMin EXCEPT ![e] = seq] /\ snMax' = snMax
        /\ fifo' = [fifo EXCEPT ![e] = rest]
        /\ freed' = [freed EXCEPT ![e] = @ \cup gone]
        /\ resets' = resets /\ offered' = offered /\ arrived' = arrived
    BY <1>8 DEF ReceiveAck
  <2>2. acked <= Len(fifo[e]) /\ Len(fifo[e]) \in Nat /\ Window(e) \in Nat
    BY <1>8, <1>4, WindowBounds
  <2>3. rest \in Seq(Messages) /\ Len(rest) = Len(fifo[e]) - acked
    <3>1. \A i \in acked + 1 .. Len(fifo[e]) : fifo[e][i] \in Messages
      BY <1>3, <1>4, <2>2
    <3> HIDE DEF acked
    <3> QED BY <3>1, <1>4, <2>2, SubSeqProperties
  <2>4. gone \subseteq Messages
    <3>1. \A i \in 1 .. acked : fifo[e][i] \in Messages
      BY <1>3, <1>4, <2>2
    <3> HIDE DEF acked
    <3>2. SubSeq(fifo[e], 1, acked) \in Seq(Messages)
      BY <3>1, <1>4, SubSeqProperties
    <3> QED BY <3>2 DEF ToSet
  <2>5. SenderOK'
    <3> HIDE DEF rest, seq, acked
    <3>1. fifo' \in [Ends -> Seq(Messages)]
      BY <2>1, <2>3 DEF IInv, SenderOK
    <3>2. \A d \in Ends : Len(fifo'[d]) <= MaxFrames
      BY <2>1, <2>2, <2>3, <1>3, <1>4, MinTransportAssumption DEF IInv, SenderOK
    <3>3. snMin' \in [Ends -> SeqNumbers] /\ snMax' \in [Ends -> SeqNumbers]
      BY <2>1, <1>2 DEF IInv, SenderOK
    <3> QED BY <3>1, <3>2, <3>3, <1>7 DEF SenderOK
  <2>6. HistoryOK'
    <3> HIDE DEF gone
    <3> QED BY <2>1, <2>4 DEF IInv, HistoryOK
  <2>7. WindowInQueue'
    <3> SUFFICES ASSUME NEW d \in Ends
                 PROVE  Window(d)' <= MaxWindow /\ Window(d)' <= Len(fifo'[d])
      BY DEF WindowInQueue
    <3>1. CASE d = e
      <4>1. Window(e)' = Minus(snMax[e], seq)
        BY <2>1, <1>3 DEF Window, IInv, SenderOK
      <4>2. Minus(snMax[e], seq) = Window(e) - acked
        BY <1>2, <1>3, <1>8, MinusShrinks DEF Window
      <4>3. Len(fifo'[e]) = Len(fifo[e]) - acked
        BY <2>1, <2>3 DEF IInv, SenderOK
      <4> HIDE DEF acked, seq
      <4> QED BY <3>1, <4>1, <4>2, <4>3, <1>4, <2>2, WindowBounds, MinTransportAssumption
    <3>2. CASE d # e
      <4> HIDE DEF acked, seq, rest
      <4>1. Window(d)' = Window(d) /\ fifo'[d] = fifo[d]
        BY <3>2, <2>1 DEF Window, IInv, SenderOK
      <4> QED BY <4>1, WindowBounds
    <3> QED BY <3>1, <3>2
  <2> QED BY <1>5, <1>6, <2>5, <2>6, <2>7 DEF IInv
<1>9. CASE ~(acked <= Window(e))
  <2>1. UNCHANGED <<snMin, snMax, fifo, freed, resets, offered, arrived>>
    BY <1>9 DEF ReceiveAck
  <2> QED BY <2>1, <1>5, <1>6, <1>7 DEF IInv, SenderOK, HistoryOK, WindowInQueue, Window
<1> QED BY <1>8, <1>9

\* Either kind of reset starts from an empty queue.
LEMMA ResetSteps ==
  ASSUME IInv, NEW e \in Ends, IdleReset(e) \/ ReceiveReset(e)
  PROVE  IInv'
<1>1. SenderOK' /\ ReceiverOK' /\ WindowInQueue'
  BY ResetKeeps DEF IdleReset, ReceiveReset
<1>2. HistoryOK'
  BY MinTransportAssumption DEF IInv, HistoryOK, IdleReset, ReceiveReset, history
<1>3. LineOK
  BY DEF IInv
<1>4. Reset \in Frames /\ <<>> \in Seq(Frames)
  BY DEF Frames
<1>5. CASE IdleReset(e)
  <2>1. line' = LineAfter(e, 0, <<Reset>>)
    BY <1>5 DEF IdleReset
  <2>2. <<Reset>> \in Seq(Frames) /\ 0 \in {0, 1} /\ (0 = 1 => line[e] # <<>>)
    BY <1>4
  <2>3. LineOK'
    BY <1>3, <2>1, <2>2, LineAfterType
  <2> QED BY <1>1, <1>2, <2>3 DEF IInv
<1>6. CASE ReceiveReset(e)
  <2>1. line' = LineAfter(e, 1, <<>>) /\ line[e] # <<>>
    BY <1>6 DEF ReceiveReset, Receives
  <2>2. 1 \in {0, 1}
    OBVIOUS
  <2>3. LineOK'
    BY <1>3, <1>4, <2>1, <2>2, LineAfterType
  <2> QED BY <1>1, <1>2, <2>3 DEF IInv
<1> QED BY <1>5, <1>6

\* A lost frame and the end of the acknowledgements touch no queue.
LEMMA LoseAndIdleSteps ==
  ASSUME IInv, NEW e \in Ends, Lose(e) \/ GoIdle(e)
  PROVE  IInv'
<1>1. SenderOK' /\ HistoryOK' /\ WindowInQueue'
  BY DEF IInv, SenderOK, HistoryOK, WindowInQueue, Window, Lose, GoIdle, sender, history
<1>2. ReceiverOK'
  BY DEF IInv, ReceiverOK, Lose, GoIdle
<1>3. LineOK'
  <2>1. LineOK /\ 1 \in {0, 1} /\ <<>> \in Seq(Frames)
    BY DEF IInv
  <2>2. CASE Lose(e)
    <3>1. line' = LineAfter(e, 1, <<>>) /\ line[e] # <<>>
      BY <2>2 DEF Lose
    <3> QED BY <2>1, <3>1, LineAfterType
  <2>3. CASE GoIdle(e)
    BY <2>1, <2>3 DEF GoIdle, LineOK, Frames
  <2> QED BY <2>2, <2>3
<1> QED BY <1>1, <1>2, <1>3 DEF IInv

-----------------------------------------------------------------------------
\* The window and the queue stay in step, from the first state on.
THEOREM Invariance == Spec => []IInv
<1>1. Init => IInv
  <2> SUFFICES ASSUME Init PROVE IInv
    OBVIOUS
  <2>1. SenderOK /\ ReceiverOK /\ LineOK /\ HistoryOK
    BY MinTransportAssumption DEF Init, SenderOK, ReceiverOK, LineOK, HistoryOK
  <2>2. WindowInQueue
    BY MinTransportAssumption DEF Init, WindowInQueue, Window, Minus
  <2> QED BY <2>1, <2>2 DEF IInv
<1>2. IInv /\ [Next]_vars => IInv'
  <2> SUFFICES ASSUME IInv, [Next]_vars PROVE IInv'
    OBVIOUS
  <2>1. CASE \E e \in Talkers : Queue(e)
    BY <2>1, QueueStep, MinTransportAssumption
  <2>2. CASE \E e \in Ends : \E n \in 0 .. MaxFrames, ackDue \in BOOLEAN : Poll(e, n, ackDue)
    BY <2>2, PollStep
  <2>3. CASE \E e \in Ends : GoIdle(e) \/ Lose(e)
    BY <2>3, LoseAndIdleSteps
  <2>4. CASE \E e \in Ends : IdleReset(e) \/ ReceiveReset(e)
    BY <2>4, ResetSteps
  <2>5. CASE \E e \in Ends : ReceiveData(e)
    BY <2>5, ReceiveDataStep
  <2>6. CASE \E e \in Ends : ReceiveAck(e)
    BY <2>6, ReceiveAckStep
  <2>7. CASE UNCHANGED vars
    <3>1. SenderOK' /\ ReceiverOK' /\ HistoryOK' /\ WindowInQueue'
      BY <2>7 DEF IInv, vars, SenderOK, ReceiverOK, HistoryOK, WindowInQueue, Window
    <3>2. LineOK'
      BY <2>7 DEF IInv, vars, LineOK, Frames
    <3> QED BY <3>1, <3>2 DEF IInv
  <2> QED BY <2>1, <2>2, <2>3, <2>4, <2>5, <2>6, <2>7 DEF Next
<1> QED BY <1>1, <1>2, PTL DEF Spec

\* TypeOK: the queue, the line and the sequence numbers keep their bounds.
THEOREM TypeCorrect == Spec => []TypeOK
<1>1. IInv => TypeOK
  BY DEF IInv, SenderOK, ReceiverOK, LineOK, HistoryOK, TypeOK
<1> QED BY <1>1, Invariance, PTL

\* WindowInQueue: whatever acknowledgement, of this session or an old one, arrives in
\* whatever order with resets, transport_fifo_pop never takes a frame that is not
\* there, and the window keeps its limit.
THEOREM AcksStayInTheWindow == Spec => []WindowInQueue
<1>1. IInv => WindowInQueue
  BY DEF IInv
<1> QED BY <1>1, Invariance, PTL
-----------------------------------------------------------------------------
(* A session: the frames by their numbers, not their sequence numbers *)

\* How many frames of e are acknowledged.
Base(e) == offered[e] - Len(fifo[e])

\* How many frames of e the other end has got.
Got(e) == Len(arrived[e])

\* The queue holds the frames after those; the other end waits for one of the window.
Numbered(e) ==
    /\ Base(e) \in Nat /\ freed[e] = 1 .. Base(e)
    /\ \A i \in 1 .. Len(fifo[e]) : fifo[e][i] = Base(e) + i
    /\ Base(e) <= Got(e) /\ Got(e) <= Base(e) + Window(e)
    /\ Minus(rn[Peer(e)], snMin[e]) = Got(e) - Base(e)

\* A frame of e on the way carries the sequence number of its place, and its place is
\* less than a window away from the one waited for.
DataPlaced(e, q) ==
    /\ q.msg <= Base(e) + Window(e)
    /\ Got(e) < q.msg + MaxWindow
    /\ q.msg > Got(e) => Minus(q.seq, rn[Peer(e)]) = q.msg - 1 - Got(e)
    /\ q.msg <= Got(e) => Minus(rn[Peer(e)], q.seq) = Got(e) + 1 - q.msg

\* The line keeps the order: what was sent before a frame is not far beyond it.
DataOnTheWay(e) ==
    /\ \A i \in 1 .. Len(line[Peer(e)]) :
         line[Peer(e)][i].type = "data" => DataPlaced(e, line[Peer(e)][i])
    /\ \A i, j \in 1 .. Len(line[Peer(e)]) :
         i < j /\ line[Peer(e)][i].type = "data" /\ line[Peer(e)][j].type = "data"
           => line[Peer(e)][i].msg < line[Peer(e)][j].msg + MaxWindow

\* No acknowledgement speaks of more than has arrived, and later ones of no less.
AcksOnTheWay(e) ==
    /\ \A i \in 1 .. Len(line[e]) :
         line[e][i].type = "ack" => Minus(line[e][i].seq, snMin[e]) <= Got(e) - Base(e)
    /\ \A i, j \in 1 .. Len(line[e]) :
         i < j /\ line[e][i].type = "ack" /\ line[e][j].type = "ack"
           => Minus(line[e][i].seq, snMin[e]) <= Minus(line[e][j].seq, snMin[e])

\* No reset is on the way.
NoResetOnTheWay(e) == \A i \in 1 .. Len(line[e]) : line[e][i].type # "reset"

\* The session as seen from one end.
SessionAt(e) == Numbered(e) /\ DataOnTheWay(e) /\ AcksOnTheWay(e) /\ NoResetOnTheWay(e)

\* The session as seen from both.
Session == \A e \in Ends : SessionAt(e)

\* As long as nobody has reset.
SInv == resets = 0 => Session

-----------------------------------------------------------------------------
(* Lines *)

\* m is l without its first k frames and with some of the frames new behind it.
Shifted(l, m, k, new) ==
    \A i \in 1 .. Len(m) :
        \/ i + k \in 1 .. Len(l) /\ m[i] = l[i + k]
        \/ \E f \in 1 .. Len(new) : i + k = Len(l) + f /\ m[i] = new[f]

\* What LineAfter leaves on the two lines.
LEMMA LineAfterShifts ==
  ASSUME LineOK, NEW e \in Ends, NEW n \in {0, 1}, n = 1 => line[e] # <<>>,
         NEW frames \in Seq(Frames), line' = LineAfter(e, n, frames)
  PROVE  /\ Shifted(line[e], line'[e], n, <<>>)
         /\ Shifted(line[Peer(e)], line'[Peer(e)], 0, frames)
<1> DEFINE room0 == LineSpace - Len(line[Peer(e)])
           sent == IF room0 >= Len(frames) THEN frames ELSE SubSeq(frames, 1, room0)
<1>1. Peer(e) \in Ends /\ Peer(e) # e
  BY PeerInEnds
<1>2. room0 \in Nat /\ Len(frames) \in Nat
  BY <1>1, MinTransportAssumption DEF LineOK
<1>3. Len(sent) \in Nat /\ Len(sent) <= Len(frames) /\ \A f \in 1 .. Len(sent) : sent[f] = frames[f]
  <2>1. CASE room0 >= Len(frames)
    BY <2>1, <1>2
  <2>2. CASE room0 < Len(frames)
    <3>1. \A i \in 1 .. room0 : frames[i] \in Frames
      BY <2>2, <1>2
    <3> HIDE DEF room0
    <3>2. /\ Len(SubSeq(frames, 1, room0)) = room0
          /\ \A i \in 1 .. room0 : SubSeq(frames, 1, room0)[i] = frames[i]
      BY <3>1, <1>2, SubSeqProperties
    <3> QED BY <2>2, <3>2, <1>2
  <2> QED BY <2>1, <2>2, <1>2
<1>4. sent \in Seq(Frames)
  <2>1. CASE room0 >= Len(frames)
    BY <2>1
  <2>2. CASE room0 < Len(frames)
    <3>1. \A i \in 1 .. room0 : frames[i] \in Frames
      BY <2>2, <1>2
    <3> HIDE DEF room0
    <3>2. SubSeq(frames, 1, room0) \in Seq(Frames)
      BY <3>1, <1>2, SubSeqProperties
    <3> QED BY <2>2, <3>2, <1>2
  <2> QED BY <2>1, <2>2, <1>2
<1>5. line' = [line EXCEPT ![e] = IF n = 1 THEN Tail(@) ELSE @, ![Peer(e)] = @ \o sent]
  BY DEF LineAfter
<1>6. line[e] \in Seq(Frames) /\ line[Peer(e)] \in Seq(Frames)
  BY <1>1 DEF LineOK
<1>7. line'[Peer(e)] = line[Peer(e)] \o sent
  BY <1>1, <1>5 DEF LineOK
<1>8. line'[e] = IF n = 1 THEN Tail(line[e]) ELSE line[e]
  BY <1>1, <1>5 DEF LineOK
<1> HIDE DEF sent, room0
<1>9. Shifted(line[e], line'[e], n, <<>>)
  <2>1. CASE n = 1
    <3> DEFINE l == line[e]
    <3>1. l \in Seq(Frames) /\ l # <<>> /\ line'[e] = Tail(l)
      BY <2>1, <1>6, <1>8
    <3>2. Len(Tail(l)) = Len(l) - 1 /\ \A i \in 1 .. Len(Tail(l)) : Tail(l)[i] = l[i + 1]
      BY <3>1, HeadTailProperties
    <3>3. Len(l) \in Nat
      BY <3>1
    <3> HIDE DEF l
    <3>4. \A i \in 1 .. Len(Tail(l)) : i + 1 \in 1 .. Len(l) /\ Tail(l)[i] = l[i + 1]
      BY <3>2, <3>3
    <3> QED BY <2>1, <3>1, <3>4 DEF Shifted, l
  <2>2. CASE n = 0
    BY <2>2, <1>6, <1>8 DEF Shifted
  <2> QED BY <2>1, <2>2
<1>10. Shifted(line[Peer(e)], line'[Peer(e)], 0, frames)
  <2> DEFINE l == line[Peer(e)]
  <2>1. Len(l) \in Nat /\ Len(l \o sent) = Len(l) + Len(sent)
    BY <1>6, <1>4
  <2>2. \A i \in 1 .. Len(l) : (l \o sent)[i] = l[i]
    BY <1>6, <1>4
  <2>3. \A i \in 1 .. Len(l \o sent) : i > Len(l) => /\ i - Len(l) \in 1 .. Len(sent)
                                                     /\ (l \o sent)[i] = sent[i - Len(l)]
    BY <1>6, <1>4
  <2>4. \A i \in 1 .. Len(l \o sent) :
           \/ i + 0 \in 1 .. Len(l) /\ (l \o sent)[i] = l[i + 0]
           \/ \E f \in 1 .. Len(frames) : i + 0 = Len(l) + f /\ (l \o sent)[i] = frames[f]
    <3> SUFFICES ASSUME NEW i \in 1 .. Len(l \o sent), i > Len(l)
                 PROVE  \E f \in 1 .. Len(frames) : i + 0 = Len(l) + f /\ (l \o sent)[i] = frames[f]
      BY <2>1, <2>2
    <3>1. i - Len(l) \in 1 .. Len(sent) /\ (l \o sent)[i] = sent[i - Len(l)]
      BY <2>3
    <3>2. i - Len(l) \in 1 .. Len(frames) /\ sent[i - Len(l)] = frames[i - Len(l)]
      BY <3>1, <1>2, <1>3, <2>1
    <3> HIDE DEF l
    <3> QED BY <3>1, <3>2, <2>1
  <2> QED BY <2>4, <1>7 DEF Shifted
<1> QED BY <1>9, <1>10

\* An unchanged line.
LEMMA SameLine == \A l : l \in Seq(Frames) => Shifted(l, l, 0, <<>>)
  BY DEF Shifted

\* The fields of the frames.
LEMMA FrameFields ==
  \A q \in Frames : /\ q.type = "data" => q.seq \in SeqNumbers /\ q.msg \in Messages
                    /\ q.type = "ack" => q.seq \in SeqNumbers
  BY DEF Frames, Reset

\* Each end is the other's other.
LEMMA PeerOfPeer ==
  \A e \in Ends : Peer(Peer(e)) = e /\ \A d \in Ends : d = e \/ d = Peer(e)
<1> TAKE e \in Ends
<1>1. PICK a, b \in Ends : a # b /\ Ends = {a, b}
  BY MinTransportAssumption
<1>2. /\ Peer(e) \in Ends /\ Peer(e) # e
      /\ Peer(Peer(e)) \in Ends /\ Peer(Peer(e)) # Peer(e)
  BY PeerInEnds
<1> QED BY <1>1, <1>2

\* The distance to a number k further on.
LEMMA MinusPlus ==
  ASSUME NEW s \in SeqNumbers, NEW t \in SeqNumbers, NEW k \in 0 .. SeqSpace - 1
  PROVE  /\ Plus(s, k) \in SeqNumbers
         /\ Minus(t, s) <= k => Minus(Plus(s, k), t) = k - Minus(t, s)
         /\ Minus(t, s) >= k => Minus(t, Plus(s, k)) = Minus(t, s) - k
  BY MinTransportAssumption DEF Minus, Plus

\* A distance is a natural number.
LEMMA MinusNat == \A s, t \in SeqNumbers : Minus(s, t) \in Nat
<1>1. SeqNumbers \subseteq Nat
  BY MinTransportAssumption
<1> QED BY <1>1, MinusType

\* The numbers a session speaks of are numbers.
LEMMA SessionTypes ==
  ASSUME IInv, NEW e \in Ends
  PROVE  /\ Base(e) \in Int /\ Got(e) \in Nat /\ Window(e) \in Nat /\ Window(e) <= MaxWindow
         /\ Len(fifo[e]) \in Nat /\ offered[e] \in Nat /\ fifo[e] \in Seq(Messages)
         /\ line[e] \in Seq(Frames) /\ arrived[e] \in Seq(Messages)
         /\ snMin[e] \in SeqNumbers /\ snMax[e] \in SeqNumbers /\ rn[e] \in SeqNumbers
  BY WindowBounds DEF IInv, SenderOK, ReceiverOK, LineOK, HistoryOK, Base, Got

\* A frame q that is on the line l behind the first k.
Behind(l, k, q) == \E i \in 1 .. Len(l) : i > k /\ l[i] = q

\* Data on the way stays in place when the line moves, if what is taken or sent leaves
\* it so.
LEMMA DataStaysOnTheWay ==
  ASSUME NEW e, NEW k \in {0, 1}, NEW new \in Seq(Frames),
         line[Peer(e)] \in Seq(Frames), line'[Peer(e)] \in Seq(Frames),
         Shifted(line[Peer(e)], line'[Peer(e)], k, new), DataOnTheWay(e),
         \A q \in Frames : Behind(line[Peer(e)], k, q) /\ q.type = "data" => DataPlaced(e, q)',
         \A q \in Frames : Behind(new, 0, q) /\ q.type = "data" =>
            /\ DataPlaced(e, q)'
            /\ \A i \in 1 .. Len(line[Peer(e)]) : line[Peer(e)][i].type = "data"
                 => line[Peer(e)][i].msg < q.msg + MaxWindow,
         \A f \in 1 .. Len(new) : new[f].type = "data" => f = 1
  PROVE  DataOnTheWay(e)'
<1> DEFINE l == line[Peer(e)]
           m == line'[Peer(e)]
<1>1. Len(l) \in Nat /\ Len(m) \in Nat /\ Len(new) \in Nat
  OBVIOUS
<1>2. \A i \in 1 .. Len(m) : \/ i + k \in 1 .. Len(l) /\ m[i] = l[i + k]
                             \/ \E f \in 1 .. Len(new) : i + k = Len(l) + f /\ m[i] = new[f]
  BY DEF Shifted
<1>3. ASSUME NEW q \in Frames, NEW i \in 1 .. Len(m), m[i] = q, q.type = "data"
      PROVE  DataPlaced(e, q)'
  <2>1. CASE i + k \in 1 .. Len(l) /\ m[i] = l[i + k]
    <3>1. i + k > k
      BY <1>1
    <3>2. Behind(l, k, q)
      <4> HIDE DEF l, m
      <4> QED BY <1>3, <2>1, <3>1 DEF Behind
    <3> QED BY <1>3, <3>2
  <2>2. CASE \E f \in 1 .. Len(new) : i + k = Len(l) + f /\ m[i] = new[f]
    <3>1. Behind(new, 0, q)
      BY <1>3, <2>2 DEF Behind
    <3> QED BY <1>3, <3>1
  <2> QED BY <1>2, <2>1, <2>2
<1>4. ASSUME NEW i \in 1 .. Len(m), NEW j \in 1 .. Len(m),
             i < j, m[i].type = "data", m[j].type = "data"
      PROVE  m[i].msg < m[j].msg + MaxWindow
  <2> USE <1>4
  <2>1. CASE j + k \in 1 .. Len(l) /\ m[j] = l[j + k]
    <3> HIDE DEF l, m
    <3>1. i + k \in 1 .. Len(l) /\ i + k < j + k
      BY <2>1, <1>1
    <3>2. m[i] = l[i + k]
      BY <1>2, <3>1, <1>1
    <3> QED BY <2>1, <3>1, <3>2 DEF DataOnTheWay, l
  <2>2. CASE \E f \in 1 .. Len(new) : j + k = Len(l) + f /\ m[j] = new[f]
    <3>1. PICK f \in 1 .. Len(new) : j + k = Len(l) + f /\ m[j] = new[f]
      BY <2>2
    <3>2. f = 1
      BY <3>1
    <3>3. m[j] \in Frames /\ Behind(new, 0, m[j])
      BY <3>1 DEF Behind
    <3> HIDE DEF l, m
    <3>4. i + k \in 1 .. Len(l)
      BY <3>1, <3>2, <1>1
    <3>5. m[i] = l[i + k]
      BY <1>2, <3>4, <1>1
    <3>6. \A h \in 1 .. Len(l) : l[h].type = "data" => l[h].msg < m[j].msg + MaxWindow
      BY <3>3 DEF l
    <3> QED BY <3>4, <3>5, <3>6
  <2> QED BY <1>2, <2>1, <2>2
<1>5. \A i \in 1 .. Len(m) : m[i].type = "data" =>
        \E q \in Frames : q = m[i] /\ DataPlaced(e, q)'
  BY <1>3
<1> QED BY <1>4, <1>5 DEF DataOnTheWay, DataPlaced, Base, Got, Window

\* Acknowledgements on the way stay truthful when the line moves.
LEMMA AcksStayOnTheWay ==
  ASSUME NEW e, NEW k \in {0, 1}, NEW new \in Seq(Frames),
         line[e] \in Seq(Frames), line'[e] \in Seq(Frames), Shifted(line[e], line'[e], k, new),
         \A i \in 1 .. Len(line[e]) : i > k /\ line[e][i].type = "ack"
            => Minus(line[e][i].seq, snMin'[e]) <= Got(e)' - Base(e)',
         \A i, j \in 1 .. Len(line[e]) :
            k < i /\ i < j /\ line[e][i].type = "ack" /\ line[e][j].type = "ack"
            => Minus(line[e][i].seq, snMin'[e]) <= Minus(line[e][j].seq, snMin'[e]),
         Got(e)' - Base(e)' \in Int,
         \A f \in 1 .. Len(new) : new[f].type = "ack"
            => Minus(new[f].seq, snMin'[e]) = Got(e)' - Base(e)'
  PROVE  AcksOnTheWay(e)'
<1> DEFINE l == line[e]
           m == line'[e]
           ahead(q) == Minus(q.seq, snMin'[e])
<1>1. Len(l) \in Nat /\ Len(m) \in Nat /\ Len(new) \in Nat
  OBVIOUS
<1> HIDE DEF l, m
<1>2. \A i \in 1 .. Len(m) : m[i].type = "ack" => ahead(m[i]) <= Got(e)' - Base(e)'
  <2> TAKE i \in 1 .. Len(m)
  <2> HAVE m[i].type = "ack"
  <2>1. CASE i + k \in 1 .. Len(l) /\ m[i] = l[i + k]
    <3>1. i + k > k
      BY <1>1
    <3> QED BY <2>1, <3>1 DEF l
  <2>2. CASE \E f \in 1 .. Len(new) : i + k = Len(l) + f /\ m[i] = new[f]
    <3>1. PICK f \in 1 .. Len(new) : m[i] = new[f]
      BY <2>2
    <3> QED BY <3>1
  <2> QED BY <2>1, <2>2 DEF Shifted, l, m
<1>3. ASSUME NEW i \in 1 .. Len(m), NEW j \in 1 .. Len(m),
             i < j, m[i].type = "ack", m[j].type = "ack"
      PROVE  ahead(m[i]) <= ahead(m[j])
  <2> USE <1>3
  <2>1. /\ \/ i + k \in 1 .. Len(l) /\ m[i] = l[i + k]
           \/ \E f \in 1 .. Len(new) : i + k = Len(l) + f /\ m[i] = new[f]
        /\ \/ j + k \in 1 .. Len(l) /\ m[j] = l[j + k]
           \/ \E f \in 1 .. Len(new) : j + k = Len(l) + f /\ m[j] = new[f]
    BY DEF Shifted, l, m
  <2>2. CASE j + k \in 1 .. Len(l) /\ m[j] = l[j + k]
    <3>1. i + k \in 1 .. Len(l) /\ i + k < j + k /\ k < i + k
      BY <2>2, <1>1
    <3>2. m[i] = l[i + k]
      BY <2>1, <3>1, <1>1
    <3> QED BY <2>2, <3>1, <3>2 DEF l
  <2>3. CASE \E f \in 1 .. Len(new) : j + k = Len(l) + f /\ m[j] = new[f]
    <3>1. ahead(m[j]) = Got(e)' - Base(e)'
      BY <2>3
    <3> QED BY <3>1, <1>2
  <2> QED BY <2>1, <2>2, <2>3
<1> QED BY <1>2, <1>3 DEF AcksOnTheWay, m, l

\* No reset comes on the way when none is sent.
LEMMA NoResetStaysAway ==
  ASSUME NEW e, NEW k \in {0, 1}, NEW new \in Seq(Frames),
         line[e] \in Seq(Frames), line'[e] \in Seq(Frames), Shifted(line[e], line'[e], k, new),
         NoResetOnTheWay(e),
         \A f \in 1 .. Len(new) : new[f].type # "reset"
  PROVE  NoResetOnTheWay(e)'
  BY DEF NoResetOnTheWay, Shifted

\* What a step of the end a has to show for the session to go on: it takes n frames off
\* its line, sends these, and leaves the other's sending half alone.
LEMMA SessionGoesOn ==
  ASSUME IInv, IInv', Session, NEW a \in Ends, NEW n \in {0, 1}, NEW frames \in Seq(Frames),
         Shifted(line[a], line'[a], n, <<>>),
         Shifted(line[Peer(a)], line'[Peer(a)], 0, frames),
         Numbered(a)', Numbered(Peer(a))',
         snMin'[Peer(a)] = snMin[Peer(a)],
         Base(Peer(a))' = Base(Peer(a)), Got(Peer(a))' >= Got(Peer(a)),
         \A f \in 1 .. Len(frames) : frames[f].type # "reset",
         \A f \in 1 .. Len(frames) : frames[f].type = "ack" => frames[f].seq = rn'[a],
         \A f \in 1 .. Len(frames) : frames[f].type = "data" => f = 1,
         \A q \in Frames : Behind(frames, 0, q) /\ q.type = "data" =>
            /\ DataPlaced(a, q)'
            /\ \A i \in 1 .. Len(line[Peer(a)]) : line[Peer(a)][i].type = "data"
                 => line[Peer(a)][i].msg < q.msg + MaxWindow,
         \A q \in Frames : q.type = "data" /\ DataPlaced(a, q) => DataPlaced(a, q)',
         \A q \in Frames : Behind(line[a], n, q) /\ q.type = "data" => DataPlaced(Peer(a), q)',
         \A i \in 1 .. Len(line[a]) : i > n /\ line[a][i].type = "ack"
            => Minus(line[a][i].seq, snMin'[a]) <= Got(a)' - Base(a)',
         \A i, j \in 1 .. Len(line[a]) :
            n < i /\ i < j /\ line[a][i].type = "ack" /\ line[a][j].type = "ack"
            => Minus(line[a][i].seq, snMin'[a]) <= Minus(line[a][j].seq, snMin'[a])
  PROVE  Session'
<1> DEFINE p == Peer(a)
<1>1. p \in Ends /\ p # a /\ Peer(p) = a /\ \A d \in Ends : d = a \/ d = p
  BY PeerInEnds, PeerOfPeer
<1>2. /\ line[a] \in Seq(Frames) /\ line[p] \in Seq(Frames)
      /\ line'[a] \in Seq(Frames) /\ line'[p] \in Seq(Frames)
  BY <1>1 DEF IInv, LineOK, Frames
<1>3. <<>> \in Seq(Frames) /\ 0 \in {0, 1}
  OBVIOUS
<1>4. \A d \in Ends : Got(d) \in Int /\ Base(d) \in Int
  BY SessionTypes
<1>5. \A d \in Ends : Got(d)' \in Int /\ Base(d)' \in Int
  <2> TAKE d \in Ends
  <2>1. fifo'[d] \in Seq(Messages) /\ offered'[d] \in 0 .. MaxMsgs /\ arrived'[d] \in Seq(Messages)
    BY DEF IInv, SenderOK, HistoryOK, Messages
  <2> QED BY <2>1, MinTransportAssumption DEF Base, Got
<1>6. SessionAt(a) /\ SessionAt(p)
  BY <1>1 DEF Session
<1>7. SessionAt(a)'
  <2>1. \A q \in Frames : Behind(line[p], 0, q) /\ q.type = "data" => DataPlaced(a, q)'
    BY <1>6 DEF SessionAt, DataOnTheWay, Behind
  <2>2. DataOnTheWay(a)'
    BY <1>2, <1>3, <1>6, <2>1, DataStaysOnTheWay DEF SessionAt
  <2>3. AcksOnTheWay(a)'
    <3>1. \A f \in 1 .. Len(<<>>) : <<>>[f].type = "ack"
             => Minus(<<>>[f].seq, snMin'[a]) = Got(a)' - Base(a)'
      OBVIOUS
    <3>2. Got(a)' - Base(a)' \in Int
      BY <1>5
    <3> QED BY <1>2, <1>3, <3>1, <3>2, AcksStayOnTheWay
  <2>4. NoResetOnTheWay(a)'
    <3>1. \A f \in 1 .. Len(<<>>) : <<>>[f].type # "reset"
      OBVIOUS
    <3> QED BY <1>2, <1>3, <1>6, <3>1, NoResetStaysAway DEF SessionAt
  <2> QED BY <2>2, <2>3, <2>4 DEF SessionAt
<1>8. SessionAt(p)'
  <2>1. DataOnTheWay(p)'
    <3>1. DataOnTheWay(p) /\ line[Peer(p)] = line[a] /\ line'[Peer(p)] = line'[a]
      BY <1>1, <1>6 DEF SessionAt
    <3>2. /\ \A f \in 1 .. Len(<<>>) : <<>>[f].type = "data" => f = 1
          /\ \A q : ~Behind(<<>>, 0, q)
      BY DEF Behind
    <3> QED BY <1>2, <1>3, <3>1, <3>2, DataStaysOnTheWay
  <2>2. AcksOnTheWay(p)'
    <3>1. Got(p)' - Base(p)' \in Int /\ Got(p)' - Base(p)' >= Got(p) - Base(p)
      BY <1>1, <1>4, <1>5
    <3>2. \A i \in 1 .. Len(line[p]) : line[p][i].type = "ack"
             => /\ Minus(line[p][i].seq, snMin[p]) \in Int
                /\ Minus(line[p][i].seq, snMin[p]) <= Got(p) - Base(p)
      <4>1. \A i \in 1 .. Len(line[p]) : line[p][i] \in Frames
        BY <1>2
      <4>2. snMin[p] \in SeqNumbers
        BY <1>1, SessionTypes
      <4>3. SeqNumbers \subseteq Int
        BY MinTransportAssumption
      <4> QED BY <1>6, <4>1, <4>2, <4>3, FrameFields, MinusType DEF SessionAt, AcksOnTheWay
    <3>3. \A i \in 1 .. Len(line[p]) : i > 0 /\ line[p][i].type = "ack"
             => Minus(line[p][i].seq, snMin'[p]) <= Got(p)' - Base(p)'
      BY <1>1, <1>4, <3>1, <3>2
    <3>4. \A i, j \in 1 .. Len(line[p]) :
             0 < i /\ i < j /\ line[p][i].type = "ack" /\ line[p][j].type = "ack"
             => Minus(line[p][i].seq, snMin'[p]) <= Minus(line[p][j].seq, snMin'[p])
      BY <1>6 DEF SessionAt, AcksOnTheWay
    <3>5. \A f \in 1 .. Len(frames) : frames[f].type = "ack"
             => Minus(frames[f].seq, snMin'[p]) = Got(p)' - Base(p)'
      <4>1. Minus(rn'[a], snMin'[p]) = Got(p)' - Base(p)'
        BY <1>1 DEF Numbered
      <4> QED BY <4>1
    <3> QED BY <1>2, <1>3, <3>1, <3>3, <3>4, <3>5, AcksStayOnTheWay
  <2>3. NoResetOnTheWay(p)'
    BY <1>2, <1>3, <1>6, NoResetStaysAway DEF SessionAt
  <2> QED BY <2>1, <2>2, <2>3 DEF SessionAt
<1> QED BY <1>1, <1>7, <1>8 DEF Session

-----------------------------------------------------------------------------
(* The steps of a session *)

\* A frame queued takes the next number.
LEMMA QueueInSession ==
  ASSUME IInv, IInv', Session, NEW a \in Ends, Queue(a)
  PROVE  Session'
<1> DEFINE p == Peer(a)
<1>1. p \in Ends /\ p # a
  BY PeerInEnds
<1>2. /\ fifo'[a] = Append(fifo[a], offered[a] + 1) /\ offered'[a] = offered[a] + 1
      /\ fifo'[p] = fifo[p] /\ offered'[p] = offered[p]
      /\ UNCHANGED <<snMin, snMax, rn, line, arrived, freed>>
  BY <1>1 DEF Queue, IInv, SenderOK, HistoryOK
<1>3. /\ Base(a) \in Int /\ Len(fifo[a]) \in Nat /\ offered[a] \in Nat
      /\ fifo[a] \in Seq(Messages) /\ line[a] \in Seq(Frames) /\ line[p] \in Seq(Frames)
  BY <1>1, SessionTypes
<1>4. /\ Len(fifo'[a]) = Len(fifo[a]) + 1
      /\ \A i \in 1 .. Len(fifo[a]) : fifo'[a][i] = fifo[a][i]
      /\ fifo'[a][Len(fifo[a]) + 1] = offered[a] + 1
  BY <1>2, <1>3
<1>5. Base(a)' = Base(a) /\ Base(p)' = Base(p)
  BY <1>2, <1>3, <1>4 DEF Base
<1>6. /\ Got(a)' = Got(a) /\ Got(p)' = Got(p)
      /\ Window(a)' = Window(a) /\ Window(p)' = Window(p)
  BY <1>2 DEF Got, Window
<1>7. SessionAt(a) /\ SessionAt(p)
  BY <1>1 DEF Session
<1>8. Numbered(a)'
  <2>1. \A i \in 1 .. Len(fifo'[a]) : fifo'[a][i] = Base(a) + i
    <3>1. \A i \in 1 .. Len(fifo[a]) : fifo[a][i] = Base(a) + i
      BY <1>7 DEF SessionAt, Numbered
    <3>2. offered[a] + 1 = Base(a) + (Len(fifo[a]) + 1)
      BY <1>3 DEF Base
    <3>3. \A i \in 1 .. Len(fifo'[a]) : i \in 1 .. Len(fifo[a]) \/ i = Len(fifo[a]) + 1
      BY <1>3, <1>4
    <3> QED BY <1>4, <3>1, <3>2, <3>3
  <2> QED BY <1>2, <1>5, <1>6, <1>7, <2>1 DEF SessionAt, Numbered
<1>9. Numbered(p)'
  BY <1>1, <1>2, <1>5, <1>6, <1>7, PeerOfPeer DEF SessionAt, Numbered
<1>10. \A d \in Ends : d = a \/ d = p
  BY PeerOfPeer
<1>11. \A d \in Ends : DataOnTheWay(d)' /\ AcksOnTheWay(d)' /\ NoResetOnTheWay(d)'
  <2> TAKE d \in Ends
  <2>1. Base(d)' = Base(d) /\ Got(d)' = Got(d) /\ Window(d)' = Window(d) /\ SessionAt(d)
    BY <1>5, <1>6, <1>7, <1>10
  <2> HIDE DEF p
  <2>2. DataOnTheWay(d)'
    BY <1>2, <2>1 DEF SessionAt, DataOnTheWay, DataPlaced
  <2>3. AcksOnTheWay(d)' /\ NoResetOnTheWay(d)'
    BY <1>2, <2>1 DEF SessionAt, AcksOnTheWay, NoResetOnTheWay
  <2> QED BY <2>2, <2>3
<1> QED BY <1>8, <1>9, <1>10, <1>11 DEF Session, SessionAt

\* A loss takes a frame off the line and nothing else; an end gone idle not even that.
LEMMA LossInSession ==
  ASSUME IInv, IInv', Session, NEW a \in Ends, Lose(a)
  PROVE  Session'
<1> DEFINE p == Peer(a)
<1>1. p \in Ends /\ p # a
  BY PeerInEnds
<1>2. LineOK /\ line[a] # <<>> /\ line' = LineAfter(a, 1, <<>>) /\ <<>> \in Seq(Frames)
  BY DEF Lose, IInv
<1>3. Shifted(line[a], line'[a], 1, <<>>) /\ Shifted(line[p], line'[p], 0, <<>>)
  BY <1>2, LineAfterShifts
<1>4. UNCHANGED <<fifo, snMin, snMax, rn, offered, arrived, freed>>
  BY DEF Lose, sender, history
<1>5. \A d \in Ends : /\ Base(d)' = Base(d) /\ Got(d)' = Got(d) /\ Window(d)' = Window(d)
                      /\ (Numbered(d) <=> Numbered(d)')
  BY <1>4 DEF Base, Got, Window, Numbered
<1>6. \A d \in Ends : Got(d) \in Nat
  BY SessionTypes
<1>7. Numbered(a)' /\ Numbered(p)'
  BY <1>1, <1>5 DEF Session, SessionAt
<1>8. \A d \in Ends, q \in Frames : DataPlaced(d, q) => DataPlaced(d, q)'
  BY <1>4, <1>5 DEF DataPlaced
<1>9. SessionAt(a) /\ SessionAt(p) /\ Peer(p) = a
  BY <1>1, PeerOfPeer DEF Session
<1>10. \A q \in Frames : Behind(line[a], 1, q) /\ q.type = "data" => DataPlaced(p, q)'
  BY <1>1, <1>8, <1>9 DEF SessionAt, DataOnTheWay, Behind
<1>11. /\ \A i \in 1 .. Len(line[a]) : i > 1 /\ line[a][i].type = "ack"
            => Minus(line[a][i].seq, snMin'[a]) <= Got(a)' - Base(a)'
       /\ \A i, j \in 1 .. Len(line[a]) :
            1 < i /\ i < j /\ line[a][i].type = "ack" /\ line[a][j].type = "ack"
            => Minus(line[a][i].seq, snMin'[a]) <= Minus(line[a][j].seq, snMin'[a])
  BY <1>4, <1>5, <1>9 DEF SessionAt, AcksOnTheWay
<1>12. /\ \A q : ~Behind(<<>>, 0, q)
       /\ \A f \in 1 .. Len(<<>>) : FALSE
       /\ \A q \in Frames : q.type = "data" /\ DataPlaced(a, q) => DataPlaced(a, q)'
       /\ snMin'[p] = snMin[p] /\ Base(p)' = Base(p) /\ Got(p)' >= Got(p)
       /\ 1 \in {0, 1}
  BY <1>1, <1>4, <1>5, <1>6, <1>8 DEF Behind
<1> QED BY <1>2, <1>3, <1>7, <1>8, <1>10, <1>11, <1>12, SessionGoesOn

\* An end gone idle changes nothing a session speaks of.
LEMMA SessionUnchanged ==
  ASSUME Session, UNCHANGED <<fifo, snMin, snMax, rn, line, offered, arrived, freed>>
  PROVE  Session'
BY DEF Session, SessionAt, Numbered, DataOnTheWay, DataPlaced, AcksOnTheWay, NoResetOnTheWay,
       Base, Got, Window

\* A poll sends a frame of the window in its place, or the next one, and acknowledges
\* what has come.
LEMMA PollInSession ==
  ASSUME IInv, IInv', Session, NEW a \in Ends, NEW n \in 0 .. MaxFrames,
         NEW ackDue \in BOOLEAN, Poll(a, n, ackDue)
  PROVE  Session'
<1> DEFINE p == Peer(a)
           data == IF n = 0 THEN <<>> ELSE <<Data(Plus(snMin[a], n - 1), fifo[a][n])>>
           ack(r) == IF ackDue /\ active[a] THEN <<Ack(rn[a], r)>> ELSE <<>>
<1>1. p \in Ends /\ p # a /\ Peer(p) = a
  BY PeerInEnds, PeerOfPeer
<1>2. UNCHANGED <<fifo, snMin, rn, offered, arrived, freed>>
  BY DEF Poll, history
<1>3. /\ Base(a) \in Int /\ Got(a) \in Nat /\ Window(a) \in Nat /\ Window(a) <= MaxWindow
      /\ Len(fifo[a]) \in Nat /\ fifo[a] \in Seq(Messages) /\ Got(p) \in Nat
      /\ snMin[a] \in SeqNumbers /\ snMax[a] \in SeqNumbers /\ rn[a] \in SeqNumbers
      /\ rn[p] \in SeqNumbers /\ line[p] \in Seq(Frames)
      /\ Window(a) <= Len(fifo[a]) /\ MaxWindow \in Nat /\ SeqSpace \in Nat
      /\ MaxWindow < SeqSpace
  BY <1>1, SessionTypes, WindowBounds, MinTransportAssumption
<1>4. \A d \in Ends : Base(d)' = Base(d) /\ Got(d)' = Got(d)
  BY <1>2 DEF Base, Got
<1>5. SessionAt(a) /\ SessionAt(p)
  BY <1>1 DEF Session
<1>6. n \in 0 .. Window(a) \/ (Opens(a) /\ n = Window(a) + 1)
  BY <1>3 DEF Poll, Sends
<1>7. n = Window(a) + 1 => Window(a) < MaxWindow /\ Window(a) < Len(fifo[a])
  BY <1>3, <1>6 DEF Opens
<1>8. Window(a)' >= Window(a) /\ Window(a)' \in Nat /\ n <= Window(a)' /\ Window(a)' <= MaxWindow
  <2>1. CASE n = Window(a) + 1
    <3>1. Window(a) < SeqSpace - 1
      BY <2>1, <1>3, <1>7
    <3>2. snMax'[a] = Plus(snMax[a], 1)
      BY <2>1 DEF Poll, IInv, SenderOK
    <3>3. Window(a)' = Window(a) + 1
      BY <3>1, <3>2, <1>2, <1>3, MinusGrows DEF Window
    <3> QED BY <2>1, <3>3, <1>3, <1>7
  <2>2. CASE n # Window(a) + 1
    <3>1. Window(a)' = Window(a)
      BY <2>2, <1>2 DEF Poll, Window
    <3> QED BY <2>2, <3>1, <1>3, <1>6
  <2> QED BY <2>1, <2>2
<1>9. Window(p)' = Window(p)
  BY <1>1, <1>2 DEF Poll, Window, IInv, SenderOK
<1>10. Numbered(a)' /\ Numbered(p)'
  <2>1. Got(a)' <= Base(a)' + Window(a)'
    <3>1. Got(a) <= Base(a) + Window(a)
      BY <1>5 DEF SessionAt, Numbered
    <3> QED BY <3>1, <1>3, <1>4, <1>8
  <2>2. Numbered(a)'
    BY <1>1, <1>2, <1>4, <1>5, <2>1 DEF SessionAt, Numbered
  <2>3. Numbered(p)'
    BY <1>1, <1>2, <1>4, <1>5, <1>9 DEF SessionAt, Numbered
  <2> QED BY <2>2, <2>3
<1>11. \A d \in Ends, q \in Frames : DataPlaced(d, q) /\ q.type = "data" => DataPlaced(d, q)'
  <2> SUFFICES ASSUME NEW d \in Ends, NEW q \in Frames, q.type = "data", DataPlaced(d, q)
               PROVE  DataPlaced(d, q)'
    OBVIOUS
  <2>1. Base(d) \in Int /\ Window(d) \in Nat /\ Window(d)' \in Nat /\ Window(d)' >= Window(d)
    BY <1>8, <1>9, SessionTypes, PeerOfPeer
  <2>2. q.msg \in Nat /\ q.msg <= Base(d) + Window(d)'
    BY <2>1, FrameFields DEF DataPlaced, Messages
  <2> QED BY <1>2, <1>4, <2>2 DEF DataPlaced
<1>12. PICK r \in Rooms : line' = LineAfter(a, 0, data \o ack(r))
  BY DEF Poll
<1>13. ASSUME n # 0
       PROVE  /\ Data(Plus(snMin[a], n - 1), fifo[a][n]) \in Frames
              /\ fifo[a][n] = Base(a) + n
              /\ \A q \in Frames : q = Data(Plus(snMin[a], n - 1), fifo[a][n])
                   => DataPlaced(a, q)'
  <2> DEFINE s == Plus(snMin[a], n - 1)
             g == Got(a) - Base(a)
  <2>1. n \in 1 .. Len(fifo[a]) /\ n <= MaxWindow
    BY <1>13, <1>3, <1>6, <1>7
  <2>2. fifo[a][n] = Base(a) + n /\ fifo[a][n] \in Messages
    BY <2>1, <1>3, <1>5 DEF SessionAt, Numbered
  <2>3. n - 1 \in 0 .. SeqSpace - 1
    BY <2>1, <1>3
  <2>4. g \in Nat /\ g <= Window(a) /\ Minus(rn[p], snMin[a]) = g
    <3>1. /\ Base(a) <= Got(a) /\ Got(a) <= Base(a) + Window(a)
          /\ Minus(rn[p], snMin[a]) = Got(a) - Base(a)
      BY <1>5 DEF SessionAt, Numbered
    <3> QED BY <3>1, <1>3
  <2>5. /\ s \in SeqNumbers
        /\ g <= n - 1 => Minus(s, rn[p]) = n - 1 - g
        /\ g >= n - 1 => Minus(rn[p], s) = g - (n - 1)
    <3>1. /\ s \in SeqNumbers
          /\ Minus(rn[p], snMin[a]) <= n - 1 => Minus(s, rn[p]) = n - 1 - Minus(rn[p], snMin[a])
          /\ Minus(rn[p], snMin[a]) >= n - 1 => Minus(rn[p], s) = Minus(rn[p], snMin[a]) - (n - 1)
      <4>1. snMin[a] \in SeqNumbers /\ rn[p] \in SeqNumbers
        BY <1>3
      <4> QED BY <4>1, <2>3, MinusPlus, Zenon
    <3> HIDE DEF s
    <3> QED BY <3>1, <2>3, <2>4
  <2>6. Data(s, fifo[a][n]) \in Frames
    BY <2>2, <2>5 DEF Data, Frames
  <2> HIDE DEF s
  <2>7. ASSUME NEW q \in Frames, q = Data(s, fifo[a][n])
        PROVE  DataPlaced(a, q)'
    <3>1. q.msg = Base(a) + n /\ q.seq = s
      BY <2>2, <2>7 DEF Data
    <3> HIDE <2>7
    <3>2. q.msg <= Base(a) + Window(a)' /\ Got(a) < q.msg + MaxWindow
      BY <3>1, <2>1, <2>4, <1>3, <1>8
    <3>3. /\ q.msg > Got(a) <=> g <= n - 1
          /\ n - 1 - g = q.msg - 1 - Got(a) /\ g - (n - 1) = Got(a) + 1 - q.msg
      <4>1. q.msg = Base(a) + n /\ Base(a) \in Int /\ Got(a) \in Nat /\ n \in Int
        BY <3>1, <2>1, <1>3
      <4> QED BY <4>1
    <3>4. /\ q.msg > Got(a) => Minus(q.seq, rn[p]) = q.msg - 1 - Got(a)
          /\ q.msg <= Got(a) => Minus(rn[p], q.seq) = Got(a) + 1 - q.msg
      <4>1. q.msg <= Got(a) => g >= n - 1
        BY <3>1, <2>1, <1>3
      <4> QED BY <4>1, <3>1, <3>3, <2>5
    <3> QED BY <3>2, <3>4, <1>2, <1>4 DEF DataPlaced
  <2> QED BY <2>2, <2>6, <2>7 DEF s
<1>14. PICK frames \in Seq(Frames) :
         /\ frames = data \o ack(r)
         /\ \A f \in 1 .. Len(frames) :
              \/ f = 1 /\ n # 0 /\ frames[f] = Data(Plus(snMin[a], n - 1), fifo[a][n])
              \/ frames[f] = Ack(rn[a], r)
  <2> DEFINE D == data
             A == ack(r)
  <2>1. Ack(rn[a], r) \in Frames
    BY <1>3 DEF Ack, Frames
  <2>2. D \in Seq(Frames) /\ Len(D) \in {0, 1}
        /\ \A i \in 1 .. Len(D) : i = 1 /\ n # 0 /\ D[i] = Data(Plus(snMin[a], n - 1), fifo[a][n])
    <3>1. CASE n = 0
      BY <3>1
    <3>2. CASE n # 0
      BY <3>2, <1>13
    <3> QED BY <3>1, <3>2
  <2>3. A \in Seq(Frames) /\ Len(A) \in Nat /\ \A i \in 1 .. Len(A) : A[i] = Ack(rn[a], r)
    <3>1. CASE ackDue /\ active[a]
      BY <2>1, <3>1
    <3>2. CASE ~(ackDue /\ active[a])
      BY <3>2
    <3> QED BY <3>1, <3>2
  <2> HIDE DEF D, A
  <2>4. /\ D \o A \in Seq(Frames)
        /\ \A f \in 1 .. Len(D \o A) :
             \/ f \in 1 .. Len(D) /\ (D \o A)[f] = D[f]
             \/ f - Len(D) \in 1 .. Len(A) /\ (D \o A)[f] = A[f - Len(D)]
    BY <2>2, <2>3
  <2>5. D \o A = data \o ack(r)
    BY DEF D, A
  <2> USE <2>4
  <2> WITNESS D \o A \in Seq(Frames)
  <2> HIDE DEF data, ack
  <2> QED BY <2>2, <2>3, <2>4, <2>5
<1> HIDE DEF data, ack
<1>15. Shifted(line[a], line'[a], 0, <<>>) /\ Shifted(line[p], line'[p], 0, frames)
  <2>1. /\ LineOK /\ 0 \in {0, 1} /\ (0 = 1 => line[a] # <<>>)
        /\ line' = LineAfter(a, 0, frames)
    BY <1>12, <1>14 DEF IInv
  <2> QED BY <2>1, LineAfterShifts
<1>16. /\ \A f \in 1 .. Len(frames) : frames[f].type # "reset"
       /\ \A f \in 1 .. Len(frames) : frames[f].type = "ack" => frames[f].seq = rn'[a]
       /\ \A f \in 1 .. Len(frames) : frames[f].type = "data" => f = 1
  BY <1>14, <1>2 DEF Data, Ack
<1>17. \A q \in Frames : Behind(frames, 0, q) /\ q.type = "data" =>
            /\ DataPlaced(a, q)'
            /\ \A i \in 1 .. Len(line[p]) : line[p][i].type = "data"
                 => line[p][i].msg < q.msg + MaxWindow
  <2> SUFFICES ASSUME NEW q \in Frames, Behind(frames, 0, q), q.type = "data"
               PROVE  /\ DataPlaced(a, q)'
                      /\ \A i \in 1 .. Len(line[p]) : line[p][i].type = "data"
                           => line[p][i].msg < q.msg + MaxWindow
    OBVIOUS
  <2>1. n # 0 /\ q = Data(Plus(snMin[a], n - 1), fifo[a][n])
    BY <1>14 DEF Behind, Ack
  <2>2. DataPlaced(a, q)' /\ q.msg = Base(a) + n
    BY <2>1, <1>13 DEF Data
  <2>3. \A i \in 1 .. Len(line[p]) : line[p][i].type = "data" =>
           /\ line[p][i].msg \in Nat
           /\ line[p][i].msg <= Base(a) + Window(a)
    <3> TAKE i \in 1 .. Len(line[p])
    <3> HAVE line[p][i].type = "data"
    <3>1. line[p][i] \in Frames
      BY <1>3
    <3>2. line[p][i].msg \in Nat
      BY <3>1, FrameFields DEF Messages
    <3>3. DataPlaced(a, line[p][i])
      BY <1>5 DEF SessionAt, DataOnTheWay
    <3> QED BY <3>2, <3>3 DEF DataPlaced
  <2>4. ASSUME NEW i \in 1 .. Len(line[p]), line[p][i].type = "data"
        PROVE  line[p][i].msg < q.msg + MaxWindow
    <3>1. line[p][i].msg \in Nat /\ line[p][i].msg <= Base(a) + Window(a)
      BY <2>3, <2>4
    <3>2. n \in Int /\ n >= 1 /\ q.msg = Base(a) + n
      BY <2>1, <2>2
    <3>3. /\ Window(a) \in Nat /\ Window(a) <= MaxWindow /\ MaxWindow \in Nat
          /\ Base(a) \in Int
      BY <1>3
    <3> QED BY <3>1, <3>2, <3>3
  <2> QED BY <2>2, <2>4
<1>18. \A q \in Frames : Behind(line[a], 0, q) /\ q.type = "data" => DataPlaced(p, q)'
  BY <1>1, <1>5, <1>11 DEF SessionAt, DataOnTheWay, Behind
<1>19. /\ \A i \in 1 .. Len(line[a]) : i > 0 /\ line[a][i].type = "ack"
            => Minus(line[a][i].seq, snMin'[a]) <= Got(a)' - Base(a)'
       /\ \A i, j \in 1 .. Len(line[a]) :
            0 < i /\ i < j /\ line[a][i].type = "ack" /\ line[a][j].type = "ack"
            => Minus(line[a][i].seq, snMin'[a]) <= Minus(line[a][j].seq, snMin'[a])
  BY <1>2, <1>4, <1>5 DEF SessionAt, AcksOnTheWay
<1>20. snMin'[p] = snMin[p] /\ Base(p)' = Base(p) /\ Got(p)' >= Got(p) /\ 0 \in {0, 1}
  BY <1>1, <1>2, <1>3, <1>4
<1>21. \A q \in Frames : q.type = "data" /\ DataPlaced(a, q) => DataPlaced(a, q)'
  BY <1>11
<1> QED BY <1>10, <1>15, <1>16, <1>17, <1>18, <1>19, <1>20, <1>21, SessionGoesOn

\* A frame of data reaches the application when it is the next one: the order of the line
\* keeps every other in its place.
LEMMA ReceiveDataInSession ==
  ASSUME IInv, IInv', Session, NEW a \in Ends, ReceiveData(a)
  PROVE  /\ Session'
         /\ \/ arrived' = arrived
            \/ /\ arrived' = [arrived EXCEPT ![Peer(a)] = Append(@, Len(@) + 1)]
               /\ Len(arrived[Peer(a)]) < offered[Peer(a)]
<1> DEFINE p == Peer(a)
           h == Head(line[a])
<1>1. p \in Ends /\ p # a /\ Peer(p) = a
  BY PeerInEnds, PeerOfPeer
<1>2. UNCHANGED <<fifo, snMin, snMax, offered, freed>>
  BY DEF ReceiveData, sender
<1>3. \A d \in Ends : Base(d)' = Base(d) /\ Window(d)' = Window(d)
  BY <1>2 DEF Base, Window
<1>4. /\ Base(p) \in Int /\ Got(p) \in Nat /\ Got(a) \in Nat /\ Window(p) \in Nat
      /\ Window(p) <= MaxWindow /\ Window(p) <= Len(fifo[p]) /\ Len(fifo[p]) \in Nat
      /\ snMin[p] \in SeqNumbers /\ rn[a] \in SeqNumbers /\ rn[p] \in SeqNumbers
      /\ line[a] \in Seq(Frames) /\ offered[p] \in Nat
      /\ arrived[p] \in Seq(Messages)
      /\ MaxWindow \in Nat /\ SeqSpace \in Nat /\ 0 < MaxWindow /\ MaxWindow < SeqSpace
  <2>1. 0 < MaxWindow /\ MaxWindow \in Nat /\ SeqSpace \in Nat /\ MaxWindow < SeqSpace
    BY MinTransportAssumption
  <2> QED BY <1>1, <2>1, SessionTypes, WindowBounds
<1>5. SessionAt(a) /\ SessionAt(p)
  BY <1>1 DEF Session
<1>6. /\ line[a] # <<>> /\ h \in Frames /\ h.type = "data"
      /\ Len(line[a]) \in Nat /\ 1 \in 1 .. Len(line[a]) /\ line[a][1] = h
  BY <1>4 DEF ReceiveData, Receives
<1>7. DataPlaced(p, h) /\ h.msg \in Messages /\ h.seq \in SeqNumbers
  BY <1>1, <1>5, <1>6, FrameFields DEF SessionAt, DataOnTheWay
<1>8. \A q \in Frames : Behind(line[a], 1, q) /\ q.type = "data" =>
         DataPlaced(p, q) /\ h.msg < q.msg + MaxWindow
  BY <1>1, <1>5, <1>6 DEF SessionAt, DataOnTheWay, Behind
<1>9. \A q \in Frames : q.type = "data" => q.msg \in Nat /\ q.seq \in SeqNumbers
  BY FrameFields DEF Messages
<1>10. /\ \A i \in 1 .. Len(line[a]) : i > 1 /\ line[a][i].type = "ack"
            => Minus(line[a][i].seq, snMin[a]) <= Got(a) - Base(a)
       /\ \A i, j \in 1 .. Len(line[a]) :
            1 < i /\ i < j /\ line[a][i].type = "ack" /\ line[a][j].type = "ack"
            => Minus(line[a][i].seq, snMin[a]) <= Minus(line[a][j].seq, snMin[a])
  BY <1>5 DEF SessionAt, AcksOnTheWay
<1> HIDE DEF h
<1>11. CASE h.seq = rn[a]
  <2>1. h.msg = Got(p) + 1
    <3>1. h.msg \in Nat
      BY <1>7 DEF Messages
    <3>2. Minus(rn[a], rn[a]) = 0
      BY <1>4 DEF Minus
    <3> QED BY <3>1, <3>2, <1>1, <1>4, <1>7, <1>11 DEF DataPlaced
  <2>2. /\ rn'[a] = Plus(rn[a], 1) /\ rn'[p] = rn[p]
        /\ arrived' = [arrived EXCEPT ![p] = Append(@, h.msg)]
    BY <1>1, <1>11 DEF ReceiveData, h, IInv, ReceiverOK
  <2>3. Got(p)' = Got(p) + 1 /\ Got(a)' = Got(a)
    BY <1>1, <1>4, <1>7, <2>2 DEF Got, IInv, HistoryOK
  <2>4. Got(p) + 1 <= Base(p) + Window(p)
    BY <2>1, <1>7 DEF DataPlaced
  <2>5. /\ Base(p) \in Nat /\ Base(p) <= Got(p) /\ Minus(rn[a], snMin[p]) = Got(p) - Base(p)
    BY <1>1, <1>5 DEF SessionAt, Numbered
  <2>6. Numbered(p)'
    <3>1. Minus(Plus(rn[a], 1), snMin[p]) = Got(p) + 1 - Base(p)
      <4>1. Minus(rn[a], snMin[p]) < SeqSpace - 1
        BY <2>4, <2>5, <1>4
      <4>2. Minus(Plus(rn[a], 1), snMin[p]) = Minus(rn[a], snMin[p]) + 1
        BY <4>1, <1>4, MinusGrows
      <4> QED BY <4>2, <2>5, <1>4
    <3>2. Base(p) <= Got(p) + 1
      BY <2>5, <1>4
    <3>3. Base(p) <= Got(p)' /\ Got(p)' <= Base(p) + Window(p)
          /\ Minus(rn'[a], snMin[p]) = Got(p)' - Base(p)
      <4>1. rn'[a] = Plus(rn[a], 1) /\ Got(p)' = Got(p) + 1
        BY <2>2, <2>3
      <4> HIDE DEF p
      <4> QED BY <4>1, <2>4, <3>1, <3>2, <1>4
    <3>4. freed[p] = 1 .. Base(p) /\ \A i \in 1 .. Len(fifo[p]) : fifo[p][i] = Base(p) + i
      BY <1>5 DEF SessionAt, Numbered
    <3> HIDE DEF p
    <3> QED BY <1>1, <1>2, <1>3, <2>5, <3>3, <3>4 DEF Numbered
  <2>7. Numbered(a)'
    BY <1>1, <1>2, <1>3, <1>5, <2>2, <2>3 DEF SessionAt, Numbered
  <2>8. PICK r \in Rooms : line' = LineAfter(a, 1, <<Ack(rn'[a], r)>>)
    BY <1>11 DEF ReceiveData, h
  <2>9. PICK frames \in Seq(Frames) : frames = <<Ack(rn'[a], r)>>
    <3>1. Ack(rn'[a], r) \in Frames
      BY <2>2, <1>4, PlusOne DEF Ack, Frames
    <3>2. <<Ack(rn'[a], r)>> \in Seq(Frames)
      BY <3>1
    <3> QED BY <3>2
  <2>10. /\ Len(frames) = 1 /\ frames[1] = Ack(rn'[a], r)
         /\ line' = LineAfter(a, 1, frames)
    BY <2>8, <2>9
  <2>11. Shifted(line[a], line'[a], 1, <<>>) /\ Shifted(line[p], line'[p], 0, frames)
    BY <2>10, <1>6, LineAfterShifts DEF IInv
  <2>12. /\ \A f \in 1 .. Len(frames) : frames[f].type # "reset"
         /\ \A f \in 1 .. Len(frames) : frames[f].type = "ack" => frames[f].seq = rn'[a]
         /\ \A f \in 1 .. Len(frames) : frames[f].type = "data" => f = 1
         /\ \A q : Behind(frames, 0, q) => q.type # "data"
    BY <2>10 DEF Ack, Behind
  <2>13. \A q \in Frames : q.type = "data" /\ DataPlaced(a, q) => DataPlaced(a, q)'
    BY <1>1, <1>3, <2>2, <2>3 DEF DataPlaced
  <2>14. \A q \in Frames : Behind(line[a], 1, q) /\ q.type = "data" => DataPlaced(p, q)'
    <3> SUFFICES ASSUME NEW q \in Frames, Behind(line[a], 1, q), q.type = "data"
                 PROVE  DataPlaced(p, q)'
      OBVIOUS
    <3>1. DataPlaced(p, q) /\ h.msg < q.msg + MaxWindow
      BY <1>8
    <3>2. q.msg \in Nat /\ q.seq \in SeqNumbers
      BY <1>9
    <3>3. q.msg <= Base(p) + Window(p) /\ Got(p) + 1 < q.msg + MaxWindow
      BY <3>1, <2>1 DEF DataPlaced
    <3>4. /\ q.msg > Got(p) => Minus(q.seq, rn[a]) = q.msg - 1 - Got(p)
          /\ q.msg <= Got(p) => Minus(rn[a], q.seq) = Got(p) + 1 - q.msg
      BY <3>1, <1>1 DEF DataPlaced
    <3> DEFINE x == q.msg
               g == Got(p)
    <3>5. x \in Nat /\ g \in Nat /\ SeqSpace \in Nat /\ MaxWindow < SeqSpace
          /\ MaxWindow \in Nat /\ g + 1 < x + MaxWindow /\ 1 \in 0 .. SeqSpace - 1
      BY <3>2, <3>3, <1>4
    <3>6. /\ x > g => Minus(q.seq, rn[a]) = x - 1 - g
          /\ x <= g => Minus(rn[a], q.seq) = g + 1 - x
      BY <3>4
    <3> HIDE DEF x, g
    <3>7. x > g + 1 => Minus(q.seq, Plus(rn[a], 1)) = x - 1 - (g + 1)
      <4> SUFFICES ASSUME x > g + 1
                   PROVE  Minus(q.seq, Plus(rn[a], 1)) = x - 1 - (g + 1)
        OBVIOUS
      <4>1. Minus(q.seq, rn[a]) = x - 1 - g /\ Minus(q.seq, rn[a]) >= 1
        BY <3>5, <3>6
      <4>2. Minus(q.seq, Plus(rn[a], 1)) = Minus(q.seq, rn[a]) - 1
        <5>1. Minus(q.seq, rn[a]) >= 1 => Minus(q.seq, Plus(rn[a], 1)) = Minus(q.seq, rn[a]) - 1
          BY <3>2, <3>5, <1>4, MinusPlus, Zenon
        <5> QED BY <4>1, <5>1
      <4> QED BY <4>1, <4>2, <3>5
    <3>8. x <= g + 1 => Minus(Plus(rn[a], 1), q.seq) = g + 1 + 1 - x
      <4>1. CASE x <= g
        <5>1. Minus(rn[a], q.seq) = g + 1 - x
          BY <4>1, <3>6
        <5>2. Minus(rn[a], q.seq) < SeqSpace - 1
          BY <5>1, <3>5
        <5>3. Minus(Plus(rn[a], 1), q.seq) = Minus(rn[a], q.seq) + 1
          BY <5>2, <3>2, <1>4, MinusGrows
        <5>4. Minus(Plus(rn[a], 1), q.seq) = g + 1 - x + 1
          BY <5>1, <5>3
        <5> QED BY <5>4, <3>5
      <4>2. CASE x = g + 1
        <5>1. Minus(q.seq, rn[a]) = 0
          BY <4>2, <3>5, <3>6
        <5>2. Minus(q.seq, rn[a]) <= 1
          BY <5>1
        <5>3. Minus(Plus(rn[a], 1), q.seq) = 1 - Minus(q.seq, rn[a])
          BY <5>2, <3>5, <3>2, <1>4, MinusPlus, Zenon
        <5> QED BY <5>1, <5>3, <4>2, <3>5
      <4> QED BY <4>1, <4>2, <3>5
    <3>9. /\ q.msg > Got(p) + 1 => Minus(q.seq, Plus(rn[a], 1)) = q.msg - 1 - (Got(p) + 1)
          /\ q.msg <= Got(p) + 1 => Minus(Plus(rn[a], 1), q.seq) = Got(p) + 1 + 1 - q.msg
      BY <3>7, <3>8 DEF x, g
    <3> HIDE DEF p
    <3> QED BY <1>1, <1>3, <2>2, <2>3, <3>3, <3>9 DEF DataPlaced
  <2>15. Base(p)' = Base(p) /\ Got(p)' >= Got(p) /\ snMin'[p] = snMin[p] /\ snMin' = snMin
         /\ Got(a)' = Got(a) /\ Base(a)' = Base(a) /\ 1 \in {0, 1}
    BY <1>1, <1>2, <1>3, <1>4, <2>3
  <2>16. /\ \A i \in 1 .. Len(line[a]) : i > 1 /\ line[a][i].type = "ack"
              => Minus(line[a][i].seq, snMin'[a]) <= Got(a)' - Base(a)'
         /\ \A i, j \in 1 .. Len(line[a]) :
              1 < i /\ i < j /\ line[a][i].type = "ack" /\ line[a][j].type = "ack"
              => Minus(line[a][i].seq, snMin'[a]) <= Minus(line[a][j].seq, snMin'[a])
    BY <1>10, <2>15
  <2>17. Session'
    BY <2>6, <2>7, <2>11, <2>12, <2>13, <2>14, <2>15, <2>16, SessionGoesOn
  <2>18. Len(arrived[p]) < offered[p]
    <3>1. offered[p] = Base(p) + Len(fifo[p])
      BY <1>4 DEF Base
    <3> QED BY <3>1, <2>4, <1>4 DEF Got
  <2>19. arrived' = [arrived EXCEPT ![p] = Append(@, Len(@) + 1)]
    BY <2>1, <2>2 DEF Got
  <2> QED BY <2>17, <2>18, <2>19
<1>12. CASE h.seq # rn[a]
  <2>1. UNCHANGED <<rn, arrived>> /\ line' = LineAfter(a, 1, <<>>)
    BY <1>12 DEF ReceiveData, h
  <2>2. \A d \in Ends : Got(d)' = Got(d)
    BY <2>1 DEF Got
  <2>3. Numbered(a)' /\ Numbered(p)'
    BY <1>1, <1>2, <1>3, <1>5, <2>1, <2>2 DEF SessionAt, Numbered
  <2>4. Shifted(line[a], line'[a], 1, <<>>) /\ Shifted(line[p], line'[p], 0, <<>>)
    <3>1. LineOK /\ <<>> \in Seq(Frames) /\ 1 \in {0, 1}
      BY DEF IInv
    <3> QED BY <3>1, <2>1, <1>6, LineAfterShifts
  <2>5. \A d \in Ends, q \in Frames : DataPlaced(d, q) => DataPlaced(d, q)'
    BY <1>2, <1>3, <2>1, <2>2 DEF DataPlaced
  <2>6. \A q \in Frames : Behind(line[a], 1, q) /\ q.type = "data" => DataPlaced(p, q)'
    BY <1>1, <1>8, <2>5
  <2>7. /\ \A i \in 1 .. Len(line[a]) : i > 1 /\ line[a][i].type = "ack"
            => Minus(line[a][i].seq, snMin'[a]) <= Got(a)' - Base(a)'
        /\ \A i, j \in 1 .. Len(line[a]) :
            1 < i /\ i < j /\ line[a][i].type = "ack" /\ line[a][j].type = "ack"
            => Minus(line[a][i].seq, snMin'[a]) <= Minus(line[a][j].seq, snMin'[a])
    BY <1>2, <1>3, <1>10, <2>2
  <2>8. /\ \A q : ~Behind(<<>>, 0, q)
        /\ \A f \in 1 .. Len(<<>>) : FALSE
        /\ \A q \in Frames : q.type = "data" /\ DataPlaced(a, q) => DataPlaced(a, q)'
        /\ snMin'[p] = snMin[p] /\ Base(p)' = Base(p) /\ Got(p)' >= Got(p)
        /\ 1 \in {0, 1} /\ <<>> \in Seq(Frames)
    BY <1>1, <1>2, <1>3, <1>4, <2>2, <2>5 DEF Behind
  <2> QED BY <2>1, <2>3, <2>4, <2>6, <2>7, <2>8, SessionGoesOn
<1> QED BY <1>11, <1>12

\* An acknowledgement of the session frees the frames it speaks of: they have arrived.
LEMMA ReceiveAckInSession ==
  ASSUME IInv, IInv', Session, NEW a \in Ends, ReceiveAck(a)
  PROVE  /\ Session'
         /\ UNCHANGED <<offered, arrived>>
         /\ Base(a) <= Base(a)' /\ Base(a)' <= Got(a) /\ freed' = [freed EXCEPT ![a] = 1 .. Base(a)']
<1> DEFINE p == Peer(a)
           h == Head(line[a])
           acked == Minus(h.seq, snMin[a])
<1>1. p \in Ends /\ p # a /\ Peer(p) = a
  BY PeerInEnds, PeerOfPeer
<1>2. UNCHANGED <<snMax, rn, offered, arrived>> /\ line' = LineAfter(a, 1, <<>>)
  BY DEF ReceiveAck
<1>3. /\ Base(a) \in Int /\ Got(a) \in Nat /\ Got(p) \in Nat /\ Window(a) \in Nat
      /\ Window(a) <= Len(fifo[a]) /\ Len(fifo[a]) \in Nat /\ fifo[a] \in Seq(Messages)
      /\ snMin[a] \in SeqNumbers /\ snMax[a] \in SeqNumbers /\ rn[p] \in SeqNumbers
      /\ line[a] \in Seq(Frames) /\ offered[a] \in Nat
  BY <1>1, SessionTypes, WindowBounds
<1>4. SessionAt(a) /\ SessionAt(p)
  BY <1>1 DEF Session
<1>5. /\ line[a] # <<>> /\ h \in Frames /\ h.type = "ack"
      /\ Len(line[a]) \in Nat /\ 1 \in 1 .. Len(line[a]) /\ line[a][1] = h
  BY <1>3 DEF ReceiveAck, Receives
<1>6. h.seq \in SeqNumbers
  BY <1>5, FrameFields
<1>7. acked \in Nat
  BY <1>3, <1>6, MinusNat
<1>8. acked <= Got(a) - Base(a)
  BY <1>4, <1>5 DEF SessionAt, AcksOnTheWay
<1>9. /\ Base(a) \in Nat /\ Base(a) <= Got(a) /\ Got(a) <= Base(a) + Window(a)
      /\ Minus(rn[p], snMin[a]) = Got(a) - Base(a) /\ freed[a] = 1 .. Base(a)
      /\ \A i \in 1 .. Len(fifo[a]) : fifo[a][i] = Base(a) + i
  BY <1>4 DEF SessionAt, Numbered
<1>10. acked <= Window(a) /\ acked <= Len(fifo[a])
  <2> HIDE DEF acked
  <2> QED BY <1>3, <1>7, <1>8, <1>9
<1>11. /\ snMin' = [snMin EXCEPT ![a] = h.seq]
       /\ fifo' = [fifo EXCEPT ![a] = SubSeq(@, acked + 1, Len(@))]
       /\ freed' = [freed EXCEPT ![a] = @ \cup ToSet(SubSeq(fifo[a], 1, acked))]
  BY <1>10 DEF ReceiveAck
<1>12. /\ Len(fifo'[a]) = Len(fifo[a]) - acked
       /\ \A i \in 1 .. Len(fifo[a]) - acked : fifo'[a][i] = Base(a) + acked + i
  <2> DEFINE rest == SubSeq(fifo[a], acked + 1, Len(fifo[a]))
  <2>1. fifo'[a] = rest
    BY <1>11 DEF IInv, SenderOK
  <2> HIDE DEF acked
  <2>2. \A i \in acked + 1 .. Len(fifo[a]) : fifo[a][i] \in Messages
    BY <1>3, <1>7
  <2>3. /\ Len(rest) = Len(fifo[a]) - acked
        /\ \A i \in 1 .. Len(fifo[a]) - acked : rest[i] = fifo[a][acked + i]
    BY <2>2, <1>3, <1>7, <1>10, SubSeqProperties
  <2> HIDE DEF rest
  <2>4. \A i \in 1 .. Len(fifo[a]) - acked : /\ acked + i \in 1 .. Len(fifo[a])
                                             /\ Base(a) + (acked + i) = Base(a) + acked + i
    BY <1>3, <1>7
  <2> QED BY <2>1, <2>3, <2>4, <1>9
<1>13. ToSet(SubSeq(fifo[a], 1, acked)) = Base(a) + 1 .. Base(a) + acked
  <2> DEFINE gone == SubSeq(fifo[a], 1, acked)
  <2> HIDE DEF acked
  <2>1. \A i \in 1 .. acked : fifo[a][i] \in Messages
    BY <1>3, <1>7, <1>10
  <2>2. Len(gone) = acked /\ \A i \in 1 .. acked : gone[i] = fifo[a][i] /\ DOMAIN gone = 1 .. acked
    BY <2>1, <1>3, <1>7, <1>10, SubSeqProperties
  <2> HIDE DEF gone
  <2>3. \A i \in 1 .. acked : gone[i] = Base(a) + i
    <3>1. \A i \in 1 .. acked : i \in 1 .. Len(fifo[a])
      BY <1>3, <1>7, <1>10
    <3> QED BY <2>2, <3>1, <1>9
  <2>4. ToSet(gone) = {gone[i] : i \in 1 .. acked}
    BY <2>2 DEF ToSet
  <2>5. \A x \in Base(a) + 1 .. Base(a) + acked : x - Base(a) \in 1 .. acked /\ x = Base(a) + (x - Base(a))
    BY <1>3, <1>7
  <2>6. \A i \in 1 .. acked : Base(a) + i \in Base(a) + 1 .. Base(a) + acked
    BY <1>3, <1>7
  <2>7. ToSet(gone) = Base(a) + 1 .. Base(a) + acked
    BY <2>3, <2>4, <2>5, <2>6
  <2> QED BY <2>7 DEF gone
<1>14. Base(a)' = Base(a) + acked
  <2> HIDE DEF acked
  <2> QED BY <1>2, <1>3, <1>7, <1>12 DEF Base
<1>15. freed' = [freed EXCEPT ![a] = 1 .. Base(a) + acked]
  <2>1. (1 .. Base(a)) \cup (Base(a) + 1 .. Base(a) + acked) = 1 .. Base(a) + acked
    <3> HIDE DEF acked
    <3> QED BY <1>7, <1>9
  <2> HIDE DEF acked
  <2> QED BY <2>1, <1>9, <1>11, <1>13
<1>16. /\ Base(a) <= Base(a)' /\ Base(a)' <= Got(a)
  <2> HIDE DEF acked
  <2> QED BY <1>3, <1>7, <1>8, <1>14
<1>17. Base(p)' = Base(p) /\ Window(p)' = Window(p) /\ fifo'[p] = fifo[p] /\ freed'[p] = freed[p]
       /\ snMin'[p] = snMin[p] /\ snMin'[a] = h.seq
  BY <1>1, <1>2, <1>11 DEF Base, Window, IInv, SenderOK, HistoryOK
<1>18. Got(a)' = Got(a) /\ Got(p)' = Got(p)
  BY <1>2 DEF Got
<1>19. Window(a)' = Window(a) - acked
  <2>1. Minus(snMax[a], h.seq) = Minus(snMax[a], snMin[a]) - acked
    BY <1>3, <1>6, <1>10, MinusShrinks DEF Window
  <2> QED BY <2>1, <1>2, <1>17 DEF Window
<1>20. Base(a)' + Window(a)' = Base(a) + Window(a)
  <2> HIDE DEF acked
  <2> QED BY <1>3, <1>7, <1>14, <1>19
<1>21. Numbered(a)'
  <2>1. Base(a)' \in Nat /\ freed'[a] = 1 .. Base(a)'
    <3>1. freed'[a] = 1 .. Base(a) + acked
      BY <1>15 DEF IInv, HistoryOK
    <3> HIDE DEF acked
    <3> QED BY <3>1, <1>7, <1>9, <1>14
  <2>2. \A i \in 1 .. Len(fifo'[a]) : fifo'[a][i] = Base(a)' + i
    <3> HIDE DEF acked
    <3> QED BY <1>12, <1>14
  <2>3. Minus(rn[p], h.seq) = Minus(rn[p], snMin[a]) - acked
    <3>1. acked <= Minus(rn[p], snMin[a])
      BY <1>8, <1>9
    <3> QED BY <3>1, <1>3, <1>6, MinusShrinks
  <2>4. Minus(rn[p], h.seq) = Got(a) - Base(a)'
    <3> HIDE DEF acked
    <3> QED BY <2>3, <1>3, <1>7, <1>9, <1>14
  <2> HIDE DEF acked, h
  <2> QED BY <1>2, <1>9, <1>16, <1>17, <1>18, <1>20, <2>1, <2>2, <2>4 DEF Numbered
<1>22. Numbered(p)'
  <2> HIDE DEF acked, h
  <2> QED BY <1>1, <1>2, <1>4, <1>17, <1>18 DEF SessionAt, Numbered
<1>23. Shifted(line[a], line'[a], 1, <<>>) /\ Shifted(line[p], line'[p], 0, <<>>)
  <2>1. LineOK /\ <<>> \in Seq(Frames) /\ 1 \in {0, 1}
    BY DEF IInv
  <2> QED BY <2>1, <1>2, <1>5, LineAfterShifts
<1>24. \A d \in Ends, q \in Frames : q.type = "data" /\ DataPlaced(d, q) => DataPlaced(d, q)'
  <2> HIDE DEF acked, h
  <2> SUFFICES ASSUME NEW d \in Ends, NEW q \in Frames, DataPlaced(d, q)
               PROVE  DataPlaced(d, q)'
    OBVIOUS
  <2>1. Base(d)' + Window(d)' = Base(d) + Window(d) /\ Got(d)' = Got(d)
    BY <1>17, <1>18, <1>20, PeerOfPeer
  <2> QED BY <2>1, <1>2 DEF DataPlaced
<1>25. \A q \in Frames : Behind(line[a], 1, q) /\ q.type = "data" => DataPlaced(p, q)'
  BY <1>1, <1>4, <1>24 DEF SessionAt, DataOnTheWay, Behind
<1>26. ASSUME NEW i \in 1 .. Len(line[a]), i > 1, line[a][i].type = "ack"
       PROVE  /\ Minus(line[a][i].seq, h.seq) = Minus(line[a][i].seq, snMin[a]) - acked
              /\ Minus(line[a][i].seq, snMin[a]) \in Nat
              /\ Minus(line[a][i].seq, snMin[a]) <= Got(a) - Base(a)
  <2>1. line[a][i].seq \in SeqNumbers
    BY <1>3, <1>26, FrameFields
  <2>2. /\ acked <= Minus(line[a][i].seq, snMin[a])
        /\ Minus(line[a][i].seq, snMin[a]) <= Got(a) - Base(a)
    BY <1>4, <1>5, <1>26 DEF SessionAt, AcksOnTheWay
  <2>3. Minus(line[a][i].seq, snMin[a]) \in Nat
    BY <2>1, <1>3, MinusNat
  <2>4. Minus(line[a][i].seq, h.seq) = Minus(line[a][i].seq, snMin[a]) - acked
    BY <2>1, <2>2, <1>3, <1>6, MinusShrinks
  <2> QED BY <2>2, <2>3, <2>4
<1>27. \A i \in 1 .. Len(line[a]) : i > 1 /\ line[a][i].type = "ack"
            => Minus(line[a][i].seq, snMin'[a]) <= Got(a)' - Base(a)'
  <2> TAKE i \in 1 .. Len(line[a])
  <2> HAVE i > 1 /\ line[a][i].type = "ack"
  <2>1. /\ Minus(line[a][i].seq, h.seq) = Minus(line[a][i].seq, snMin[a]) - acked
        /\ Minus(line[a][i].seq, snMin[a]) \in Nat
        /\ Minus(line[a][i].seq, snMin[a]) <= Got(a) - Base(a)
    BY <1>26
  <2> HIDE DEF acked, h
  <2> QED BY <2>1, <1>3, <1>7, <1>14, <1>17, <1>18
<1>28. \A i, j \in 1 .. Len(line[a]) :
            1 < i /\ i < j /\ line[a][i].type = "ack" /\ line[a][j].type = "ack"
            => Minus(line[a][i].seq, snMin'[a]) <= Minus(line[a][j].seq, snMin'[a])
  <2> TAKE i, j \in 1 .. Len(line[a])
  <2> HAVE 1 < i /\ i < j /\ line[a][i].type = "ack" /\ line[a][j].type = "ack"
  <2>1. /\ Minus(line[a][i].seq, h.seq) = Minus(line[a][i].seq, snMin[a]) - acked
        /\ Minus(line[a][i].seq, snMin[a]) \in Nat
    BY <1>26
  <2>2. /\ Minus(line[a][j].seq, h.seq) = Minus(line[a][j].seq, snMin[a]) - acked
        /\ Minus(line[a][j].seq, snMin[a]) \in Nat
    <3>1. j > 1
      BY <1>5
    <3> QED BY <3>1, <1>26
  <2>3. Minus(line[a][i].seq, snMin[a]) <= Minus(line[a][j].seq, snMin[a])
    BY <1>4 DEF SessionAt, AcksOnTheWay
  <2> HIDE DEF acked, h
  <2> QED BY <2>1, <2>2, <2>3, <1>7, <1>17
<1>29. /\ \A q : ~Behind(<<>>, 0, q)
       /\ \A f \in 1 .. Len(<<>>) : FALSE
       /\ \A q \in Frames : q.type = "data" /\ DataPlaced(a, q) => DataPlaced(a, q)'
       /\ snMin'[p] = snMin[p] /\ Base(p)' = Base(p) /\ Got(p)' >= Got(p)
       /\ 1 \in {0, 1} /\ <<>> \in Seq(Frames)
  <2> HIDE DEF acked, h
  <2> QED BY <1>3, <1>17, <1>18, <1>24 DEF Behind
<1>30. Session'
  <2> HIDE DEF acked, h
  <2> QED BY <1>21, <1>22, <1>23, <1>25, <1>27, <1>28, <1>29, SessionGoesOn
<1> HIDE DEF acked, h
<1> QED BY <1>2, <1>14, <1>15, <1>16, <1>30

-----------------------------------------------------------------------------
\* Every step that has seen no reset keeps the session and is a step of the reliable link.
LEMMA SessionStep ==
  ASSUME IInv, IInv', SInv, [Next]_vars, resets' = 0
  PROVE  Session' /\ [Link!Next]_(Link!vars)
<1>1. resets = 0 /\ Session
  <2>1. resets \in Nat /\ (resets' = resets \/ resets' = resets + 1)
    <3>1. resets \in Nat
      BY DEF IInv, HistoryOK
    <3>2. resets' = resets \/ \E e \in Ends : IdleReset(e)
      BY DEF Next, vars, Queue, Poll, GoIdle, ReceiveData, ReceiveAck, ReceiveReset, Lose
    <3> QED BY <3>1, <3>2 DEF IdleReset
  <2> QED BY <2>1 DEF SInv
<1>2. \A e \in Ends : ~IdleReset(e)
  BY <1>1 DEF IdleReset
<1>3. \A e \in Ends : ~ReceiveReset(e)
  <2> TAKE e \in Ends
  <2>1. line[e] \in Seq(Frames) /\ NoResetOnTheWay(e)
    BY <1>1, SessionTypes DEF Session, SessionAt
  <2> QED BY <2>1 DEF ReceiveReset, Receives, NoResetOnTheWay
<1>4. ASSUME NEW e \in Talkers, Queue(e)
      PROVE  Session' /\ Link!Next
  <2>1. e \in Ends
    BY MinTransportAssumption
  <2>2. Numbered(e) /\ Len(fifo[e]) \in 0 .. MaxFrames - 1 /\ offered[e] \in Int
    <3>1. Len(fifo[e]) \in Nat /\ offered[e] \in Nat
      BY <2>1, SessionTypes
    <3>2. Len(fifo[e]) < MaxFrames /\ MaxFrames \in Nat
      BY <1>4, MinTransportAssumption DEF Queue
    <3> QED BY <1>1, <2>1, <3>1, <3>2 DEF Session, SessionAt
  <2>3. freed[e] = 1 .. (offered[e] - Len(fifo[e]))
    BY <2>2 DEF Numbered, Base
  <2>4. Link!Offer(e)
    BY <1>4, <2>2, <2>3 DEF Link!Offer, Queue
  <2> QED BY <1>1, <1>4, <2>1, <2>4, QueueInSession DEF Link!Next
<1>5. ASSUME NEW e \in Ends, NEW n \in 0 .. MaxFrames, NEW ackDue \in BOOLEAN, Poll(e, n, ackDue)
      PROVE  Session' /\ UNCHANGED Link!vars
  BY <1>1, <1>5, PollInSession DEF Poll, history, Link!vars
<1>6. ASSUME NEW e \in Ends, GoIdle(e)
      PROVE  Session' /\ UNCHANGED Link!vars
  BY <1>1, <1>6, SessionUnchanged DEF GoIdle, sender, history, Link!vars
<1>7. ASSUME NEW e \in Ends, Lose(e)
      PROVE  Session' /\ UNCHANGED Link!vars
  BY <1>1, <1>7, LossInSession DEF Lose, history, Link!vars
<1>8. ASSUME NEW e \in Ends, ReceiveData(e)
      PROVE  Session' /\ (Link!Next \/ UNCHANGED Link!vars)
  <2>1. UNCHANGED <<offered, freed>>
    BY <1>8 DEF ReceiveData
  <2> QED BY <1>1, <1>8, <2>1, ReceiveDataInSession, PeerInEnds
          DEF Link!Next, Link!Arrive, Link!vars
<1>9. ASSUME NEW e \in Ends, ReceiveAck(e)
      PROVE  Session' /\ (Link!Next \/ UNCHANGED Link!vars)
  <2>1. /\ Session' /\ UNCHANGED <<offered, arrived>>
        /\ Base(e) <= Base(e)' /\ Base(e)' <= Got(e)
        /\ freed' = [freed EXCEPT ![e] = 1 .. Base(e)']
    BY <1>1, <1>9, ReceiveAckInSession
  <2>2. Base(e) \in Nat /\ freed[e] = 1 .. Base(e) /\ freed \in [Ends -> SUBSET Messages]
    BY <1>1 DEF Session, SessionAt, Numbered, IInv, HistoryOK
  <2>3. Base(e)' \in Nat
    BY <2>1 DEF Session, SessionAt, Numbered
  <2>4. CASE Base(e)' = Base(e)
    <3>1. freed' = freed
      BY <2>1, <2>2, <2>4
    <3> QED BY <2>1, <3>1 DEF Link!vars
  <2>5. CASE Base(e)' # Base(e)
    <3>1. PICK b : b = Base(e)'
      OBVIOUS
    <3>2. /\ b \in 1 .. Len(arrived[e]) /\ Base(e) < b
          /\ freed' = [freed EXCEPT ![e] = 1 .. b]
      BY <2>1, <2>2, <2>3, <2>5, <3>1, SessionTypes DEF Got
    <3>3. b \in 1 .. b /\ b \notin 1 .. Base(e) /\ 1 .. Base(e) \subseteq 1 .. b
      BY <2>2, <3>2
    <3>4. 1 .. b # freed[e] /\ freed[e] \subseteq 1 .. b
      BY <2>2, <3>3
    <3>5. Link!Free(e)
      BY <2>1, <3>2, <3>4 DEF Link!Free
    <3> QED BY <2>1, <3>5 DEF Link!Next
  <2> QED BY <2>4, <2>5
<1>10. ASSUME UNCHANGED vars
       PROVE  Session' /\ UNCHANGED Link!vars
  BY <1>1, <1>10, SessionUnchanged DEF vars, Link!vars
<1> QED BY <1>2, <1>3, <1>4, <1>5, <1>6, <1>7, <1>8, <1>9, <1>10 DEF Next

\* A session starts with nothing on the way.
LEMMA SessionStarts == Init => SInv
<1> SUFFICES ASSUME Init, NEW e \in Ends PROVE SessionAt(e)
  BY DEF SInv, Session
<1>1. Peer(e) \in Ends /\ 0 \in SeqNumbers
  BY PeerInEnds, MinTransportAssumption
<1>2. /\ fifo[e] = <<>> /\ offered[e] = 0 /\ arrived[e] = <<>> /\ freed[e] = {}
      /\ snMin[e] = 0 /\ snMax[e] = 0 /\ rn[Peer(e)] = 0
      /\ line[e] = <<>> /\ line[Peer(e)] = <<>>
  BY <1>1 DEF Init
<1>3. Base(e) = 0 /\ Got(e) = 0 /\ Window(e) = 0
  <2>1. Len(<<>>) = 0
    OBVIOUS
  <2>2. Base(e) = 0
    <3>1. offered[e] = 0 /\ Len(fifo[e]) = 0
      BY <1>2, <2>1
    <3> QED BY <3>1 DEF Base
  <2>3. Got(e) = 0
    BY <1>2, <2>1 DEF Got
  <2>4. Minus(0, 0) = 0
    BY DEF Minus
  <2> QED BY <1>2, <2>2, <2>3, <2>4 DEF Window
<1>4. Numbered(e)
  <2>1. 1 .. 0 = {} /\ Len(<<>>) = 0 /\ Minus(0, 0) = 0
    BY DEF Minus
  <2> QED BY <1>2, <1>3, <2>1 DEF Numbered
<1> QED BY <1>2, <1>4 DEF SessionAt, DataOnTheWay, AcksOnTheWay, NoResetOnTheWay

\* The session's invariant holds until an end resets.
THEOREM SessionInvariance == Spec => []SInv
<1>1. IInv /\ IInv' /\ SInv /\ [Next]_vars => SInv'
  BY SessionStep DEF SInv
<1> QED BY <1>1, SessionStarts, Invariance, PTL DEF Spec

\* ReliableInSession: whatever is lost, sent again or acknowledged twice, as long as no end
\* resets every frame queued with min_queue_frame reaches the other application once and in
\* order, and its place is free only then: the transport implements ReliableLink.
THEOREM TransportIsReliable == Spec => ReliableInSession
<1>1. Init => Link!Init
  BY DEF Init, Link!Init
<1>2. IInv /\ IInv' /\ SInv /\ [Next]_vars => [resets' = 0 => Link!Next]_(Link!vars)
  BY SessionStep
<1> QED BY <1>1, <1>2, Invariance, SessionInvariance, PTL DEF Spec, ReliableInSession
=============================================================================
