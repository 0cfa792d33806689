---------------------------- MODULE MinTransport ----------------------------
(***************************************************************************)
(* The MIN transport between the firmware and its host                     *)
(* (src/common/min/min.c): a sliding window over a serial line that loses  *)
(* frames (a frame with a wrong checksum is dropped) but keeps their       *)
(* order.  Both ends run the same library; the host's copy is the external *)
(* part.  min_poll and the receive path run under min_Semaphore, so each   *)
(* is one step; receiving stops wherever the bytes read so far end, so     *)
(* each frame received is a step of its own.                               *)
(*                                                                         *)
(* Time is left out: a frame may be old enough to be sent again, and an    *)
(* acknowledgement due, at any poll.  An end that hears nothing for        *)
(* TRANSPORT_IDLE_TIMEOUT_MS resets the session; half a second is longer   *)
(* than anything stays on the line, so it does so only when nothing is on  *)
(* the way to it.                                                          *)
(***************************************************************************)
EXTENDS Integers, Sequences, SequencesExt

CONSTANTS
    Ends,        \* the two ends of the line
    Talkers,     \* the ends that queue frames
    SeqSpace,      \* sequence numbers are counted modulo this (2^32)
    MaxWindow,   \* TRANSPORT_MAX_WINDOW_SIZE
    MaxFrames,   \* TRANSPORT_FIFO_MAX_FRAMES
    LineSpace,   \* frames the transmit buffer and the line hold
    Rooms,       \* what an end may say of its receive buffer: room for a frame?
    MaxMsgs,     \* bound: frames each talker queues
    MaxResets    \* bound: resets for idleness

ASSUME MinTransportAssumption ==
    /\ \E a, b \in Ends : a # b /\ Ends = {a, b}
    /\ Talkers \subseteq Ends
    /\ SeqSpace \in Nat /\ MaxWindow \in Nat \ {0} /\ MaxWindow < SeqSpace
    /\ MaxFrames \in Nat \ {0} /\ LineSpace \in Nat \ {0}
    /\ Rooms \subseteq BOOLEAN /\ Rooms # {}
    /\ MaxMsgs \in Nat /\ MaxResets \in Nat

Peer(e) == CHOOSE p \in Ends : p # e

SeqNumbers == 0 .. SeqSpace - 1

\* Sequence arithmetic on uint32_t: s + n and s - t, both wrapping.
Plus(s, n)  == IF s + n >= SeqSpace THEN s + n - SeqSpace ELSE s + n
Minus(s, t) == IF s >= t THEN s - t ELSE s - t + SeqSpace

VARIABLES
    fifo,     \* fifo[e]: the frames queued at e, oldest first, named 1, 2, ...
    snMin,    \* sn_min: the oldest frame that is not acknowledged
    snMax,    \* sn_max: the next sequence number to send
    rn,       \* the sequence number e waits for
    active,   \* e has received a frame in the last TRANSPORT_IDLE_TIMEOUT_MS
    room,     \* remote_rx_space is more than a frame
    line,     \* line[e]: what is on the way to e
    resets,   \* bound
    offered, arrived, freed   \* history: what ReliableLink speaks of

vars == <<fifo, snMin, snMax, rn, active, room, line, resets,
          offered, arrived, freed>>

sender  == <<fifo, snMin, snMax>>
history == <<offered, arrived, freed>>

Data(s, m) == [type |-> "data", seq |-> s, msg |-> m]
Ack(s, r)  == [type |-> "ack", seq |-> s, room |-> r]
Reset      == [type |-> "reset"]

Messages == 1 .. MaxMsgs
Frames   == [type : {"data"}, seq : SeqNumbers, msg : Messages]
              \cup [type : {"ack"}, seq : SeqNumbers, room : Rooms] \cup {Reset}

Init ==
    /\ fifo = [e \in Ends |-> <<>>]
    /\ snMin = [e \in Ends |-> 0] /\ snMax = [e \in Ends |-> 0]
    /\ rn = [e \in Ends |-> 0]
    /\ active = [e \in Ends |-> FALSE] /\ room = [e \in Ends |-> TRUE]
    /\ line = [e \in Ends |-> <<>>]
    /\ resets = 0
    /\ offered = [e \in Ends |-> 0]
    /\ arrived = [e \in Ends |-> <<>>] /\ freed = [e \in Ends |-> {}]

Window(e) == Minus(snMax[e], snMin[e])

\* The line after e has taken the first frame off it (n = 1) or not (n = 0) and
\* sent these frames, each only if min_tx_space allows it.
LineAfter(e, n, frames) ==
    LET Room == LineSpace - Len(line[Peer(e)])
        Sent == IF Room >= Len(frames) THEN frames ELSE SubSeq(frames, 1, Room)
    IN  [line EXCEPT ![e] = IF n = 1 THEN Tail(@) ELSE @, ![Peer(e)] = @ \o Sent]

-----------------------------------------------------------------------------
(* min_queue_frame *)

\* Faulty variant: one frame too many.
QueueOneMore(e) ==
    /\ offered[e] < MaxMsgs
    /\ Len(fifo[e]) <= MaxFrames
    /\ fifo' = [fifo EXCEPT ![e] = Append(@, offered[e] + 1)]
    /\ offered' = [offered EXCEPT ![e] = @ + 1]
    /\ UNCHANGED <<snMin, snMax, rn, active, room, line, resets, arrived, freed>>

Queue(e) ==
    /\ offered[e] < MaxMsgs
    /\ Len(fifo[e]) < MaxFrames
    /\ fifo' = [fifo EXCEPT ![e] = Append(@, offered[e] + 1)]
    /\ offered' = [offered EXCEPT ![e] = @ + 1]
    /\ UNCHANGED <<snMin, snMax, rn, active, room, line, resets, arrived, freed>>

-----------------------------------------------------------------------------
(* min_poll *)

Opens(e) == Window(e) < MaxWindow /\ Len(fifo[e]) > Window(e)

CanSend(e) == room[e] /\ Len(line[Peer(e)]) < LineSpace

\* Faulty variant: what has been sent is not sent again.
SendsOnce(e) == IF CanSend(e) /\ Opens(e) THEN {Window(e) + 1} ELSE {0}

\* The places in the FIFO a poll may send from, 0 for nothing: the next new frame if
\* the window is open, else the oldest frame of the window if it is old enough (which
\* of them is the oldest is left open; FairSpec says that the first has its turn).
Sends(e) ==
    IF ~CanSend(e) THEN {0}
    ELSE IF Opens(e) THEN {Window(e) + 1}
    ELSE 0 .. Window(e)

Poll(e, n, ackDue) ==
    /\ n \in Sends(e)
    /\ LET data == IF n = 0 THEN <<>> ELSE <<Data(Plus(snMin[e], n - 1), fifo[e][n])>>
       IN \E r \in Rooms :
            LET ack == IF ackDue /\ active[e] THEN <<Ack(rn[e], r)>> ELSE <<>>
            IN line' = LineAfter(e, 0, data \o ack)
    /\ snMax' = IF n = Window(e) + 1 THEN [snMax EXCEPT ![e] = Plus(@, 1)] ELSE snMax
    /\ UNCHANGED <<fifo, snMin, rn, active, room, resets, history>>

\* TRANSPORT_IDLE_TIMEOUT_MS after the last application frame the periodic
\* acknowledgements stop.
GoIdle(e) ==
    /\ active[e]
    /\ active' = [active EXCEPT ![e] = FALSE]
    /\ UNCHANGED <<sender, rn, room, line, resets, history>>

\* transport_fifo_reset: queue, numbers and timers start over, remote_rx_space
\* stays.
TransportFifoReset(e) ==
    /\ fifo' = [fifo EXCEPT ![e] = <<>>]
    /\ snMin' = [snMin EXCEPT ![e] = 0] /\ snMax' = [snMax EXCEPT ![e] = 0]
    /\ rn' = [rn EXCEPT ![e] = 0]
    /\ active' = [active EXCEPT ![e] = FALSE]

\* min_transport_reset: an end that hears nothing tells the other and starts over.
IdleReset(e) ==
    /\ resets < MaxResets
    /\ line[e] = <<>>
    /\ TransportFifoReset(e)
    /\ line' = LineAfter(e, 0, <<Reset>>)
    /\ resets' = resets + 1
    /\ UNCHANGED <<room, history>>

-----------------------------------------------------------------------------
(* valid_frame_received *)

Receives(e, type) == line[e] # <<>> /\ Head(line[e]).type = type

\* Faulty variant: a frame that is not the next one is taken too.
ReceiveAnyData(e) ==
    /\ Receives(e, "data")
    /\ active' = [active EXCEPT ![e] = TRUE]
    /\ rn' = [rn EXCEPT ![e] = Plus(Head(line[e]).seq, 1)]
    /\ arrived' = [arrived EXCEPT ![Peer(e)] = Append(@, Head(line[e]).msg)]
    /\ \E r \in Rooms : line' = LineAfter(e, 1, <<Ack(rn'[e], r)>>)
    /\ UNCHANGED <<sender, room, resets, offered, freed>>

\* The frame looked for goes to the application and is acknowledged at once; any
\* other is dropped without an answer.
ReceiveData(e) ==
    /\ Receives(e, "data")
    /\ active' = [active EXCEPT ![e] = TRUE]
    /\ IF Head(line[e]).seq = rn[e]
       THEN /\ rn' = [rn EXCEPT ![e] = Plus(@, 1)]
            /\ arrived' = [arrived EXCEPT ![Peer(e)] = Append(@, Head(line[e]).msg)]
            /\ \E r \in Rooms : line' = LineAfter(e, 1, <<Ack(rn'[e], r)>>)
       ELSE /\ line' = LineAfter(e, 1, <<>>)
            /\ UNCHANGED <<rn, arrived>>
    /\ UNCHANGED <<sender, room, resets, offered, freed>>

\* Faulty variant: an acknowledgement is not held against the window.
ReceiveAnyAck(e) ==
    /\ Receives(e, "ack")
    /\ room' = [room EXCEPT ![e] = Head(line[e]).room]
    /\ LET acked == Minus(Head(line[e]).seq, snMin[e])
           kept == SubSeq(fifo[e], acked + 1, Len(fifo[e]))
       IN /\ snMin' = [snMin EXCEPT ![e] = Head(line[e]).seq]
          /\ fifo' = [fifo EXCEPT ![e] = kept]
          /\ freed' = [freed EXCEPT ![e] = @ \cup (ToSet(fifo[e]) \ ToSet(kept))]
    /\ line' = LineAfter(e, 1, <<>>)
    /\ UNCHANGED <<snMax, rn, active, resets, offered, arrived>>

\* The frames before rn leave the FIFO, if rn lies in the window.  (An end that runs
\* this library never asks for frames again: num_nacked is 0.)
ReceiveAck(e) ==
    /\ Receives(e, "ack")
    /\ room' = [room EXCEPT ![e] = Head(line[e]).room]
    /\ LET acked == Minus(Head(line[e]).seq, snMin[e])
           gone == ToSet(SubSeq(fifo[e], 1, acked))
       IN IF acked <= Window(e)
          THEN /\ snMin' = [snMin EXCEPT ![e] = Head(line[e]).seq]
               /\ fifo' = [fifo EXCEPT ![e] = SubSeq(@, acked + 1, Len(@))]
               /\ freed' = [freed EXCEPT ![e] = @ \cup gone]
          ELSE UNCHANGED <<snMin, fifo, freed>>   \* spurious
    /\ line' = LineAfter(e, 1, <<>>)
    /\ UNCHANGED <<snMax, rn, active, resets, offered, arrived>>

ReceiveReset(e) ==
    /\ Receives(e, "reset")
    /\ TransportFifoReset(e)
    /\ line' = LineAfter(e, 1, <<>>)
    /\ UNCHANGED <<room, resets, history>>

\* The line spoils a frame: its checksum fails and min_rx_byte drops it.
Lose(e) ==
    /\ line[e] # <<>>
    /\ line' = LineAfter(e, 1, <<>>)
    /\ UNCHANGED <<sender, rn, active, room, resets, history>>

Next ==
    \/ \E e \in Talkers : Queue(e)
    \/ \E e \in Ends :
         \/ \E n \in 0 .. MaxFrames, ackDue \in BOOLEAN : Poll(e, n, ackDue)
         \/ GoIdle(e) \/ IdleReset(e)
         \/ ReceiveData(e) \/ ReceiveAck(e) \/ ReceiveReset(e) \/ Lose(e)

Spec == Init /\ [][Next]_vars

\* Both ends keep polling; their timers keep running out (25 and 50 ms, against the
\* 500 ms until an end goes idle), and find_retransmit_frame, which takes the least
\* recently sent frame, comes back to the first.  A frame sent again and again gets
\* through in the end, and so do the acknowledgements.
FairSpec ==
    /\ Spec
    /\ \A e \in Ends :
         /\ \A n \in {0, 1} : SF_vars(Poll(e, n, TRUE))
         /\ SF_vars(Opens(e) /\ \E n \in 1 .. MaxFrames : Poll(e, n, TRUE))
         /\ SF_vars(ReceiveAck(e))
         /\ \A s \in SeqNumbers :
              SF_vars(Receives(e, "data") /\ Head(line[e]).seq = s /\ ReceiveData(e))

-----------------------------------------------------------------------------
(* Properties *)

TypeOK ==
    /\ fifo \in [Ends -> Seq(Messages)]
    /\ \A e \in Ends : Len(fifo[e]) <= MaxFrames /\ Len(line[e]) <= LineSpace
    /\ snMin \in [Ends -> SeqNumbers] /\ snMax \in [Ends -> SeqNumbers]
    /\ rn \in [Ends -> SeqNumbers]
    /\ active \in [Ends -> BOOLEAN] /\ room \in [Ends -> BOOLEAN]
    /\ line \in [Ends -> Seq(Frames)]
    /\ resets \in 0 .. MaxResets
    /\ offered \in [Ends -> 0 .. MaxMsgs] /\ arrived \in [Ends -> Seq(Messages)]
    /\ freed \in [Ends -> SUBSET Messages]

\* The window never holds more frames than are queued, nor more than its limit,
\* whatever acknowledgements and resets arrive from this session or an old one:
\* the assertions of valid_frame_received and find_retransmit_frame, and what
\* keeps transport_fifo_pop from an empty FIFO.
WindowInQueue ==
    \A e \in Ends : Window(e) <= MaxWindow /\ Window(e) <= Len(fifo[e])

\* As long as no end resets, the transport is a reliable link: every frame queued
\* arrives once and in order, and leaves the FIFO only when it has arrived.
Link == INSTANCE ReliableLink WITH
            Ends <- Ends, MaxFrames <- MaxFrames,
            offered <- offered, arrived <- arrived, freed <- freed
ReliableInSession == Link!Init /\ [][resets' = 0 => Link!Next]_(Link!vars)

\* ... and everything queued arrives and is forgotten in the end.
EverythingArrives == Link!FairSpec
=============================================================================
