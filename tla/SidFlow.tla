------------------------------ MODULE SidFlow ------------------------------
(***************************************************************************)
(* Flow control of the SID stream: the MIN task (tsk_min.c) stops the host *)
(* when qSID fills up and starts it again when the SID task has emptied    *)
(* it.  Frames and control characters cross the MIN link in order; what    *)
(* min_queue_frame refuses is gone, and a repeated start may be lost.      *)
(***************************************************************************)
EXTENDS Integers, Sequences

CONSTANTS
    Capacity,    \* N_QUEUE_SID
    StopBelow,   \* free places: 30
    StartAbove,  \* 45
    RepeatAbove, \* 59
    Batch,       \* most frames the UART buffer hands over in one round of the task
    Slack        \* most frames the host sends before it reads what is queued for it

ASSUME SidFlowAssumption ==
    /\ {Capacity, StopBelow, StartAbove, RepeatAbove, Batch, Slack} \subseteq Nat
    /\ StopBelow <= StartAbove /\ StartAbove <= RepeatAbove /\ RepeatAbove < Capacity
    /\ 2 * (Batch + Slack) < StopBelow

VARIABLES
    frames,      \* frames in qSID
    flowCtl,     \* flow_ctl
    onWay,       \* frames between the host and the MIN task
    control,     \* "stop" and "start" in the MIN ring or on the way to the host
    extra,       \* frames the host has sent since it last read one, with a stop queued
    sending,     \* the host believes it may send
    due,         \* FLOW_RETRANSMIT_TICKS have passed
    inSid,       \* param.synth is SID
    strained,    \* history: a control frame was refused or the mode was left since the
                 \* queue was last empty
    dropped      \* history: xQueueSend found the queue full although nothing had strained it

flowVars == <<frames, flowCtl, onWay, control, extra, sending, due, inSid, strained, dropped>>

FlowTypeOK ==
    /\ frames \in 0 .. Capacity /\ onWay \in 0 .. Batch /\ extra \in 0 .. Slack
    /\ {flowCtl, sending, due, inSid, strained, dropped} \subseteq BOOLEAN
    /\ control \in Seq({"stop", "start"}) /\ Len(control) <= 2

FlowInit ==
    /\ frames = 0 /\ flowCtl = TRUE /\ onWay = 0 /\ control = <<>> /\ extra = 0
    /\ sending = TRUE /\ due = TRUE /\ inSid = TRUE /\ strained = FALSE /\ dropped = FALSE

Free == Capacity - frames

\* A ring that is full for the moment refuses the character; the task does not look.
Queue(c) ==
    \/ /\ Len(control) < 2 /\ control' = Append(control, c)
       /\ UNCHANGED strained
    \/ control' = control /\ strained' = TRUE

\* Faulty variant: no room is left for what is on the way.
StopDueWhenFull == Free = 0 /\ flowCtl

StopDue == Free < StopBelow /\ flowCtl

Stop == StopDue /\ Queue("stop") /\ flowCtl' = FALSE /\ UNCHANGED <<sending, due>>

StartDue == Free > StartAbove /\ ~flowCtl

Start == StartDue /\ Queue("start") /\ flowCtl' = TRUE /\ UNCHANGED <<sending, due>>

\* Faulty variant: only while the host is known to be stopped.
RepeatDueIfStopped == Free > RepeatAbove /\ ~flowCtl /\ due

RepeatDue == Free > RepeatAbove /\ due

\* An idle queue: the start is sent again and again, without the ring.
Repeat ==
    /\ RepeatDue /\ ~StopDue /\ ~StartDue
    /\ due' = FALSE /\ flowCtl' = TRUE /\ sending' \in {sending, TRUE}
    /\ UNCHANGED <<control, strained>>

Enough ==
    /\ ~StopDue /\ ~StartDue /\ ~RepeatDue
    /\ UNCHANGED <<flowCtl, control, sending, due, strained>>

\* poll_UART hands over what has come in: process_min_sid queues it.
Receive ==
    /\ frames' = IF frames + onWay > Capacity THEN Capacity ELSE frames + onWay
    /\ dropped' = (dropped \/ (frames + onWay > Capacity /\ ~strained'))
    /\ onWay' = 0

\* One round of tsk_min_TaskProc.
MinRound ==
    /\ IF inSid THEN Stop \/ Start \/ Repeat \/ Enough
       ELSE UNCHANGED <<flowCtl, control, sending, due, strained>>
    /\ Receive
    /\ UNCHANGED <<extra, inSid>>

Stopping == \E i \in DOMAIN control : control[i] = "stop"

HostSends ==
    /\ sending /\ onWay < Batch
    /\ onWay' = onWay + 1
    /\ IF Stopping THEN extra < Slack /\ extra' = extra + 1 ELSE extra' = 0
    /\ UNCHANGED <<frames, flowCtl, control, sending, due, inSid, strained, dropped>>

HostReads ==
    /\ control # <<>>
    /\ sending' = (Head(control) = "start") /\ control' = Tail(control) /\ extra' = 0
    /\ UNCHANGED <<frames, flowCtl, onWay, due, inSid, strained, dropped>>

TimePasses ==
    /\ ~due /\ due' = TRUE
    /\ UNCHANGED <<frames, flowCtl, onWay, control, extra, sending, inSid, strained, dropped>>

\* tsk_sid plays a frame; other modes leave the queue alone.
SidPlays ==
    /\ inSid /\ frames > 0
    /\ frames' = frames - 1
    /\ strained' = (strained /\ ~(frames' = 0 /\ control = <<>> /\ flowCtl))
    /\ UNCHANGED <<flowCtl, onWay, control, extra, sending, due, inSid, dropped>>

SwitchMode ==
    /\ inSid' = ~inSid /\ strained' = TRUE
    /\ UNCHANGED <<frames, flowCtl, onWay, control, extra, sending, due, dropped>>

FlowNext == MinRound \/ HostSends \/ HostReads \/ TimePasses \/ SidPlays \/ SwitchMode

\* The tasks and the link run; a start that is repeated for ever arrives once.
FlowFair ==
    /\ WF_flowVars(MinRound) /\ WF_flowVars(HostReads) /\ WF_flowVars(TimePasses)
    /\ WF_flowVars(SidPlays) /\ SF_flowVars(MinRound /\ sending')

FlowSpec == FlowInit /\ [][FlowNext]_flowVars /\ FlowFair

-----------------------------------------------------------------------------
(* Properties *)

\* No frame of a stream finds the queue full, unless the mode was left or the MIN ring
\* refused a stop since the queue was last empty: the thresholds leave room for all
\* that is on the way (tsk_min.c:569).
NothingDropped == ~dropped

\* A stopped host is started again, whatever was refused or lost on the way, as long
\* as the SID task plays (tsk_min.c:575).
StreamResumes == ~sending ~> (sending \/ ~inSid)
=============================================================================
