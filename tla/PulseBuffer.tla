---------------------------- MODULE PulseBuffer ----------------------------
(***************************************************************************)
(* The pulse pipeline of src/common/ud3core/SignalGenerator.c.             *)
(*                                                                         *)
(* SigGen_task computes pulses ahead of time and queues them in a ring     *)
(* buffer; the compare interrupt of interrupterTimebase (the ISR) commands *)
(* the armed pulse (readPulse) and arms the next one; SigGen_killAudio,    *)
(* called by lower priority tasks, empties the whole pipeline; CMD_oneshot *)
(* of interrupter.c, a command of the terminals, queues a single pulse of  *)
(* its own.  bufferLengthInCounts is the time the ring is believed to      *)
(* hold: the task refills while it is below one millisecond.               *)
(*                                                                         *)
(* Scheduling.  The ISR preempts every task.  SigGen_task (priority 4)     *)
(* preempts the callers of SigGen_killAudio, of CMD_oneshot and of the     *)
(* note functions (timer service, terminal and MIN tasks at 3, MIDI at 2), *)
(* so those move only while SigGen_task is in vTaskDelay; among themselves *)
(* they are sliced at any point.  The ring buffer is a library outside of  *)
(* src: each of its operations is taken as one step.                       *)
(*                                                                         *)
(* Time is counted in units that divide one millisecond; a period says     *)
(* only how much is added to and taken from bufferLengthInCounts, and when *)
(* the timer expires is left open.                                         *)
(***************************************************************************)
EXTENDS Integers, Sequences, FiniteSets, SequencesExt

CONSTANTS
    Capacity,     \* pulses the ring buffer holds: 64 in SigGen_init
    LowWater,     \* SIGGEN_MS_TO_PERIOD_COUNT(1): refill below this length
    MaxNote,      \* longest distance between two pulses of the playing voices
    Killers,      \* the tasks that may call SigGen_killAudio
    Shooters,     \* the terminal tasks, which may run CMD_oneshot
    MaxLength     \* bound: no single pulse is queued at a length beyond it

ASSUME PulseBufferAssumption ==
    /\ Capacity \in Nat \ {0}
    /\ LowWater \in Nat \ {0}
    /\ MaxNote \in Nat \ {0}
    /\ IsFiniteSet(Shooters)
    /\ MaxLength \in Nat

Callers == Killers \cup Shooters

\* SIGGEN_MS_TO_PERIOD_COUNT(SIGGEN_LONG_DELAY_THRESHOLD_ms): two milliseconds.
LongDelay == 2 * LowWater

VARIABLES
    ring,          \* taskData->pulseBuffer
    bufferLength,  \* taskData->bufferLengthInCounts
    readPulse,     \* the armed pulse
    timerRunning,  \* CTRL_ENABLE of interrupterTimebase
    irqEnabled,    \* interrupterIRQ_GetState()
    irqPending,    \* the compare event is latched and not yet served
    isEnabled,     \* cleared by SigGen_setOutputEnabled(0)
    voiceOn,       \* some voice has limitedEnabled set
    fresh,         \* a voice was switched on and its counter is still 0
    genPc,         \* where SigGen_task is
    nextPulse,     \* the pulse SigGen_task works on, else Silence
    callPc,        \* where each caller of SigGen_killAudio or CMD_oneshot is
    loaded,        \* the length each CMD_oneshot has read and will add to, else 0
    spoilt,        \* history: a sum or a pulse was lost, the ring not dry since
    clean,         \* history: no note was switched on since the kill began
    counting,      \* history: a clean kill has returned, no note since
    strays         \* history: pulses commanded while counting

vars == <<ring, bufferLength, readPulse, timerRunning, irqEnabled, irqPending,
          isEnabled, voiceOn, fresh, genPc, nextPulse, callPc, loaded,
          spoilt, clean, counting, strays>>

hwVars   == <<timerRunning, irqEnabled, irqPending>>
noteVars == <<isEnabled, voiceOn, fresh>>
genVars  == <<genPc, nextPulse>>
killVars == <<clean, counting, strays>>
callVars == <<callPc, loaded, spoilt, killVars>>

\* live: current and onTime are both non-zero, so that the ISR commands it;
\* shot: queued by CMD_oneshot, which the code does not note.
Pulse == [period : Nat, live : BOOLEAN, shot : BOOLEAN]
Silence == [period |-> 0, live |-> FALSE, shot |-> FALSE]

\* SIGGEN_MIN_PERIOD, a millisecond; ontime and volume are not zero.
SingleShot == [period |-> LowWater, live |-> TRUE, shot |-> TRUE]

GenPcs  == {"delay", "fill", "cap", "write", "account", "kick"}
KillPcs == {"stop", "mask", "flush", "zero", "unmask"}
ShotPcs == {"hide", "load", "store", "show"}

\* Inside of these a caller has the interrupt disabled and will enable it.
Masked == {"flush", "zero", "unmask", "load", "store", "show"}

PipelineTypeOK ==
    /\ ring \in Seq(Pulse)
    /\ Len(ring) <= Capacity
    /\ readPulse \in Pulse
    /\ nextPulse \in Pulse
    /\ bufferLength \in Int
    /\ strays \in Nat

FlagTypeOK ==
    /\ timerRunning \in BOOLEAN /\ irqEnabled \in BOOLEAN /\ irqPending \in BOOLEAN
    /\ isEnabled \in BOOLEAN /\ voiceOn \in BOOLEAN /\ fresh \in BOOLEAN
    /\ counting \in BOOLEAN /\ spoilt \in BOOLEAN

TaskTypeOK ==
    /\ genPc \in GenPcs
    /\ callPc \in [Callers -> {"idle"} \cup KillPcs \cup ShotPcs]
    /\ loaded \in [Shooters -> Int]
    /\ clean \in [Killers -> BOOLEAN]

\* The type invariant; that the ring is never written past its capacity is part
\* of it.
TypeOK == PipelineTypeOK /\ FlagTypeOK /\ TaskTypeOK

Init ==
    /\ ring = <<>> /\ bufferLength = 0
    /\ readPulse = Silence /\ nextPulse = Silence
    /\ timerRunning = FALSE /\ irqEnabled = TRUE /\ irqPending = FALSE
    /\ isEnabled = TRUE /\ voiceOn = FALSE /\ fresh = FALSE
    /\ genPc = "delay"
    /\ callPc = [c \in Callers |-> "idle"]
    /\ loaded = [s \in Shooters |-> 0]
    /\ spoilt = FALSE
    /\ clean = [k \in Killers |-> FALSE]
    /\ counting = FALSE /\ strays = 0

-----------------------------------------------------------------------------
(* The timer and its interrupt *)

\* A served interrupt leaves the tasks where they are, so a task can only move
\* when none is due.
IsrDue == irqPending /\ irqEnabled

TimerExpires ==
    /\ timerRunning /\ ~irqPending
    /\ irqPending' = TRUE
    /\ UNCHANGED <<ring, bufferLength, readPulse, timerRunning, irqEnabled>>
    /\ UNCHANGED <<noteVars, genVars, callVars>>

\* SigGen_PulseTimerISR commands the armed pulse ...
Command ==
    strays' = IF counting /\ readPulse.live /\ ~readPulse.shot
              THEN strays + 1 ELSE strays

\* Faulty variant: the length is reduced by the pulse that was just commanded.
ArmNextTakesCommanded ==
    \E i \in 1 .. Len(ring) :
        /\ ring[i].period # 0
        /\ \A j \in 1 .. i - 1 : ring[j].period = 0
        /\ readPulse' = ring[i]
        /\ ring' = SubSeq(ring, i + 1, Len(ring))
        /\ bufferLength' = bufferLength - readPulse.period
        /\ UNCHANGED <<timerRunning, irqEnabled, spoilt>>

\* ... arms the first pulse of non-zero period ...
ArmNext ==
    \E i \in 1 .. Len(ring) :
        /\ ring[i].period # 0
        /\ \A j \in 1 .. i - 1 : ring[j].period = 0
        /\ readPulse' = ring[i]
        /\ ring' = SubSeq(ring, i + 1, Len(ring))
        /\ bufferLength' = bufferLength - ring[i].period
        /\ UNCHANGED <<timerRunning, irqEnabled, spoilt>>

\* ... or finds none and switches the timer and its own interrupt off.
RunDry ==
    /\ \A i \in 1 .. Len(ring) : ring[i].period = 0
    /\ readPulse' = IF ring = <<>> THEN readPulse
                    ELSE [Last(ring) EXCEPT !.period = 1]
    /\ ring' = <<>>
    /\ bufferLength' = 0
    /\ timerRunning' = FALSE
    /\ irqEnabled' = FALSE
    /\ spoilt' = FALSE

Isr ==
    /\ IsrDue
    /\ irqPending' = FALSE
    /\ Command
    /\ ArmNext \/ RunDry
    /\ UNCHANGED <<noteVars, genVars, callPc, loaded, clean, counting>>

-----------------------------------------------------------------------------
(* SigGen_task *)

\* vTaskDelay(1) is over; with the output disabled the task sleeps again.
Wake ==
    /\ ~IsrDue
    /\ genPc = "delay" /\ isEnabled
    /\ genPc' = "fill"
    /\ UNCHANGED <<ring, bufferLength, readPulse, nextPulse>>
    /\ UNCHANGED <<hwVars, noteVars, callVars>>

\* The refill loop goes round while the buffer is low and a voice is enabled.
CheckLevel ==
    /\ ~IsrDue
    /\ genPc = "fill"
    /\ genPc' = IF bufferLength < LowWater /\ voiceOn THEN "cap" ELSE "kick"
    /\ UNCHANGED <<ring, bufferLength, readPulse, nextPulse>>
    /\ UNCHANGED <<hwVars, noteVars, callVars>>

\* A voice that was just switched on has counter 0 and gives a period of 0.
\* Otherwise the distance to the next pulse is cut at maxPeriod_us, read from
\* the length again.  No voice starts the pulse it was cut for, but one that is
\* due within the holdoff time is merged into it all the same, so that it may be
\* heard; a pulse in a burst's off time is not.
ComputePulse ==
    /\ ~IsrDue
    /\ genPc = "cap"
    /\ genPc' = "write"
    /\ \E n \in 1 .. MaxNote, audible \in BOOLEAN :
         LET maxPeriod == LongDelay - bufferLength
             distance  == IF fresh THEN 0 ELSE IF n > maxPeriod THEN maxPeriod ELSE n
         IN  nextPulse' = [period |-> distance, live |-> audible, shot |-> FALSE]
    /\ fresh' = FALSE
    /\ UNCHANGED <<ring, bufferLength, readPulse, isEnabled, voiceOn>>
    /\ UNCHANGED <<hwVars, callVars>>

\* Faulty variant: one pulse too many is written.
WritePulseOffByOne ==
    /\ ~IsrDue
    /\ genPc = "write"
    /\ IF Len(ring) <= Capacity
       THEN ring' = Append(ring, nextPulse) /\ genPc' = "account" /\ UNCHANGED nextPulse
       ELSE genPc' = "kick" /\ nextPulse' = Silence /\ UNCHANGED ring
    /\ UNCHANGED <<bufferLength, readPulse>>
    /\ UNCHANGED <<hwVars, noteVars, callVars>>

\* SigGen_queuePulse writes the ring first ...
WritePulse ==
    /\ ~IsrDue
    /\ genPc = "write"
    /\ IF Len(ring) < Capacity
       THEN ring' = Append(ring, nextPulse) /\ genPc' = "account" /\ UNCHANGED nextPulse
       ELSE genPc' = "kick" /\ nextPulse' = Silence /\ UNCHANGED ring
    /\ UNCHANGED <<bufferLength, readPulse>>
    /\ UNCHANGED <<hwVars, noteVars, callVars>>

\* ... and adds the period afterwards, the interrupt disabled around the sum.
AccountPulse ==
    /\ ~IsrDue
    /\ genPc = "account"
    /\ bufferLength' = bufferLength + nextPulse.period
    /\ irqEnabled' = TRUE
    /\ genPc' = "fill" /\ nextPulse' = Silence
    /\ UNCHANGED <<ring, readPulse, timerRunning, irqPending>>
    /\ UNCHANGED <<noteVars, callVars>>

\* The kickstart at the end of the cycle: with the timer off and a pulse
\* waiting, arm it and start the timer, which enables the interrupt.
KickStart ==
    /\ ~IsrDue
    /\ genPc = "kick"
    /\ ~timerRunning /\ ring # <<>>
    /\ readPulse' = Head(ring)
    /\ ring' = Tail(ring)
    /\ bufferLength' = bufferLength - Head(ring).period
    /\ timerRunning' = TRUE /\ irqEnabled' = TRUE /\ irqPending' = FALSE
    /\ genPc' = "delay"
    /\ UNCHANGED <<nextPulse, noteVars, callVars>>

NoKickStart ==
    /\ ~IsrDue
    /\ genPc = "kick"
    /\ timerRunning \/ ring = <<>>
    /\ genPc' = "delay"
    /\ UNCHANGED <<ring, bufferLength, readPulse, nextPulse>>
    /\ UNCHANGED <<hwVars, noteVars, callVars>>

Generate == \/ Wake \/ CheckLevel \/ ComputePulse \/ WritePulse
            \/ AccountPulse \/ KickStart \/ NoKickStart

-----------------------------------------------------------------------------
(* The lower priority tasks *)

\* They run only while SigGen_task sleeps.
LowPriorityRuns == ~IsrDue /\ genPc = "delay"

\* SigGen_setVoiceParams: willBeOn with the counter reset to 0, ...
NoteOn ==
    /\ LowPriorityRuns
    /\ isEnabled
    /\ voiceOn' = TRUE /\ fresh' = TRUE
    /\ clean' = [k \in Killers |-> FALSE]
    /\ counting' = FALSE /\ strays' = 0
    /\ UNCHANGED <<ring, bufferLength, readPulse, isEnabled>>
    /\ UNCHANGED <<hwVars, genVars, callPc, loaded, spoilt>>

\* ... or the last voice disabled, which leaves the queued pulses alone.
NoteOff ==
    /\ LowPriorityRuns
    /\ voiceOn
    /\ voiceOn' = FALSE /\ fresh' = FALSE
    /\ UNCHANGED <<ring, bufferLength, readPulse, isEnabled>>
    /\ UNCHANGED <<hwVars, genVars, callVars>>

\* SigGen_setMasterVol to a volume above zero.
Unmute ==
    /\ LowPriorityRuns
    /\ ~isEnabled
    /\ isEnabled' = TRUE
    /\ UNCHANGED <<ring, bufferLength, readPulse, voiceOn, fresh>>
    /\ UNCHANGED <<hwVars, genVars, callVars>>

\* A step of a call that other tasks may follow with steps of theirs.
CallStep(c, from, to) ==
    /\ LowPriorityRuns
    /\ callPc[c] = from
    /\ callPc' = [callPc EXCEPT ![c] = to]

\* SigGen_killAudio clears every voice first; SigGen_setMasterVol(0) has
\* cleared isEnabled before it calls.
BeginKill(k) ==
    /\ CallStep(k, "idle", "stop")
    /\ isEnabled' \in {isEnabled, FALSE}
    /\ voiceOn' = FALSE /\ fresh' = FALSE
    /\ clean' = [clean EXCEPT ![k] = TRUE]
    /\ UNCHANGED <<ring, bufferLength, readPulse, loaded, spoilt, counting, strays>>
    /\ UNCHANGED <<hwVars, genVars>>

StopTimer(k) ==
    /\ CallStep(k, "stop", "mask")
    /\ timerRunning' = FALSE
    /\ UNCHANGED <<ring, bufferLength, readPulse, irqEnabled, irqPending>>
    /\ UNCHANGED <<noteVars, genVars, loaded, spoilt, killVars>>

\* The interrupt is disabled twice in a row, by SigGen_stopTimer and before
\* the flush.
MaskIrq(k) ==
    /\ CallStep(k, "mask", "flush")
    /\ irqEnabled' = FALSE
    /\ UNCHANGED <<ring, bufferLength, readPulse, timerRunning, irqPending>>
    /\ UNCHANGED <<noteVars, genVars, loaded, spoilt, killVars>>

\* Faulty variant: the buffer is not flushed.
FlushNothing(k) ==
    /\ CallStep(k, "flush", "zero")
    /\ UNCHANGED <<ring, bufferLength, readPulse>>
    /\ UNCHANGED <<hwVars, noteVars, genVars, loaded, spoilt, killVars>>

Flush(k) ==
    /\ CallStep(k, "flush", "zero")
    /\ ring' = <<>>
    /\ UNCHANGED <<bufferLength, readPulse>>
    /\ UNCHANGED <<hwVars, noteVars, genVars, loaded, spoilt, killVars>>

\* Faulty variant: the length survives the flush.
ZeroLengthForgotten(k) ==
    /\ CallStep(k, "zero", "unmask")
    /\ UNCHANGED <<ring, bufferLength, readPulse>>
    /\ UNCHANGED <<hwVars, noteVars, genVars, loaded, spoilt, killVars>>

\* Pulses that were queued since the flush stay in the ring, their time is lost.
ZeroLength(k) ==
    /\ CallStep(k, "zero", "unmask")
    /\ bufferLength' = 0
    /\ spoilt' = (ring # <<>>)
    /\ UNCHANGED <<ring, readPulse>>
    /\ UNCHANGED <<hwVars, noteVars, genVars, loaded, killVars>>

\* Faulty variant: the interrupt stays masked.
UnmaskForgotten(k) ==
    /\ CallStep(k, "unmask", "idle")
    /\ counting' = (counting \/ clean[k])
    /\ UNCHANGED <<ring, bufferLength, readPulse>>
    /\ UNCHANGED <<hwVars, noteVars, genVars, loaded, spoilt, clean, strays>>

UnmaskIrq(k) ==
    /\ CallStep(k, "unmask", "idle")
    /\ irqEnabled' = TRUE
    /\ counting' = (counting \/ clean[k])
    /\ UNCHANGED <<ring, bufferLength, readPulse, timerRunning, irqPending>>
    /\ UNCHANGED <<noteVars, genVars, loaded, spoilt, clean, strays>>

Kill(k) == \/ BeginKill(k) \/ StopTimer(k) \/ MaskIrq(k) \/ Flush(k)
           \/ ZeroLength(k) \/ UnmaskIrq(k)

\* CMD_oneshot: SigGen_queuePulse as SigGen_task calls it, but every step of it may
\* be followed by the ISR, SigGen_task or another caller.  The pulse is written,
\* unless the ring is full; no voice has to be on and the output not enabled, ...
WriteShot(s) ==
    /\ CallStep(s, "idle", "hide")
    /\ bufferLength \in -MaxLength .. MaxLength
    /\ Len(ring) < Capacity
    /\ ring' = Append(ring, SingleShot)
    /\ UNCHANGED <<bufferLength, readPulse>>
    /\ UNCHANGED <<hwVars, noteVars, genVars, loaded, spoilt, killVars>>

\* ... the interrupt disabled, ...
HideIrq(s) ==
    /\ CallStep(s, "hide", "load")
    /\ irqEnabled' = FALSE
    /\ UNCHANGED <<ring, bufferLength, readPulse, timerRunning, irqPending>>
    /\ UNCHANGED <<noteVars, genVars, loaded, spoilt, killVars>>

\* ... the length read ...
LoadLength(s) ==
    /\ CallStep(s, "load", "store")
    /\ loaded' = [loaded EXCEPT ![s] = bufferLength]
    /\ UNCHANGED <<ring, bufferLength, readPulse>>
    /\ UNCHANGED <<hwVars, noteVars, genVars, spoilt, killVars>>

\* ... and the sum stored, whatever became of the length in the meantime, ...
StoreLength(s) ==
    /\ CallStep(s, "store", "show")
    /\ bufferLength' = loaded[s] + SingleShot.period
    /\ spoilt' = (spoilt \/ loaded[s] # bufferLength)
    /\ loaded' = [loaded EXCEPT ![s] = 0]
    /\ UNCHANGED <<ring, readPulse>>
    /\ UNCHANGED <<hwVars, noteVars, genVars, killVars>>

\* ... and the interrupt enabled, be the timer running or not.
ShowIrq(s) ==
    /\ CallStep(s, "show", "idle")
    /\ irqEnabled' = TRUE
    /\ UNCHANGED <<ring, bufferLength, readPulse, timerRunning, irqPending>>
    /\ UNCHANGED <<noteVars, genVars, loaded, spoilt, killVars>>

Shoot(s) == \/ WriteShot(s) \/ HideIrq(s) \/ LoadLength(s) \/ StoreLength(s)
            \/ ShowIrq(s)

Next ==
    \/ TimerExpires \/ Isr
    \/ Generate
    \/ NoteOn \/ NoteOff \/ Unmute
    \/ \E k \in Killers : Kill(k)
    \/ \E s \in Shooters : Shoot(s)

Spec == Init /\ [][Next]_vars

\* The pulse SigGen_task has just written is already armed, and not yet accounted
\* for.
Overtaken == genPc = "account" /\ ring = <<>>

\* SigGen_task is not held up between the two for as long as a millisecond: what
\* has its priority or a higher one takes far less.  So a pulse that long does not
\* expire before it is accounted for; a shorter one may.
PromptNext == Next /\ ~(TimerExpires /\ Overtaken /\ nextPulse.period >= LowWater)

\* The timer expires, the ISR is served, the highest priority task runs, and a
\* call that began comes to its end; whether notes are played is left open.
Fairness ==
    /\ WF_vars(TimerExpires) /\ WF_vars(Isr)
    /\ WF_vars(Generate)
    /\ \A k \in Killers : SF_vars(callPc[k] # "idle" /\ Kill(k))
    /\ \A s \in Shooters : SF_vars(callPc[s] # "idle" /\ Shoot(s))

FairSpec == Init /\ [][PromptNext]_vars /\ Fairness

-----------------------------------------------------------------------------
(* Properties *)

\* The time of the pulses in the ring, and what it is believed to be once those
\* who have written a pulse and not yet added its period have done so.
TimeOf(pulses) ==
    LET upTo[i \in 0 .. Len(pulses)] == IF i = 0 THEN 0 ELSE upTo[i - 1] + pulses[i].period
    IN  upTo[Len(pulses)]
QueuedTime == TimeOf(ring)

Unsummed == {s \in Shooters : callPc[s] \in {"hide", "load", "store"}}
BelievedTime == bufferLength + (IF genPc = "account" THEN nextPulse.period ELSE 0)
                             + LowWater * Cardinality(Unsummed)

\* bufferLengthInCounts goes astray in two ways only: SigGen_queuePulse, called by
\* CMD_oneshot, stores a sum of a length that has changed since it was read, and
\* SigGen_killAudio zeroes the length of pulses queued since its flush; and it is
\* right again once the ring has run dry or a kill has found it still empty.
\* Otherwise the belief never falls short of the ring, wherever the ISR and the
\* callers come in; and but for the time between a flush and the zero that follows
\* it exceeds the ring by at most a pulse of every writer, which the ISR can play
\* and run the ring dry before the writer has accounted for it.
BeliefNearTruth ==
    LET skew == BelievedTime - QueuedTime
    IN  ~spoilt =>
          /\ 0 <= skew
          /\ (\A k \in Killers : callPc[k] # "zero")
               => skew <= MaxNote + LowWater * Cardinality(Shooters)

\* Although SigGen_killAudio, CMD_oneshot and SigGen_task disable and enable the
\* interrupt without knowing of each other, none leaves a running timer behind
\* that nobody would ever serve: when a running timer has its interrupt masked,
\* some caller is between disabling and enabling it.
TimerServed ==
    timerRunning /\ ~irqEnabled => \E c \in Callers : callPc[c] \in Masked

\* After SigGen_killAudio has returned, and until a note is switched on, at most
\* one more pulse of a voice is commanded: the armed one, which the kill leaves in
\* readPulse and which a restarted timer or a latched interrupt still fires.  The
\* pulses of CMD_oneshot, any number of them and at any time, bring back no other.
AtMostOneStray == strays <= 1

\* As long as nobody runs CMD_oneshot, voices that stay enabled keep the interrupt
\* coming, once the callers of SigGen_killAudio leave the output alone: neither a
\* kill nor a ring that runs dry before a pulse is accounted for (a pulse shorter
\* than a millisecond: PromptNext) leaves a length behind on which SigGen_task would
\* wait for ever.
KeepsPlaying ==
    (/\ [](\A s \in Shooters : callPc[s] \notin ShotPcs)
     /\ <>[](voiceOn /\ isEnabled /\ \A k \in Killers : callPc[k] = "idle"))
      => []<><<Isr>>_vars
=============================================================================
