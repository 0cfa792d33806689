------------------------ MODULE PulseBuffer_proofs ------------------------
(***************************************************************************)
(* Proofs about PulseBuffer, for every ring size, every timing and any set *)
(* of callers of SigGen_killAudio and CMD_oneshot.                         *)
(***************************************************************************)
EXTENDS PulseBuffer, FiniteSetTheorems, WellFoundedInduction, NaturalsInduction, TLAPS

-----------------------------------------------------------------------------
(* The inductive invariant *)

\* SigGen_task reads maxPeriod_us from a length that only the ISR has changed
\* since it was found low.
RefillsWhenLow == genPc = "cap" => bufferLength < LowWater

\* No note function runs while SigGen_task works on a pulse.
WorksForAVoice == genPc \in {"cap", "write", "account"} => voiceOn

\* The single pulses are those of CMD_oneshot, and none is empty.
ShotsHaveTime ==
    /\ ~nextPulse.shot
    /\ \A p \in ToSet(ring) : p.shot => p.period # 0

\* Nothing of a voice is left in the ring.
OnlyShots == \A p \in ToSet(ring) : p.shot

\* A kill that no note has disturbed has left every voice disabled, and from
\* its flush on only single pulses in the ring.
CleanKill ==
    \A k \in Killers :
        clean[k] => /\ ~voiceOn
                    /\ callPc[k] \in {"zero", "unmask"} => OnlyShots

\* After it there is one armed pulse of a voice at most.  Once that one is
\* commanded a single pulse is armed in its place, or the timer is off and no
\* interrupt latched.
StraySpent ==
    /\ ~counting => strays = 0
    /\ counting => /\ ~voiceOn /\ OnlyShots
                   /\ strays \in {0, 1}
                   /\ strays = 1 => readPulse.shot \/ (~timerRunning /\ ~irqPending)

\* The inductive invariant of the kill.
IInv == /\ TypeOK /\ RefillsWhenLow /\ TimerServed /\ WorksForAVoice
        /\ ShotsHaveTime /\ CleanKill /\ StraySpent

-----------------------------------------------------------------------------
(* Sequences *)

\* What stays in the ring after the first i pulses were read.
LEMMA RestOfRing ==
    ASSUME NEW S, NEW s \in Seq(S), NEW i \in 1 .. Len(s)
    PROVE  /\ SubSeq(s, i + 1, Len(s)) \in Seq(S)
           /\ Len(SubSeq(s, i + 1, Len(s))) <= Len(s)
           /\ ToSet(SubSeq(s, i + 1, Len(s))) \subseteq ToSet(s)
<1> DEFINE r == SubSeq(s, i + 1, Len(s))
<1>1. /\ r \in Seq(S) /\ Len(r) = Len(s) - i
      /\ \A j \in 1 .. Len(r) : r[j] = s[i + j] /\ i + j \in 1 .. Len(s)
    BY SMT
<1>2. Len(r) <= Len(s)
    BY <1>1
<1> HIDE DEF r
<1>3. ToSet(r) \subseteq ToSet(s)
  <2>1. DOMAIN r = 1 .. Len(r) /\ DOMAIN s = 1 .. Len(s)
      BY <1>1
  <2> QED
      BY <1>1, <2>1, Zenon DEF ToSet
<1> QED
    BY <1>1, <1>2, <1>3 DEF r

\* The last pulse of a ring that holds one is one of its pulses.
LEMMA LastInRing ==
    ASSUME NEW S, NEW s \in Seq(S), s # <<>>
    PROVE  Last(s) \in S
BY SMT DEF Last

\* Arming the first pulse leaves the others.
LEMMA TailOfRing ==
    ASSUME NEW S, NEW s \in Seq(S), s # <<>>
    PROVE  /\ Head(s) \in S /\ Head(s) \in ToSet(s)
           /\ Tail(s) \in Seq(S) /\ Len(Tail(s)) <= Len(s)
           /\ ToSet(Tail(s)) \subseteq ToSet(s)
BY SMT DEF ToSet

\* One pulse more.
LEMMA RingAppend ==
    ASSUME NEW S, NEW s \in Seq(S), NEW p \in S
    PROVE  /\ Append(s, p) \in Seq(S) /\ Len(Append(s, p)) = Len(s) + 1
           /\ ToSet(Append(s, p)) \subseteq ToSet(s) \cup {p}
BY SMT DEF ToSet

-----------------------------------------------------------------------------
\* SigGen_init leaves an empty ring, no voice and a stopped timer.
LEMMA InitInv == Init => IInv
<1> SUFFICES ASSUME Init PROVE IInv
    OBVIOUS
<1> USE DEF Init
<1>1. PipelineTypeOK
  <2>1. Silence \in Pulse
      BY DEF Silence, Pulse
  <2> QED
      BY <2>1, PulseBufferAssumption DEF PipelineTypeOK
<1>2. FlagTypeOK
    BY DEF FlagTypeOK
<1>3. TaskTypeOK
    BY DEF TaskTypeOK, GenPcs
<1>4. RefillsWhenLow /\ TimerServed /\ WorksForAVoice
    BY DEF RefillsWhenLow, TimerServed, WorksForAVoice
<1>5. ToSet(ring) = {}
    BY DEF ToSet
<1>6. ShotsHaveTime
    BY <1>5 DEF ShotsHaveTime, Silence
<1>7. CleanKill /\ StraySpent
    BY DEF CleanKill, StraySpent
<1> QED
    BY <1>1, <1>2, <1>3, <1>4, <1>6, <1>7 DEF IInv, TypeOK

\* The ISR takes pulses only; when it masks itself it also stops the timer.  It
\* finds a ring of single pulses dry only when it is empty.
LEMMA IsrInv == IInv /\ Isr => IInv'
<1> SUFFICES ASSUME IInv, Isr PROVE IInv'
    OBVIOUS
<1> USE DEF IInv, TypeOK
<1>1. /\ irqEnabled /\ irqPending /\ irqPending' = FALSE
      /\ UNCHANGED <<isEnabled, voiceOn, fresh, genPc, nextPulse, callPc, loaded,
                     clean, counting>>
    BY DEF Isr, IsrDue, noteVars, genVars
<1>2. strays' \in Nat /\ (~counting => strays' = strays)
    BY DEF Isr, Command, PipelineTypeOK
<1>3. TaskTypeOK' /\ WorksForAVoice'
    BY <1>1 DEF TaskTypeOK, WorksForAVoice
<1>4. counting => ~voiceOn /\ OnlyShots /\ strays' \in {0, 1}
    BY DEF Isr, IsrDue, Command, StraySpent
<1>5. CASE ArmNext
  <2> PICK i \in 1 .. Len(ring) :
        /\ readPulse' = ring[i]
        /\ ring' = SubSeq(ring, i + 1, Len(ring))
        /\ bufferLength' = bufferLength - ring[i].period
        /\ UNCHANGED <<timerRunning, irqEnabled, spoilt>>
      BY <1>5 DEF ArmNext
  <2>1. ring[i] \in Pulse /\ ring[i] \in ToSet(ring)
      BY DEF PipelineTypeOK, ToSet
  <2>2. ring[i].period \in Nat
      BY <2>1 DEF Pulse
  <2>3. /\ ring' \in Seq(Pulse) /\ Len(ring') <= Capacity
        /\ ToSet(ring') \subseteq ToSet(ring)
    <3>1. ring \in Seq(Pulse) /\ Len(ring) <= Capacity
        BY DEF PipelineTypeOK
    <3>2. /\ ring' \in Seq(Pulse) /\ Len(ring') <= Len(ring)
          /\ ToSet(ring') \subseteq ToSet(ring)
        BY <3>1, RestOfRing
    <3> QED
        BY <3>1, <3>2, PulseBufferAssumption
  <2>4. PipelineTypeOK'
      BY <1>1, <1>2, <2>1, <2>2, <2>3 DEF PipelineTypeOK
  <2>5. FlagTypeOK'
      BY <1>1 DEF FlagTypeOK
  <2>6. RefillsWhenLow'
      BY <1>1, <2>2, PulseBufferAssumption DEF RefillsWhenLow, PipelineTypeOK
  <2>7. TimerServed'
      BY <1>1 DEF TimerServed
  <2>8. ShotsHaveTime' /\ (OnlyShots => OnlyShots')
      BY <1>1, <2>3 DEF ShotsHaveTime, OnlyShots
  <2>9. CleanKill'
      BY <1>1, <2>8 DEF CleanKill
  <2>10. StraySpent'
      BY <1>1, <1>2, <1>4, <2>1, <2>8 DEF StraySpent, OnlyShots
  <2> QED
      BY <1>3, <2>4, <2>5, <2>6, <2>7, <2>8, <2>9, <2>10
<1>6. CASE RunDry
  <2> USE DEF RunDry
  <2>1. readPulse' \in Pulse
    <3>1. CASE ring = <<>>
        BY <1>6, <3>1 DEF PipelineTypeOK
    <3>2. CASE ring # <<>>
      <4>1. Last(ring) \in Pulse
          BY <3>2, LastInRing DEF PipelineTypeOK
      <4> QED
          BY <1>6, <3>2, <4>1 DEF Pulse
    <3> QED
        BY <3>1, <3>2
  <2>2. PipelineTypeOK'
      BY <1>1, <1>2, <1>6, <2>1, PulseBufferAssumption DEF PipelineTypeOK
  <2>3. FlagTypeOK'
      BY <1>1, <1>6 DEF FlagTypeOK
  <2>4. RefillsWhenLow' /\ TimerServed'
      BY <1>1, <1>6, PulseBufferAssumption DEF RefillsWhenLow, TimerServed
  <2>5. ToSet(ring') = {}
      BY <1>6 DEF ToSet
  <2>6. ShotsHaveTime' /\ OnlyShots'
      BY <1>1, <2>5 DEF ShotsHaveTime, OnlyShots
  <2>7. CleanKill'
      BY <1>1, <2>6 DEF CleanKill
  <2>8. StraySpent'
      BY <1>1, <1>2, <1>4, <1>6, <2>6 DEF StraySpent
  <2> QED
      BY <1>3, <2>2, <2>3, <2>4, <2>6, <2>7, <2>8
<1> QED
    BY <1>5, <1>6 DEF Isr

\* An expiry can only happen on a running timer.
LEMMA TimerInv == IInv /\ TimerExpires => IInv'
<1> SUFFICES ASSUME IInv, TimerExpires PROVE IInv'
    OBVIOUS
<1> USE DEF IInv, TypeOK, TimerExpires, noteVars, genVars, callVars, killVars
<1>1. PipelineTypeOK' /\ FlagTypeOK'
    BY DEF PipelineTypeOK, FlagTypeOK
<1>2. TaskTypeOK' /\ RefillsWhenLow' /\ WorksForAVoice'
    BY DEF TaskTypeOK, RefillsWhenLow, WorksForAVoice
<1>3. TimerServed' /\ ShotsHaveTime' /\ OnlyShots' = OnlyShots
    BY DEF TimerServed, ShotsHaveTime, OnlyShots
<1>4. CleanKill' /\ StraySpent'
    BY <1>3 DEF CleanKill, StraySpent
<1> QED
    BY <1>1, <1>2, <1>3, <1>4

\* SigGen_task's own steps.  It writes only for an enabled voice, which no clean
\* kill leaves.
LEMMA GenerateInv == IInv /\ Generate => IInv'
<1> SUFFICES ASSUME IInv, Generate PROVE IInv'
    OBVIOUS
<1> USE DEF IInv, TypeOK, hwVars, noteVars, genVars, callVars, killVars
<1>1. CASE Wake \/ CheckLevel \/ NoKickStart
  <2>1. /\ UNCHANGED <<ring, bufferLength, readPulse, nextPulse, hwVars, noteVars,
                       callVars>>
        /\ genPc' \in {"fill", "cap", "kick", "delay"}
        /\ genPc' = "cap" => bufferLength < LowWater /\ voiceOn
      BY <1>1 DEF Wake, CheckLevel, NoKickStart
  <2>2. PipelineTypeOK' /\ FlagTypeOK'
      BY <2>1 DEF PipelineTypeOK, FlagTypeOK
  <2>3. TaskTypeOK' /\ RefillsWhenLow' /\ WorksForAVoice'
      BY <2>1 DEF TaskTypeOK, GenPcs, RefillsWhenLow, WorksForAVoice
  <2>4. TimerServed' /\ ShotsHaveTime' /\ OnlyShots' = OnlyShots
      BY <2>1 DEF TimerServed, ShotsHaveTime, OnlyShots
  <2>5. CleanKill' /\ StraySpent'
      BY <2>1, <2>4 DEF CleanKill, StraySpent
  <2> QED
      BY <2>2, <2>3, <2>4, <2>5
<1>2. CASE ComputePulse
  <2> USE DEF ComputePulse
  <2>1. nextPulse' \in Pulse /\ ~nextPulse'.shot
    <3>1. LongDelay - bufferLength \in Nat
        BY <1>2, PulseBufferAssumption
           DEF RefillsWhenLow, LongDelay, PipelineTypeOK
    <3>2. \A n \in 1 .. MaxNote : n \in Nat
        BY PulseBufferAssumption
    <3>3. \E distance \in Nat, audible \in BOOLEAN :
            nextPulse' = [period |-> distance, live |-> audible, shot |-> FALSE]
        BY <1>2, <3>1, <3>2
    <3> QED
        BY <3>3 DEF Pulse
  <2>2. PipelineTypeOK'
      BY <1>2, <2>1 DEF PipelineTypeOK
  <2>3. FlagTypeOK'
      BY <1>2 DEF FlagTypeOK
  <2>4. TaskTypeOK' /\ RefillsWhenLow' /\ WorksForAVoice'
      BY <1>2 DEF TaskTypeOK, GenPcs, RefillsWhenLow, WorksForAVoice
  <2>5. TimerServed' /\ ShotsHaveTime' /\ OnlyShots' = OnlyShots
      BY <1>2, <2>1 DEF TimerServed, ShotsHaveTime, OnlyShots
  <2>6. CleanKill' /\ StraySpent'
      BY <1>2, <2>5 DEF CleanKill, StraySpent
  <2> QED
      BY <2>2, <2>3, <2>4, <2>5, <2>6
<1>3. CASE WritePulse
  <2> USE DEF WritePulse
  <2>0. Silence \in Pulse /\ ~Silence.shot
      BY DEF Silence, Pulse
  <2>1. /\ ring' \in Seq(Pulse) /\ Len(ring') <= Capacity
        /\ ToSet(ring') \subseteq ToSet(ring) \cup {nextPulse}
    <3>1. CASE ring' = Append(ring, nextPulse) /\ Len(ring) < Capacity
        BY <3>1, RingAppend, PulseBufferAssumption DEF PipelineTypeOK
    <3>2. CASE UNCHANGED ring
        BY <3>2 DEF PipelineTypeOK
    <3> QED
        BY <1>3, <3>1, <3>2
  <2>2. nextPulse' \in Pulse /\ ~nextPulse'.shot
      BY <1>3, <2>0 DEF PipelineTypeOK, ShotsHaveTime
  <2>3. PipelineTypeOK'
      BY <1>3, <2>1, <2>2 DEF PipelineTypeOK
  <2>4. FlagTypeOK'
      BY <1>3 DEF FlagTypeOK
  <2>5. TaskTypeOK' /\ RefillsWhenLow' /\ WorksForAVoice'
      BY <1>3 DEF TaskTypeOK, GenPcs, RefillsWhenLow, WorksForAVoice
  <2>6. voiceOn
      BY <1>3 DEF WorksForAVoice
  <2>7. TimerServed' /\ ShotsHaveTime'
      BY <1>3, <2>1, <2>2 DEF TimerServed, ShotsHaveTime
  <2>8. CleanKill' /\ StraySpent'
      BY <1>3, <2>6 DEF CleanKill, StraySpent
  <2> QED
      BY <2>3, <2>4, <2>5, <2>7, <2>8
<1>4. CASE AccountPulse
  <2> USE DEF AccountPulse
  <2>0. Silence \in Pulse /\ ~Silence.shot
      BY DEF Silence, Pulse
  <2>1. PipelineTypeOK'
      BY <1>4, <2>0 DEF PipelineTypeOK, Pulse
  <2>2. FlagTypeOK'
      BY <1>4 DEF FlagTypeOK
  <2>3. TaskTypeOK' /\ RefillsWhenLow' /\ WorksForAVoice'
      BY <1>4 DEF TaskTypeOK, GenPcs, RefillsWhenLow, WorksForAVoice
  <2>4. TimerServed' /\ ShotsHaveTime' /\ OnlyShots' = OnlyShots
      BY <1>4, <2>0 DEF TimerServed, ShotsHaveTime, OnlyShots
  <2>5. CleanKill' /\ StraySpent'
      BY <1>4, <2>4 DEF CleanKill, StraySpent
  <2> QED
      BY <2>1, <2>2, <2>3, <2>4, <2>5
<1>5. CASE KickStart
  <2> USE DEF KickStart
  <2>1. /\ Head(ring) \in Pulse /\ Head(ring) \in ToSet(ring)
        /\ Tail(ring) \in Seq(Pulse) /\ Len(Tail(ring)) <= Capacity
        /\ ToSet(Tail(ring)) \subseteq ToSet(ring)
    <3>1. ring \in Seq(Pulse) /\ ring # <<>> /\ Len(ring) <= Capacity
        BY <1>5 DEF PipelineTypeOK
    <3> QED
        BY <3>1, TailOfRing, PulseBufferAssumption
  <2>2. Head(ring).period \in Nat
      BY <2>1 DEF Pulse
  <2>3. PipelineTypeOK'
      BY <1>5, <2>1, <2>2 DEF PipelineTypeOK
  <2>4. FlagTypeOK'
      BY <1>5 DEF FlagTypeOK
  <2>5. TaskTypeOK' /\ RefillsWhenLow' /\ WorksForAVoice'
      BY <1>5 DEF TaskTypeOK, GenPcs, RefillsWhenLow, WorksForAVoice
  <2>6. TimerServed' /\ ShotsHaveTime' /\ (OnlyShots => OnlyShots' /\ readPulse'.shot)
      BY <1>5, <2>1 DEF TimerServed, ShotsHaveTime, OnlyShots
  <2>7. CleanKill' /\ StraySpent'
      BY <1>5, <2>6 DEF CleanKill, StraySpent
  <2> QED
      BY <2>3, <2>4, <2>5, <2>6, <2>7
<1> QED
    BY <1>1, <1>2, <1>3, <1>4, <1>5 DEF Generate

\* A note switched on ends the count of strays; the others touch no pulse.
LEMMA NotesInv == IInv /\ (NoteOn \/ NoteOff \/ Unmute) => IInv'
<1> SUFFICES ASSUME IInv, NoteOn \/ NoteOff \/ Unmute PROVE IInv'
    OBVIOUS
<1> USE DEF IInv, TypeOK, hwVars, genVars, callVars, killVars, LowPriorityRuns,
            NoteOn, NoteOff, Unmute
<1>1. PipelineTypeOK'
    BY DEF PipelineTypeOK
<1>2. FlagTypeOK'
    BY DEF FlagTypeOK
<1>3. TaskTypeOK' /\ RefillsWhenLow' /\ WorksForAVoice'
    BY DEF TaskTypeOK, RefillsWhenLow, WorksForAVoice
<1>4. TimerServed' /\ ShotsHaveTime' /\ OnlyShots' = OnlyShots
    BY DEF TimerServed, ShotsHaveTime, OnlyShots
<1>5. CleanKill' /\ StraySpent'
    BY <1>4 DEF CleanKill, StraySpent
<1> QED
    BY <1>1, <1>2, <1>3, <1>4, <1>5

\* A caller's step takes it from one place to another and leaves the rest of the
\* tasks alone.
LEMMA CallStepTypes ==
    ASSUME NEW c \in Callers, NEW from, NEW to \in {"idle"} \cup KillPcs \cup ShotPcs,
           IInv, CallStep(c, from, to)
    PROVE  /\ callPc' \in [Callers -> {"idle"} \cup KillPcs \cup ShotPcs]
           /\ callPc[c] = from /\ callPc'[c] = to
           /\ \A d \in Callers \ {c} : callPc'[d] = callPc[d]
           /\ genPc = "delay"
BY DEF IInv, TypeOK, TaskTypeOK, CallStep, LowPriorityRuns

\* Every step of SigGen_killAudio, among any number of callers.
LEMMA KillInv == ASSUME NEW k \in Killers, IInv, Kill(k) PROVE IInv'
<1>0. k \in Callers
    BY DEF Callers
<1> DEFINE Moves(from, to) ==
             /\ callPc' \in [Callers -> {"idle"} \cup KillPcs \cup ShotPcs]
             /\ callPc[k] = from /\ callPc'[k] = to
             /\ \A d \in Callers \ {k} : callPc'[d] = callPc[d]
             /\ genPc = "delay"
<1> USE DEF IInv, TypeOK, hwVars, noteVars, genVars, killVars
<1>1. CASE BeginKill(k)
  <2> USE DEF BeginKill
  <2>0. Moves("idle", "stop")
      BY <1>0, <1>1, CallStepTypes DEF KillPcs
  <2>1. PipelineTypeOK' /\ FlagTypeOK'
      BY <1>1 DEF PipelineTypeOK, FlagTypeOK
  <2>2. TaskTypeOK' /\ RefillsWhenLow' /\ WorksForAVoice'
      BY <1>1, <2>0 DEF TaskTypeOK, RefillsWhenLow, WorksForAVoice
  <2>3. TimerServed'
      BY <1>1, <2>0 DEF TimerServed, Masked
  <2>4. ShotsHaveTime' /\ OnlyShots' = OnlyShots
      BY <1>1 DEF ShotsHaveTime, OnlyShots
  <2>5. CleanKill' /\ StraySpent'
      BY <1>1, <2>0, <2>4 DEF CleanKill, StraySpent, TaskTypeOK, Callers
  <2> QED
      BY <2>1, <2>2, <2>3, <2>4, <2>5
<1>2. CASE StopTimer(k)
  <2> USE DEF StopTimer
  <2>0. Moves("stop", "mask")
      BY <1>0, <1>2, CallStepTypes DEF KillPcs
  <2>1. PipelineTypeOK' /\ FlagTypeOK'
      BY <1>2 DEF PipelineTypeOK, FlagTypeOK
  <2>2. TaskTypeOK' /\ RefillsWhenLow' /\ WorksForAVoice'
      BY <1>2, <2>0 DEF TaskTypeOK, RefillsWhenLow, WorksForAVoice
  <2>3. TimerServed'
      BY <1>2 DEF TimerServed
  <2>4. ShotsHaveTime' /\ OnlyShots' = OnlyShots
      BY <1>2 DEF ShotsHaveTime, OnlyShots
  <2>5. CleanKill' /\ StraySpent'
      BY <1>2, <2>0, <2>4 DEF CleanKill, StraySpent, Callers
  <2> QED
      BY <2>1, <2>2, <2>3, <2>4, <2>5
<1>3. CASE MaskIrq(k)
  <2> USE DEF MaskIrq
  <2>0. Moves("mask", "flush")
      BY <1>0, <1>3, CallStepTypes DEF KillPcs
  <2>1. PipelineTypeOK' /\ FlagTypeOK'
      BY <1>3 DEF PipelineTypeOK, FlagTypeOK
  <2>2. TaskTypeOK' /\ RefillsWhenLow' /\ WorksForAVoice'
      BY <1>3, <2>0 DEF TaskTypeOK, RefillsWhenLow, WorksForAVoice
  <2>3. TimerServed'
      BY <1>0, <2>0 DEF TimerServed, Masked
  <2>4. ShotsHaveTime' /\ OnlyShots' = OnlyShots
      BY <1>3 DEF ShotsHaveTime, OnlyShots
  <2>5. CleanKill' /\ StraySpent'
      BY <1>3, <2>0, <2>4 DEF CleanKill, StraySpent, Callers
  <2> QED
      BY <2>1, <2>2, <2>3, <2>4, <2>5
<1>4. CASE Flush(k)
  <2> USE DEF Flush
  <2>0. Moves("flush", "zero")
      BY <1>0, <1>4, CallStepTypes DEF KillPcs
  <2>1. PipelineTypeOK' /\ FlagTypeOK'
      BY <1>4, PulseBufferAssumption DEF PipelineTypeOK, FlagTypeOK
  <2>2. TaskTypeOK' /\ RefillsWhenLow' /\ WorksForAVoice'
      BY <1>4, <2>0 DEF TaskTypeOK, RefillsWhenLow, WorksForAVoice
  <2>3. TimerServed'
      BY <1>0, <2>0 DEF TimerServed, Masked
  <2>4. ToSet(ring') = {}
      BY <1>4 DEF ToSet
  <2>5. ShotsHaveTime' /\ OnlyShots'
      BY <1>4, <2>4 DEF ShotsHaveTime, OnlyShots
  <2>6. CleanKill' /\ StraySpent'
      BY <1>4, <2>0, <2>5 DEF CleanKill, StraySpent, Callers
  <2> QED
      BY <2>1, <2>2, <2>3, <2>5, <2>6
<1>5. CASE ZeroLength(k)
  <2> USE DEF ZeroLength
  <2>0. Moves("zero", "unmask")
      BY <1>0, <1>5, CallStepTypes DEF KillPcs
  <2>1. PipelineTypeOK' /\ FlagTypeOK'
      BY <1>5 DEF PipelineTypeOK, FlagTypeOK
  <2>2. TaskTypeOK' /\ RefillsWhenLow' /\ WorksForAVoice'
      BY <1>5, <2>0 DEF TaskTypeOK, RefillsWhenLow, WorksForAVoice
  <2>3. TimerServed'
      BY <1>0, <2>0 DEF TimerServed, Masked
  <2>4. ShotsHaveTime' /\ OnlyShots' = OnlyShots
      BY <1>5 DEF ShotsHaveTime, OnlyShots
  <2>5. CleanKill' /\ StraySpent'
      BY <1>5, <2>0, <2>4 DEF CleanKill, StraySpent, Callers
  <2> QED
      BY <2>1, <2>2, <2>3, <2>4, <2>5
<1>6. CASE UnmaskIrq(k)
  <2> USE DEF UnmaskIrq
  <2>0. Moves("unmask", "idle")
      BY <1>0, <1>6, CallStepTypes
  <2>1. PipelineTypeOK' /\ FlagTypeOK'
      BY <1>6 DEF PipelineTypeOK, FlagTypeOK, TaskTypeOK
  <2>2. TaskTypeOK' /\ RefillsWhenLow' /\ WorksForAVoice'
      BY <1>6, <2>0 DEF TaskTypeOK, RefillsWhenLow, WorksForAVoice
  <2>3. TimerServed'
      BY <1>6 DEF TimerServed
  <2>4. ShotsHaveTime' /\ OnlyShots' = OnlyShots
      BY <1>6 DEF ShotsHaveTime, OnlyShots
  <2>5. clean[k] => ~voiceOn /\ OnlyShots
      BY <2>0 DEF CleanKill
  <2>6. CleanKill'
      BY <1>6, <2>0, <2>4 DEF CleanKill, Callers
  <2>7. StraySpent'
      BY <1>6, <2>4, <2>5 DEF StraySpent, FlagTypeOK, TaskTypeOK
  <2> QED
      BY <2>1, <2>2, <2>3, <2>4, <2>6, <2>7
<1> QED
    BY <1>1, <1>2, <1>3, <1>4, <1>5, <1>6 DEF Kill

\* Every step of CMD_oneshot, among any number of callers: it brings single pulses
\* only, and whatever it masks it unmasks.
LEMMA ShootInv == ASSUME NEW s \in Shooters, IInv, Shoot(s) PROVE IInv'
<1>0. s \in Callers
    BY DEF Callers
<1> USE DEF IInv, TypeOK, hwVars, noteVars, genVars, killVars
<1>1. PICK from \in {"idle"} \cup ShotPcs, to \in {"idle"} \cup ShotPcs :
        /\ CallStep(s, from, to)
        /\ from \in Masked /\ to \notin Masked => irqEnabled'
        /\ irqEnabled /\ ~irqEnabled' => to \in Masked
    BY DEF Shoot, WriteShot, HideIrq, LoadLength, StoreLength, ShowIrq, ShotPcs, Masked
<1>2. /\ callPc' \in [Callers -> {"idle"} \cup KillPcs \cup ShotPcs]
      /\ callPc[s] = from /\ callPc'[s] = to
      /\ \A d \in Callers \ {s} : callPc'[d] = callPc[d]
      /\ genPc = "delay"
    BY <1>0, <1>1, CallStepTypes
<1>3. /\ UNCHANGED <<readPulse, timerRunning, irqPending, noteVars, genVars, killVars>>
      /\ irqEnabled' \in {irqEnabled, TRUE, FALSE}
    BY DEF Shoot, WriteShot, HideIrq, LoadLength, StoreLength, ShowIrq
<1>4. bufferLength' \in Int /\ loaded' \in [Shooters -> Int] /\ spoilt' \in BOOLEAN
  <2>1. bufferLength \in Int /\ loaded \in [Shooters -> Int] /\ spoilt \in BOOLEAN
        /\ LowWater \in Int
      BY PulseBufferAssumption DEF PipelineTypeOK, TaskTypeOK, FlagTypeOK
  <2>2. CASE WriteShot(s) \/ HideIrq(s) \/ ShowIrq(s)
      BY <2>1, <2>2 DEF WriteShot, HideIrq, ShowIrq
  <2>3. CASE LoadLength(s)
      BY <2>1, <2>3 DEF LoadLength
  <2>4. CASE StoreLength(s)
      BY <2>1, <2>4 DEF StoreLength, SingleShot
  <2> QED
      BY <2>2, <2>3, <2>4 DEF Shoot
<1>5. /\ ring' \in Seq(Pulse) /\ Len(ring') <= Capacity
      /\ ToSet(ring') \subseteq ToSet(ring) \cup {SingleShot}
  <2>1. CASE WriteShot(s)
    <3>1. SingleShot \in Pulse
        BY PulseBufferAssumption DEF SingleShot, Pulse
    <3> QED
        BY <2>1, <3>1, RingAppend, PulseBufferAssumption DEF WriteShot, PipelineTypeOK
  <2>2. CASE UNCHANGED ring
      BY <2>2 DEF PipelineTypeOK
  <2> QED
      BY <2>1, <2>2 DEF Shoot, HideIrq, LoadLength, StoreLength, ShowIrq
<1>6. PipelineTypeOK' /\ FlagTypeOK'
    BY <1>3, <1>4, <1>5 DEF PipelineTypeOK, FlagTypeOK
<1>7. TaskTypeOK' /\ RefillsWhenLow' /\ WorksForAVoice'
    BY <1>2, <1>3, <1>4 DEF TaskTypeOK, RefillsWhenLow, WorksForAVoice
<1>8. TimerServed'
    BY <1>0, <1>1, <1>2, <1>3 DEF TimerServed, FlagTypeOK
<1>9. ShotsHaveTime' /\ (OnlyShots => OnlyShots')
    BY <1>3, <1>5, PulseBufferAssumption DEF ShotsHaveTime, OnlyShots, SingleShot
<1>10. CleanKill'
    BY <1>2, <1>3, <1>9 DEF CleanKill, Callers, ShotPcs
<1>11. StraySpent'
    BY <1>3, <1>9 DEF StraySpent
<1> QED
    BY <1>6, <1>7, <1>8, <1>9, <1>10, <1>11

\* Nothing changes when nothing changes.
LEMMA StutterInv == IInv /\ UNCHANGED vars => IInv'
<1> SUFFICES ASSUME IInv, UNCHANGED vars PROVE IInv'
    OBVIOUS
<1> USE DEF IInv, TypeOK, vars
<1>1. PipelineTypeOK' /\ FlagTypeOK' /\ TaskTypeOK'
    BY DEF PipelineTypeOK, FlagTypeOK, TaskTypeOK
<1>2. RefillsWhenLow' /\ WorksForAVoice' /\ TimerServed'
    BY DEF RefillsWhenLow, WorksForAVoice, TimerServed
<1>3. ShotsHaveTime' /\ OnlyShots' = OnlyShots
    BY DEF ShotsHaveTime, OnlyShots
<1>4. CleanKill' /\ StraySpent'
    BY <1>3 DEF CleanKill, StraySpent
<1> QED
    BY <1>1, <1>2, <1>3, <1>4

\* The invariant is inductive.
LEMMA NextInv == IInv /\ [Next]_vars => IInv'
BY TimerInv, IsrInv, GenerateInv, NotesInv, KillInv, ShootInv, StutterInv DEF Next

-----------------------------------------------------------------------------
(* What follows *)

\* The inductive invariant of the pulse pipeline (SigGen_task, SigGen_PulseTimerISR,
\* SigGen_killAudio and CMD_oneshot interleaved).
THEOREM Invariance == Spec => []IInv
BY InitInv, NextInv, PTL DEF Spec

\* Every variable keeps its type, and the ring never holds more pulses than
\* RingBuffer_create gave it room for.
THEOREM TypeCorrect == Spec => []TypeOK
<1>1. IInv => TypeOK
    BY DEF IInv
<1> QED
    BY <1>1, Invariance, PTL

\* However many tasks kill the output and queue single pulses at once, a running
\* timer whose interrupt is masked has a call of SigGen_killAudio or CMD_oneshot
\* in progress that will unmask it.
THEOREM NoTimerLeftMasked == Spec => []TimerServed
<1>1. IInv => TimerServed
    BY DEF IInv
<1> QED
    BY <1>1, Invariance, PTL

\* Once SigGen_killAudio has returned, at most one pulse of a voice is still
\* commanded until a note is switched on, whatever CMD_oneshot queues and unmasks.
THEOREM KillSilences == Spec => []AtMostOneStray
<1>1. IInv => AtMostOneStray
    BY DEF IInv, TypeOK, PipelineTypeOK, FlagTypeOK, StraySpent, AtMostOneStray
<1> QED
    BY <1>1, Invariance, PTL

-----------------------------------------------------------------------------
(* The time of a ring *)

\* Every set of numbers that has one has a least one.
LEMMA LeastElement ==
    ASSUME NEW T \in SUBSET Nat, T # {}
    PROVE  \E n \in T : \A m \in T : n <= m
<1> DEFINE below == OpToRel(<, Nat)
<1>1. \A m, n \in Nat : m < n => <<m, n>> \in below
    BY Zenon DEF OpToRel
<1>2. IsWellFoundedOn(below, Nat)
    BY NatLessThanWellFounded
<1> HIDE DEF below
<1>3. PICK n \in T : \A m \in T : ~ (<<m, n>> \in below)
    BY <1>2, WFMin, Zenon
<1>4. \A m \in T : ~ (m < n)
    BY <1>1, <1>3, Zenon
<1> QED
    BY <1>4

\* A set that has 0 and with every number the next one has them all.
LEMMA NatSetInduction ==
    ASSUME NEW S, 0 \in S, \A n \in Nat : n \in S => n + 1 \in S
    PROVE  Nat \subseteq S
<1> SUFFICES ASSUME Nat \ S # {} PROVE FALSE
    OBVIOUS
<1>1. PICK n \in Nat \ S : \A m \in Nat \ S : n <= m
    BY LeastElement
<1>2. n # 0 /\ n - 1 \in Nat /\ n - 1 \in S
    BY <1>1
<1> QED
    BY <1>1, <1>2

\* f[i] is the time of the first i pulses of s.
RunningTime(f, s) ==
    /\ f \in [0 .. Len(s) -> Nat]
    /\ f[0] = 0
    /\ \A i \in 1 .. Len(s) : f[i] = f[i - 1] + s[i].period

\* One more pulse at the end.
LEMMA RunningAppend ==
    ASSUME NEW s \in Seq(Pulse), NEW p \in Pulse, NEW f, RunningTime(f, s)
    PROVE  \E g : /\ RunningTime(g, Append(s, p))
                  /\ g[Len(s) + 1] = f[Len(s)] + p.period
<1> DEFINE n == Len(s)
           t == Append(s, p)
           g == [i \in 0 .. n + 1 |-> IF i <= n THEN f[i] ELSE f[n] + p.period]
<1>1. n \in Nat /\ Len(t) = n + 1 /\ t[n + 1] = p /\ \A i \in 1 .. n : t[i] = s[i]
    OBVIOUS
<1>2. p.period \in Nat
    BY DEF Pulse
<1> HIDE DEF n, t
<1>3. /\ f \in [0 .. n -> Nat] /\ f[0] = 0
      /\ \A i \in 1 .. n : f[i] = f[i - 1] + s[i].period
    BY DEF RunningTime, n
<1>4. g \in [0 .. n + 1 -> Nat] /\ g[0] = 0 /\ g[n + 1] = f[n] + p.period
    BY <1>1, <1>2, <1>3
<1>5. ASSUME NEW i \in 1 .. n + 1
      PROVE  g[i] = g[i - 1] + t[i].period
  <2>1. CASE i \in 1 .. n
    <3>1. i \in 0 .. n + 1 /\ i - 1 \in 0 .. n + 1 /\ i <= n /\ i - 1 <= n
        BY <2>1, <1>1
    <3>2. g[i] = f[i] /\ g[i - 1] = f[i - 1]
        BY <3>1
    <3> QED
        BY <2>1, <3>2, <1>1, <1>3
  <2>2. CASE i = n + 1
      BY <2>2, <1>1, <1>3, <1>4
  <2> QED
      BY <2>1, <2>2, <1>1
<1>6. RunningTime(g, t)
    BY <1>1, <1>4, <1>5 DEF RunningTime
<1> HIDE DEF g
<1> QED
    BY <1>4, <1>6 DEF n, t

\* Every ring has running times: by induction over its length.
LEMMA RunningTimeExists == \A s \in Seq(Pulse) : \E f : RunningTime(f, s)
<1> DEFINE S == {n \in Nat : \A s \in Seq(Pulse) : Len(s) = n => \E f : RunningTime(f, s)}
<1>1. 0 \in S
  <2> SUFFICES ASSUME NEW s \in Seq(Pulse), Len(s) = 0 PROVE \E f : RunningTime(f, s)
      OBVIOUS
  <2>1. RunningTime([i \in 0 .. 0 |-> 0], s)
      BY DEF RunningTime
  <2> QED
      BY <2>1
<1>2. ASSUME NEW n \in Nat, n \in S PROVE n + 1 \in S
  <2> SUFFICES ASSUME NEW s \in Seq(Pulse), Len(s) = n + 1 PROVE \E f : RunningTime(f, s)
      BY <1>2
  <2> DEFINE r == SubSeq(s, 1, n)
  <2>1. /\ r \in Seq(Pulse) /\ Len(r) = n /\ s[n + 1] \in Pulse
        /\ s = Append(r, s[n + 1])
      BY <1>2
  <2> HIDE DEF r
  <2>2. PICK f : RunningTime(f, r)
      BY <1>2, <2>1
  <2> QED
      BY <2>1, <2>2, RunningAppend
<1> HIDE DEF S
<1>3. Nat \subseteq S
    BY <1>1, <1>2, NatSetInduction
<1> QED
    BY <1>3 DEF S

\* There is only one function of running times.
LEMMA RunningTimeUnique ==
    ASSUME NEW s \in Seq(Pulse), NEW f, NEW g, RunningTime(f, s), RunningTime(g, s)
    PROVE  f = g
<1> DEFINE S == {n \in Nat : n <= Len(s) => f[n] = g[n]}
<1>1. 0 \in S
    BY DEF RunningTime
<1>2. ASSUME NEW n \in Nat, n \in S PROVE n + 1 \in S
  <2> SUFFICES ASSUME n + 1 <= Len(s) PROVE f[n + 1] = g[n + 1]
      OBVIOUS
  <2>1. n + 1 \in 1 .. Len(s) /\ (n + 1) - 1 = n /\ f[n] = g[n]
      BY <1>2
  <2> QED
      BY <2>1 DEF RunningTime
<1> HIDE DEF S
<1>3. Nat \subseteq S
    BY <1>1, <1>2, NatSetInduction
<1>4. \A i \in 0 .. Len(s) : f[i] = g[i]
    BY <1>3 DEF S
<1> QED
    BY <1>4 DEF RunningTime

\* TimeOf is the last of them.
LEMMA TimeIsRunningTime ==
    ASSUME NEW s \in Seq(Pulse), NEW f, RunningTime(f, s)
    PROVE  TimeOf(s) = f[Len(s)] /\ TimeOf(s) \in Nat
<1> DEFINE Sums(h) == h = [i \in 0 .. Len(s) |-> IF i = 0 THEN 0 ELSE h[i - 1] + s[i].period]
           h0 == CHOOSE h : Sums(h)
<1>1. TimeOf(s) = h0[Len(s)]
    BY DEF TimeOf
<1>2. Sums(f)
    BY DEF RunningTime
<1>3. Sums(h0)
    BY <1>2, Zenon
<1> HIDE DEF h0
<1>4. h0[0] = 0 /\ \A i \in 1 .. Len(s) : h0[i] = h0[i - 1] + s[i].period
    BY <1>3
<1> DEFINE S == {n \in Nat : n <= Len(s) => f[n] = h0[n]}
<1>5. 0 \in S
    BY <1>4 DEF RunningTime
<1>6. ASSUME NEW n \in Nat, n \in S PROVE n + 1 \in S
  <2> SUFFICES ASSUME n + 1 <= Len(s) PROVE f[n + 1] = h0[n + 1]
      OBVIOUS
  <2>1. n + 1 \in 1 .. Len(s) /\ (n + 1) - 1 = n /\ f[n] = h0[n]
      BY <1>6
  <2> QED
      BY <2>1, <1>4 DEF RunningTime
<1> HIDE DEF S
<1>7. Nat \subseteq S
    BY <1>5, <1>6, NatSetInduction
<1>8. f[Len(s)] = h0[Len(s)] /\ f[Len(s)] \in Nat
    BY <1>7 DEF S, RunningTime
<1> QED
    BY <1>1, <1>8

\* A pulse more is its period more.
LEMMA TimeOfAppend ==
    ASSUME NEW s \in Seq(Pulse), NEW p \in Pulse
    PROVE  TimeOf(Append(s, p)) = TimeOf(s) + p.period /\ TimeOf(s) \in Nat
<1>1. PICK f : RunningTime(f, s)
    BY RunningTimeExists
<1>2. PICK g : RunningTime(g, Append(s, p)) /\ g[Len(s) + 1] = f[Len(s)] + p.period
    BY <1>1, RunningAppend
<1>3. Append(s, p) \in Seq(Pulse) /\ Len(Append(s, p)) = Len(s) + 1
    OBVIOUS
<1> QED
    BY <1>1, <1>2, <1>3, TimeIsRunningTime

\* An empty ring holds no time.
LEMMA TimeOfEmpty == TimeOf(<<>>) = 0
<1>1. <<>> \in Seq(Pulse) /\ Len(<<>>) = 0
    OBVIOUS
<1>2. PICK f : RunningTime(f, <<>>)
    BY <1>1, RunningTimeExists
<1>3. TimeOf(<<>>) = f[0]
    BY <1>1, <1>2, TimeIsRunningTime
<1> QED
    BY <1>2, <1>3 DEF RunningTime

\* Pulses of no period hold no time.
LEMMA RunningZero ==
    ASSUME NEW s \in Seq(Pulse), NEW f, RunningTime(f, s), NEW k \in 0 .. Len(s),
           \A j \in 1 .. k : s[j].period = 0
    PROVE  f[k] = 0
<1> DEFINE S == {n \in Nat : n <= k => f[n] = 0}
<1>1. 0 \in S
    BY DEF RunningTime
<1>2. ASSUME NEW n \in Nat, n \in S PROVE n + 1 \in S
  <2> SUFFICES ASSUME n + 1 <= k PROVE f[n + 1] = 0
      OBVIOUS
  <2>1. n + 1 \in 1 .. Len(s) /\ (n + 1) - 1 = n /\ f[n] = 0 /\ s[n + 1].period = 0
      BY <1>2
  <2> QED
      BY <2>1 DEF RunningTime
<1> HIDE DEF S
<1>3. Nat \subseteq S
    BY <1>1, <1>2, NatSetInduction
<1> QED
    BY <1>3 DEF S

\* What the ISR leaves when it takes the i-th pulse and the empty ones before it.
LEMMA TimeOfRest ==
    ASSUME NEW s \in Seq(Pulse), NEW i \in 1 .. Len(s), \A j \in 1 .. i - 1 : s[j].period = 0
    PROVE  TimeOf(s) = s[i].period + TimeOf(SubSeq(s, i + 1, Len(s)))
<1> DEFINE n == Len(s)
           r == SubSeq(s, i + 1, n)
<1>1. PICK f : RunningTime(f, s)
    BY RunningTimeExists
<1>2. /\ n \in Nat /\ i \in Nat /\ i <= n /\ r \in Seq(Pulse) /\ Len(r) = n - i
      /\ \A j \in 1 .. n - i : r[j] = s[i + j] /\ r[j] \in Pulse
    OBVIOUS
<1>3. f[i - 1] = 0
    BY <1>1, RunningZero
<1>4. f[i] = s[i].period /\ f[i] \in Nat
  <2>1. s[i].period \in Nat
    <3>1. s[i] \in Pulse
        OBVIOUS
    <3> QED
        BY <3>1 DEF Pulse
  <2>2. f[i] = f[i - 1] + s[i].period
      BY <1>1 DEF RunningTime
  <2> QED
      BY <2>1, <2>2, <1>3
<1> HIDE DEF r, n
<1>5. PICK h : RunningTime(h, r)
    BY <1>2, RunningTimeExists
<1> DEFINE S == {m \in Nat : m <= n - i => h[m] + f[i] = f[i + m]}
<1>6. 0 \in S
    BY <1>2, <1>4, <1>5 DEF RunningTime
<1>7. ASSUME NEW m \in Nat, m \in S PROVE m + 1 \in S
  <2> SUFFICES ASSUME m + 1 <= n - i PROVE h[m + 1] + f[i] = f[i + (m + 1)]
      OBVIOUS
  <2>1. /\ m + 1 \in 1 .. n - i /\ (m + 1) - 1 = m /\ h[m] + f[i] = f[i + m]
        /\ i + (m + 1) \in 1 .. n /\ (i + (m + 1)) - 1 = i + m
      BY <1>2, <1>7
  <2>2. r[m + 1] = s[i + (m + 1)] /\ r[m + 1].period \in Nat
      BY <2>1, <1>2 DEF Pulse
  <2>3. h[m + 1] = h[m] + r[m + 1].period /\ h[m] \in Nat
      BY <2>1, <1>2, <1>5 DEF RunningTime
  <2>4. f[i + (m + 1)] = f[i + m] + s[i + (m + 1)].period
      BY <2>1, <1>1 DEF RunningTime, n
  <2> QED
      BY <2>1, <2>2, <2>3, <2>4, <1>4
<1> HIDE DEF S
<1>8. Nat \subseteq S
    BY <1>6, <1>7, NatSetInduction
<1>9. n - i \in S
    BY <1>2, <1>8
<1>10. h[n - i] + f[i] = f[n]
  <2>1. n - i <= n - i /\ i + (n - i) = n
      BY <1>2
  <2> QED
      BY <1>9, <2>1 DEF S
<1>11. TimeOf(s) = f[n] /\ TimeOf(r) = h[n - i] /\ TimeOf(r) \in Nat
    BY <1>1, <1>2, <1>5, TimeIsRunningTime DEF n
<1>12. TimeOf(s) = s[i].period + TimeOf(r)
    BY <1>4, <1>10, <1>11
<1> QED
    BY <1>12 DEF r, n

\* A ring of empty pulses holds no time, and none holds less.
LEMMA TimeOfRing ==
    ASSUME NEW s \in Seq(Pulse)
    PROVE  /\ TimeOf(s) \in Nat
           /\ (\A i \in 1 .. Len(s) : s[i].period = 0) => TimeOf(s) = 0
<1>1. PICK f : RunningTime(f, s)
    BY RunningTimeExists
<1>2. TimeOf(s) = f[Len(s)] /\ TimeOf(s) \in Nat
    BY <1>1, TimeIsRunningTime
<1>3. Len(s) \in 0 .. Len(s)
    OBVIOUS
<1> QED
    BY <1>1, <1>2, <1>3, RunningZero

-----------------------------------------------------------------------------
(* What the task believes *)

\* SigGen_task works on no pulse longer than the longest distance it computes.
CutToMaxNote == genPc \in {"write", "account"} => nextPulse.period <= MaxNote

\* The inductive invariant of the belief.
BeliefInv == BeliefNearTruth /\ CutToMaxNote

\* What the writers have written and not yet added.
TaskOwes == IF genPc = "account" THEN nextPulse.period ELSE 0
ShootersOwe == LowWater * Cardinality(Unsummed)

\* The terms of the belief are numbers, and what the writers owe is bounded.
LEMMA BeliefTypes ==
    ASSUME IInv, CutToMaxNote
    PROVE  /\ BelievedTime = bufferLength + TaskOwes + ShootersOwe
           /\ QueuedTime \in Nat /\ bufferLength \in Int
           /\ TaskOwes \in 0 .. MaxNote
           /\ ShootersOwe \in 0 .. LowWater * Cardinality(Shooters)
           /\ LowWater * Cardinality(Shooters) \in Nat
           /\ ring \in Seq(Pulse) /\ nextPulse.period \in Nat
           /\ MaxNote \in Nat /\ LowWater \in Nat
<1>1. /\ ring \in Seq(Pulse) /\ nextPulse \in Pulse /\ bufferLength \in Int
    BY DEF IInv, TypeOK, PipelineTypeOK
<1>2. nextPulse.period \in Nat
    BY <1>1 DEF Pulse
<1>3. QueuedTime \in Nat
    BY <1>1, TimeOfRing DEF QueuedTime
<1>4. /\ Cardinality(Unsummed) \in Nat /\ Cardinality(Shooters) \in Nat
      /\ Cardinality(Unsummed) <= Cardinality(Shooters)
    BY FS_Subset, FS_CardinalityType, PulseBufferAssumption DEF Unsummed
<1>5. /\ ShootersOwe \in 0 .. LowWater * Cardinality(Shooters)
      /\ LowWater * Cardinality(Shooters) \in Nat
  <2>1. \A l, a, b \in Nat : a <= b => l * a \in Nat /\ l * b \in Nat /\ l * a <= l * b
      BY SMT
  <2>2. LowWater \in Nat
      BY PulseBufferAssumption
  <2> QED
      BY <1>4, <2>1, <2>2 DEF ShootersOwe
<1>6. TaskOwes \in 0 .. MaxNote /\ MaxNote \in Nat /\ LowWater \in Nat
    BY <1>2, PulseBufferAssumption DEF TaskOwes, CutToMaxNote
<1>7. BelievedTime = bufferLength + TaskOwes + ShootersOwe
    BY DEF BelievedTime, TaskOwes, ShootersOwe
<1> QED
    BY <1>1, <1>2, <1>3, <1>5, <1>6, <1>7

\* A step that moves both alike keeps the belief, unless it ends the time between a
\* flush and its zero.
LEMMA BothAlike ==
    ASSUME BeliefNearTruth, spoilt => spoilt',
           BelievedTime' - QueuedTime' = BelievedTime - QueuedTime,
           \A k \in Killers : callPc[k] = "zero" => callPc'[k] = "zero"
    PROVE  BeliefNearTruth'
BY DEF BeliefNearTruth

\* An empty ring of which nothing is believed but what is owed.
LEMMA NothingButOwed ==
    IInv /\ CutToMaxNote /\ ring = <<>> /\ bufferLength = 0 => BeliefNearTruth
<1> SUFFICES ASSUME IInv, CutToMaxNote, ring = <<>>, bufferLength = 0
             PROVE  BeliefNearTruth
    OBVIOUS
<1>1. QueuedTime = 0
    BY TimeOfEmpty DEF QueuedTime
<1> DEFINE bound == LowWater * Cardinality(Shooters)
<1>2. /\ BelievedTime = 0 + TaskOwes + ShootersOwe
      /\ TaskOwes \in 0 .. MaxNote /\ ShootersOwe \in 0 .. bound
      /\ bound \in Nat /\ MaxNote \in Nat
    BY BeliefTypes
<1> HIDE DEF bound
<1>3. 0 <= BelievedTime - QueuedTime /\ BelievedTime - QueuedTime <= MaxNote + bound
    BY <1>1, <1>2
<1> QED
    BY <1>3 DEF BeliefNearTruth, bound

\* The same of the state after a step.
LEMMA NothingButOwedNext ==
    (IInv /\ CutToMaxNote /\ ring = <<>> /\ bufferLength = 0 => BeliefNearTruth)'
BY NothingButOwed, PTL

\* An empty ring is believed empty.
LEMMA InitBelief == Init => BeliefInv
<1> SUFFICES ASSUME Init PROVE BeliefInv
    OBVIOUS
<1>1. Unsummed = {} /\ QueuedTime = 0 /\ genPc = "delay"
    BY TimeOfEmpty DEF Init, Unsummed, QueuedTime, Callers
<1>2. CutToMaxNote
    BY <1>1 DEF CutToMaxNote
<1>3. BelievedTime = 0
    BY <1>1, FS_EmptySet, PulseBufferAssumption DEF Init, BelievedTime
<1>4. MaxNote + LowWater * Cardinality(Shooters) \in Nat
    BY <1>2, BeliefTypes, InitInv
<1> QED
    BY <1>1, <1>2, <1>3, <1>4 DEF BeliefInv, BeliefNearTruth

\* What is taken from one term is taken from the sum.
LEMMA SumLessPeriod ==
    ASSUME NEW length \in Int, NEW task \in Int, NEW shooters \in Int, NEW period \in Int
    PROVE  /\ (length - period) + task + shooters = (length + task + shooters) - period
           /\ length + task + shooters \in Int
OBVIOUS

\* The first pulse that is not empty, taken off the ring and off the length.
LEMMA TakenOff ==
    ASSUME IInv, BeliefInv, NEW i \in 1 .. Len(ring),
           \A j \in 1 .. i - 1 : ring[j].period = 0,
           ring' = SubSeq(ring, i + 1, Len(ring)),
           bufferLength' = bufferLength - ring[i].period,
           UNCHANGED callPc, TaskOwes' = TaskOwes
    PROVE  BelievedTime' - QueuedTime' = BelievedTime - QueuedTime
<1>1. ring \in Seq(Pulse)
    BY DEF IInv, TypeOK, PipelineTypeOK
<1>2. ring[i].period \in Nat
  <2>1. ring[i] \in Pulse
      BY <1>1
  <2> QED
      BY <2>1 DEF Pulse
<1>3. QueuedTime = ring[i].period + QueuedTime'
    BY <1>1, TimeOfRest DEF QueuedTime
<1>4. QueuedTime' \in Nat
  <2>1. ring' \in Seq(Pulse)
      BY <1>1, RestOfRing
  <2> QED
      BY <2>1, TimeOfRing DEF QueuedTime
<1>5. /\ BelievedTime = bufferLength + TaskOwes + ShootersOwe
      /\ BelievedTime' = bufferLength' + TaskOwes + ShootersOwe
      /\ bufferLength \in Int /\ TaskOwes \in Int /\ ShootersOwe \in Int
  <2>1. Unsummed' = Unsummed
      BY DEF Unsummed
  <2>2. BelievedTime' = bufferLength' + TaskOwes' + LowWater * Cardinality(Unsummed')
      BY DEF BelievedTime, TaskOwes
  <2> QED
      BY <2>1, <2>2, BeliefTypes DEF BeliefInv, ShootersOwe
<1>6. BelievedTime' = BelievedTime - ring[i].period /\ BelievedTime \in Int
    BY <1>2, <1>5, SumLessPeriod
<1>7. QueuedTime' = QueuedTime - ring[i].period /\ QueuedTime \in Int
    BY <1>2, <1>3, <1>4
<1> QED
    BY <1>2, <1>6, <1>7

\* The ISR takes the same time off both, or finds nothing and makes both zero but for
\* what the writers have not yet accounted for.
LEMMA IsrBelief == ASSUME IInv, IInv', BeliefInv, Isr PROVE BeliefInv'
<1>1. UNCHANGED <<genPc, nextPulse, callPc>>
    BY DEF Isr, genVars
<1>2. CutToMaxNote' /\ TaskOwes' = TaskOwes
    BY <1>1 DEF BeliefInv, CutToMaxNote, TaskOwes
<1>3. CASE ArmNext
  <2>1. PICK i \in 1 .. Len(ring) :
          /\ \A j \in 1 .. i - 1 : ring[j].period = 0
          /\ ring' = SubSeq(ring, i + 1, Len(ring))
          /\ bufferLength' = bufferLength - ring[i].period
          /\ UNCHANGED spoilt
      BY <1>3 DEF ArmNext
  <2>2. BelievedTime' - QueuedTime' = BelievedTime - QueuedTime
      BY <1>1, <1>2, <2>1, TakenOff
  <2> QED
      BY <1>1, <1>2, <2>1, <2>2, BothAlike DEF BeliefInv
<1>4. CASE RunDry
    BY <1>2, <1>4, NothingButOwedNext DEF RunDry, BeliefInv
<1> QED
    BY <1>3, <1>4 DEF Isr

\* SigGen_task's steps: a pulse is believed from the moment it is written, and a cut one
\* is no longer than the note it cuts.
LEMMA GenerateBelief == ASSUME IInv, IInv', BeliefInv, Generate PROVE BeliefInv'
<1>1. UNCHANGED <<callPc, spoilt>>
    BY DEF Generate, Wake, CheckLevel, ComputePulse, WritePulse, AccountPulse, KickStart,
           NoKickStart, callVars
<1>2. Unsummed' = Unsummed
    BY <1>1 DEF Unsummed
<1>3. CutToMaxNote'
  <2>1. CASE ComputePulse
    <3>1. LongDelay - bufferLength \in Nat
        BY <2>1, PulseBufferAssumption
           DEF ComputePulse, IInv, TypeOK, PipelineTypeOK, RefillsWhenLow, LongDelay
    <3>2. PICK n \in 1 .. MaxNote :
            nextPulse'.period \in {0, n} \/ (n > LongDelay - bufferLength
                                              /\ nextPulse'.period = LongDelay - bufferLength)
        BY <2>1 DEF ComputePulse
    <3> QED
        BY <3>1, <3>2, PulseBufferAssumption DEF CutToMaxNote
  <2>2. CASE WritePulse
      BY <2>2 DEF WritePulse, BeliefInv, CutToMaxNote
  <2>3. CASE Wake \/ CheckLevel \/ AccountPulse \/ KickStart \/ NoKickStart
      BY <2>3 DEF Wake, CheckLevel, AccountPulse, KickStart, NoKickStart, CutToMaxNote
  <2> QED
      BY <2>1, <2>2, <2>3 DEF Generate
<1>4. BelievedTime' - QueuedTime' = BelievedTime - QueuedTime
  <2>1. /\ BelievedTime = bufferLength + TaskOwes + ShootersOwe
        /\ BelievedTime' = bufferLength' + TaskOwes' + ShootersOwe
        /\ bufferLength \in Int /\ TaskOwes \in Int /\ ShootersOwe \in Int
        /\ QueuedTime \in Nat /\ ring \in Seq(Pulse) /\ nextPulse.period \in Nat
    <3>1. BelievedTime' = bufferLength' + TaskOwes' + LowWater * Cardinality(Unsummed')
        BY DEF BelievedTime, TaskOwes
    <3> QED
        BY <1>2, <3>1, BeliefTypes DEF BeliefInv, ShootersOwe
  <2>2. CASE Wake \/ CheckLevel \/ ComputePulse \/ NoKickStart
    <3>1. UNCHANGED <<ring, bufferLength>> /\ TaskOwes = 0 /\ TaskOwes' = 0
        BY <2>2 DEF Wake, CheckLevel, ComputePulse, NoKickStart, TaskOwes
    <3> QED
        BY <2>1, <3>1 DEF QueuedTime
  <2>3. CASE WritePulse
    <3>1. CASE ring' = Append(ring, nextPulse) /\ genPc' = "account"
      <4>1. /\ bufferLength' = bufferLength
            /\ TaskOwes = 0 /\ TaskOwes' = nextPulse.period
          BY <2>3, <3>1 DEF WritePulse, TaskOwes
      <4>2. QueuedTime' = QueuedTime + nextPulse.period
          BY <2>1, <3>1, TimeOfAppend DEF QueuedTime, IInv, TypeOK, PipelineTypeOK
      <4> QED
          BY <2>1, <4>1, <4>2
    <3>2. CASE genPc' = "kick" /\ UNCHANGED ring
      <4>1. bufferLength' = bufferLength /\ TaskOwes = 0 /\ TaskOwes' = 0
          BY <2>3, <3>2 DEF WritePulse, TaskOwes
      <4> QED
          BY <2>1, <3>2, <4>1 DEF QueuedTime
    <3> QED
        BY <2>3, <3>1, <3>2 DEF WritePulse
  <2>4. CASE AccountPulse
    <3>1. /\ UNCHANGED ring /\ bufferLength' = bufferLength + nextPulse.period
          /\ TaskOwes = nextPulse.period /\ TaskOwes' = 0
        BY <2>4 DEF AccountPulse, TaskOwes
    <3> QED
        BY <2>1, <3>1 DEF QueuedTime
  <2>5. CASE KickStart
    <3>1. /\ ring # <<>> /\ ring' = Tail(ring)
          /\ bufferLength' = bufferLength - Head(ring).period
          /\ TaskOwes' = TaskOwes
        BY <2>5 DEF KickStart, TaskOwes
    <3>2. /\ 1 \in 1 .. Len(ring) /\ Head(ring) = ring[1]
          /\ Tail(ring) = SubSeq(ring, 1 + 1, Len(ring))
        BY <2>1, <3>1
    <3>3. \A j \in 1 .. 1 - 1 : ring[j].period = 0
        OBVIOUS
    <3> QED
        BY <1>1, <3>1, <3>2, <3>3, TakenOff
  <2> QED
      BY <2>2, <2>3, <2>4, <2>5 DEF Generate
<1> QED
    BY <1>1, <1>3, <1>4, BothAlike DEF BeliefInv

\* A kill: its flush leaves more believed than there is, its zero ends that, or finds
\* pulses whose time it takes away.
LEMMA KillBelief == ASSUME NEW k \in Killers, IInv, IInv', BeliefInv, Kill(k) PROVE BeliefInv'
<1>1. /\ genPc = "delay" /\ UNCHANGED <<genPc, nextPulse, loaded>>
      /\ \E from, to \in {"idle"} \cup KillPcs :
           callPc[k] = from /\ callPc' = [callPc EXCEPT ![k] = to]
    BY DEF Kill, BeginKill, StopTimer, MaskIrq, Flush, ZeroLength, UnmaskIrq, CallStep,
           LowPriorityRuns, genVars, KillPcs
<1>2. callPc \in [Callers -> {"idle"} \cup KillPcs \cup ShotPcs] /\ k \in Callers
    BY DEF IInv, TypeOK, TaskTypeOK, Callers
<1>3. CutToMaxNote' /\ TaskOwes' = TaskOwes
    BY <1>1 DEF CutToMaxNote, TaskOwes
<1>4. Unsummed' = Unsummed
    BY <1>1, <1>2 DEF Unsummed, KillPcs, Callers
<1>5. /\ BelievedTime = bufferLength + TaskOwes + ShootersOwe
      /\ BelievedTime' = bufferLength' + TaskOwes + ShootersOwe
      /\ bufferLength \in Int /\ TaskOwes \in Int /\ ShootersOwe \in Int
      /\ QueuedTime \in Nat
  <2>1. BelievedTime' = bufferLength' + TaskOwes' + LowWater * Cardinality(Unsummed')
      BY DEF BelievedTime, TaskOwes
  <2> QED
      BY <1>3, <1>4, <2>1, BeliefTypes DEF BeliefInv, ShootersOwe
<1>6. CASE BeginKill(k) \/ StopTimer(k) \/ MaskIrq(k) \/ UnmaskIrq(k)
  <2>1. UNCHANGED <<ring, bufferLength, spoilt>> /\ callPc[k] # "zero"
      BY <1>6 DEF BeginKill, StopTimer, MaskIrq, UnmaskIrq, CallStep
  <2>2. \A c \in Killers : callPc[c] = "zero" => callPc'[c] = "zero"
      BY <1>1, <1>2, <2>1 DEF Callers
  <2>3. BelievedTime' - QueuedTime' = BelievedTime - QueuedTime
      BY <1>5, <2>1 DEF QueuedTime
  <2> QED
      BY <1>3, <2>1, <2>2, <2>3, BothAlike DEF BeliefInv
<1>7. CASE Flush(k)
  <2>1. UNCHANGED <<bufferLength, spoilt>> /\ ring' = <<>> /\ callPc'[k] = "zero"
      BY <1>2, <1>7 DEF Flush, CallStep
  <2>2. QueuedTime' = 0
      BY <2>1, TimeOfEmpty DEF QueuedTime
  <2>3. BelievedTime' = BelievedTime /\ BelievedTime \in Int
      BY <1>5, <2>1
  <2>4. ~spoilt => 0 <= BelievedTime' - QueuedTime'
      BY <1>5, <2>2, <2>3 DEF BeliefInv, BeliefNearTruth
  <2> QED
      BY <1>3, <2>1, <2>4 DEF BeliefInv, BeliefNearTruth
<1>8. CASE ZeroLength(k)
  <2>1. spoilt' = (ring # <<>>) /\ ring' = ring /\ bufferLength' = 0
      BY <1>8 DEF ZeroLength
  <2>2. CASE spoilt'
      BY <1>3, <2>2 DEF BeliefInv, BeliefNearTruth
  <2>3. CASE ~spoilt'
      BY <1>3, <2>1, <2>3, NothingButOwedNext DEF BeliefInv
  <2> QED
      BY <2>2, <2>3
<1> QED
    BY <1>6, <1>7, <1>8 DEF Kill

\* CMD_oneshot: its pulse is believed from the moment it is written, and its sum is
\* right if it has read the length as it still is.
LEMMA ShootBelief == ASSUME NEW s \in Shooters, IInv, IInv', BeliefInv, Shoot(s) PROVE BeliefInv'
<1>1. /\ UNCHANGED <<genPc, nextPulse>> /\ (spoilt => spoilt')
      /\ \E from, to \in {"idle"} \cup ShotPcs :
           callPc[s] = from /\ callPc' = [callPc EXCEPT ![s] = to]
  <2>1. CASE WriteShot(s)
      BY <2>1 DEF WriteShot, CallStep, genVars, ShotPcs
  <2>2. CASE HideIrq(s)
      BY <2>2 DEF HideIrq, CallStep, genVars, ShotPcs
  <2>3. CASE LoadLength(s)
      BY <2>3 DEF LoadLength, CallStep, genVars, ShotPcs
  <2>4. CASE StoreLength(s)
      BY <2>4 DEF StoreLength, CallStep, genVars, ShotPcs
  <2>5. CASE ShowIrq(s)
      BY <2>5 DEF ShowIrq, CallStep, genVars, ShotPcs
  <2> QED
      BY <2>1, <2>2, <2>3, <2>4, <2>5 DEF Shoot
<1>2. callPc \in [Callers -> {"idle"} \cup KillPcs \cup ShotPcs] /\ s \in Callers
    BY DEF IInv, TypeOK, TaskTypeOK, Callers
<1>3. CutToMaxNote' /\ TaskOwes' = TaskOwes
    BY <1>1 DEF BeliefInv, CutToMaxNote, TaskOwes
<1>4. \A c \in Killers : callPc[c] = "zero" => callPc'[c] = "zero"
    BY <1>1, <1>2 DEF Callers, ShotPcs
<1>5. /\ BelievedTime = bufferLength + TaskOwes + LowWater * Cardinality(Unsummed)
      /\ BelievedTime' = bufferLength' + TaskOwes + LowWater * Cardinality(Unsummed')
      /\ bufferLength \in Int /\ TaskOwes \in Int /\ LowWater \in Nat
      /\ QueuedTime \in Nat /\ ring \in Seq(Pulse)
  <2>1. BelievedTime' = bufferLength' + TaskOwes' + LowWater * Cardinality(Unsummed')
      BY DEF BelievedTime, TaskOwes
  <2> QED
      BY <1>3, <2>1, BeliefTypes DEF BeliefInv, ShootersOwe
<1>6. IsFiniteSet(Unsummed) /\ Cardinality(Unsummed) \in Nat
    BY FS_Subset, FS_CardinalityType, PulseBufferAssumption DEF Unsummed
<1>7. \A l, n \in Nat : l * (n + 1) = l * n + l
    BY SMT
<1>8. CASE WriteShot(s)
  <2>1. /\ ring' = Append(ring, SingleShot) /\ UNCHANGED bufferLength
        /\ callPc[s] = "idle" /\ callPc' = [callPc EXCEPT ![s] = "hide"]
      BY <1>8 DEF WriteShot, CallStep
  <2>2. Unsummed' = Unsummed \cup {s} /\ s \notin Unsummed
      BY <1>2, <2>1 DEF Unsummed, Callers
  <2>3. Cardinality(Unsummed') = Cardinality(Unsummed) + 1
      BY <1>6, <2>2, FS_AddElement
  <2>4. BelievedTime' = BelievedTime + LowWater /\ BelievedTime \in Int
    <3> DEFINE n == Cardinality(Unsummed)
    <3>1. LowWater * (n + 1) = LowWater * n + LowWater /\ LowWater * n \in Nat
        BY <1>5, <1>6, <1>7
    <3> QED
        BY <1>5, <2>1, <2>3, <3>1
  <2>5. QueuedTime' = QueuedTime + LowWater
    <3>1. SingleShot \in Pulse /\ SingleShot.period = LowWater
        BY <1>5 DEF SingleShot, Pulse
    <3> QED
        BY <1>5, <2>1, <3>1, TimeOfAppend DEF QueuedTime
  <2>6. BelievedTime' - QueuedTime' = BelievedTime - QueuedTime
      BY <1>5, <2>4, <2>5
  <2> QED
      BY <1>1, <1>3, <1>4, <2>6, BothAlike DEF BeliefInv
<1>9. CASE StoreLength(s)
  <2>1. /\ UNCHANGED ring /\ bufferLength' = loaded[s] + LowWater
        /\ spoilt' = (spoilt \/ loaded[s] # bufferLength)
        /\ callPc[s] = "store" /\ callPc' = [callPc EXCEPT ![s] = "show"]
      BY <1>9 DEF StoreLength, CallStep, SingleShot
  <2>2. CASE spoilt'
      BY <1>3, <2>2 DEF BeliefInv, BeliefNearTruth
  <2>3. CASE ~spoilt'
    <3>1. bufferLength' = bufferLength + LowWater
        BY <2>1, <2>3
    <3>2. Unsummed' = Unsummed \ {s} /\ s \in Unsummed
        BY <1>2, <2>1 DEF Unsummed, Callers
    <3>3. Cardinality(Unsummed') = Cardinality(Unsummed) - 1 /\ Cardinality(Unsummed') \in Nat
      <4>1. IsFiniteSet(Unsummed')
          BY <1>6, <3>2, FS_RemoveElement
      <4> QED
          BY <1>6, <3>2, <4>1, FS_RemoveElement, FS_CardinalityType
    <3>4. BelievedTime' = BelievedTime
      <4> DEFINE n == Cardinality(Unsummed')
      <4>1. LowWater * (n + 1) = LowWater * n + LowWater /\ LowWater * n \in Nat
          BY <1>5, <1>7, <3>3
      <4>2. Cardinality(Unsummed) = n + 1
          BY <1>6, <3>3
      <4> QED
          BY <1>5, <3>1, <4>1, <4>2
    <3>5. BelievedTime' - QueuedTime' = BelievedTime - QueuedTime
        BY <2>1, <3>4 DEF QueuedTime
    <3> QED
        BY <1>1, <1>3, <1>4, <3>5, BothAlike DEF BeliefInv
  <2> QED
      BY <2>2, <2>3
<1>10. CASE HideIrq(s) \/ LoadLength(s) \/ ShowIrq(s)
  <2>1. /\ UNCHANGED <<ring, bufferLength>>
        /\ \E from, to \in {"hide", "load", "store", "show", "idle"} :
             /\ callPc[s] = from /\ callPc' = [callPc EXCEPT ![s] = to]
             /\ from \in {"hide", "load", "store"} <=> to \in {"hide", "load", "store"}
      BY <1>10 DEF HideIrq, LoadLength, ShowIrq, CallStep
  <2>2. Unsummed' = Unsummed
      BY <1>2, <2>1 DEF Unsummed, Callers
  <2>3. BelievedTime' - QueuedTime' = BelievedTime - QueuedTime
      BY <1>5, <2>1, <2>2 DEF QueuedTime
  <2> QED
      BY <1>1, <1>3, <1>4, <2>3, BothAlike DEF BeliefInv
<1> QED
    BY <1>8, <1>9, <1>10 DEF Shoot

\* Steps that touch neither a pulse nor a length.
LEMMA OtherBelief ==
    ASSUME BeliefInv, TimerExpires \/ NoteOn \/ NoteOff \/ Unmute \/ UNCHANGED vars
    PROVE  BeliefInv'
<1>1. UNCHANGED <<ring, bufferLength, genPc, nextPulse, callPc, spoilt>>
    BY DEF TimerExpires, NoteOn, NoteOff, Unmute, vars, genVars, callVars
<1>2. CutToMaxNote'
    BY <1>1 DEF BeliefInv, CutToMaxNote
<1>3. BelievedTime' = BelievedTime /\ QueuedTime' = QueuedTime
    BY <1>1 DEF BelievedTime, QueuedTime, Unsummed
<1> QED
    BY <1>1, <1>2, <1>3, BothAlike DEF BeliefInv

\* BeliefNearTruth: but for a sum or a pulse that CMD_oneshot has lost to the ISR, to
\* SigGen_task or to a kill since the ring last ran dry, the length SigGen_task refills
\* by never falls short of the time of the pulses in the ring, and exceeds it by at most
\* a pulse of every writer, kills between flush and zero aside.
THEOREM BeliefStaysNearTruth == Spec => []BeliefNearTruth
<1>1. IInv /\ IInv' /\ BeliefInv /\ [Next]_vars => BeliefInv'
    BY IsrBelief, GenerateBelief, KillBelief, ShootBelief, OtherBelief DEF Next
<1>2. BeliefInv => BeliefNearTruth
    BY DEF BeliefInv
<1> QED
    BY <1>1, <1>2, InitBelief, Invariance, PTL DEF Spec
=============================================================================
