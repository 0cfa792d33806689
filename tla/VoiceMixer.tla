----------------------------- MODULE VoiceMixer -----------------------------
(***************************************************************************)
(* How SigGen_task of src/common/ud3core/SignalGenerator.c merges the      *)
(* voices into one train of pulses.                                        *)
(*                                                                         *)
(* Each voice counts down the time to its next pulse.  A turn of the loop  *)
(* finds the earliest pulse, advances every voice by the distance to it    *)
(* (Advance), and then looks for voices whose next pulse falls into the    *)
(* pulse or into the holdoff time after it: those are merged into this     *)
(* pulse (HoldoffStep, one voice of the list per step).  A hypervoice adds *)
(* a second pulse, a fixed offset after every count-th pulse of its voice. *)
(*                                                                         *)
(* The note functions run in tasks of lower priority: they are preempted   *)
(* anywhere, and act only while SigGen_task is in vTaskDelay.  SigGen_limit*)
(* ends each of them; it publishes one voice after the other, so it is one *)
(* action per voice here, for any on-time scale the duty limit may find.   *)
(* How long the ring is filled is left open: PulseBuffer models it.  TR    *)
(* mode, where only voice 0 is looked at, is this module with N = 1.       *)
(* Volumes and bursts, which change no counter, are left out.              *)
(***************************************************************************)
EXTENDS Integers

CONSTANTS
    N,          \* SIGGEN_VOICECOUNT
    Tones,      \* Tones[v]: [period, noise, width] a task may give voice v
    Hypers,     \* Hypers[v]: [count, phase] a task may give its hypervoice
    Scales,     \* on-time factors of SigGen_limit, in units of 1 / MaxVol
    MaxVol,     \* MAX_VOL
    Offtime,    \* param.offtime
    MaxNoise,   \* bounds what the mask leaves of a random number
    Horizons,   \* values of maxPeriod_us, the longest delay that is queued
    Never       \* INT_MAX: more pulses, or more time, than ever elapse

Voice == 0 .. N - 1

ASSUME VoiceMixerAssumption ==
    /\ N \in Nat \ {0}
    /\ \A v \in Voice : Tones[v] \subseteq
           [period : Nat \ {0}, noise : Nat, width : Nat]
    /\ \A v \in Voice : Hypers[v] \subseteq [count : Nat, phase : 0 .. 1024]
    /\ MaxVol \in Nat \ {0} /\ Scales \subseteq 0 .. MaxVol
    /\ Offtime \in Nat /\ MaxNoise \in Nat
    /\ Horizons \subseteq Nat \ {0}
    /\ Never \in Nat \ {0}

VARIABLES
    raw,         \* what the note functions asked of each voice
    out,         \* its limited* fields: what SigGen_limit has published
    counter,     \* time to the next pulse of the voice
    divider,     \* currHPVDivider: its pulses until one has a hypervoice pulse
    hpvCounter,  \* currHPVCounter: time to that pulse, once the divider is 0
    pc,          \* where SigGen_task is
    scan,        \* currVoice of the loop over the holdoff time
    pulse,       \* nextPulse: how far ahead it is and how long it lasts
    triggered    \* the voices with alreadyTriggered set

vars == <<raw, out, counter, divider, hpvCounter, pc, scan, pulse, triggered>>
noteVars == <<raw, out, counter, divider>>
taskVars == <<pc, scan, pulse, triggered>>

\* The settings of a voice and what the task sees of them.
Raw == [on : BOOLEAN, period : Nat, width : Nat, noise : Nat,
        hpv : Nat, hpvWidth : Nat, phase : Nat, offset : Nat]
Out == [on : BOOLEAN, period : Nat, width : Nat, hpv : Nat, hpvWidth : Nat]

\* The type invariant.  That no counter is negative is the configASSERT at the
\* end of the advance.
TypeOK ==
    /\ raw \in [Voice -> Raw] /\ out \in [Voice -> Out]
    /\ counter \in [Voice -> Nat]
    /\ divider \in [Voice -> Nat] /\ hpvCounter \in [Voice -> Nat]
    /\ pc \in {"sleep", "fill", "scan"} /\ scan \in 0 .. N
    /\ pulse \in [period : Nat, onTime : Nat]
    /\ triggered \subseteq Voice

\* SigGen_init clears the structure, the hypervoice dividers included.
Init ==
    /\ raw = [v \in Voice |-> [on |-> FALSE, period |-> 0, width |-> 0,
                               noise |-> 0, hpv |-> 0, hpvWidth |-> 0,
                               phase |-> 0, offset |-> 0]]
    /\ out = [v \in Voice |-> [on |-> FALSE, period |-> 0, width |-> 0,
                               hpv |-> 0, hpvWidth |-> 0]]
    /\ counter = [v \in Voice |-> 0]
    /\ divider = [v \in Voice |-> 0]
    /\ hpvCounter = [v \in Voice |-> 0]
    /\ pc = "sleep" /\ scan = 0
    /\ pulse = [period |-> 0, onTime |-> 0]
    /\ triggered = {}

Larger(a, b)  == IF a < b THEN b ELSE a
Smaller(a, b) == IF a < b THEN a ELSE b

-----------------------------------------------------------------------------
(* The note functions *)

\* The hypervoice settings of r once count and phase are given: none with
\* noise, and its pulse follows the main one by phase / 1024 of the period.
WithHyper(r, count, phase, width) ==
    IF count = 0 \/ r.noise # 0
    THEN [r EXCEPT !.hpv = 0, !.hpvWidth = 0, !.phase = 0]
    ELSE [r EXCEPT !.hpv = count, !.hpvWidth = width, !.phase = phase,
                   !.offset = (phase * r.period) \div 1024]

\* What SigGen_setHyperVoiceParams leaves of the divider and of the limited
\* fields: switched off at once, but switched on only by the next SigGen_limit.
HyperDivider(r, d) == IF r.hpv = 0 THEN Never ELSE Smaller(d, r.hpv)
HyperOut(r, o) ==
    IF r.hpv = 0 THEN [o EXCEPT !.hpv = 0, !.hpvWidth = 0] ELSE o

\* SigGen_setHyperVoiceParams.
SetHyper(v) ==
    /\ pc = "sleep"
    /\ \E h \in Hypers[v], w \in {t.width : t \in Tones[v]} :
        LET r == WithHyper(raw[v], h.count, h.phase, w) IN
        /\ raw' = [raw EXCEPT ![v] = r]
        /\ out' = [out EXCEPT ![v] = HyperOut(r, @)]
        /\ divider' = [divider EXCEPT ![v] = HyperDivider(r, @)]
    /\ UNCHANGED <<counter, hpvCounter, taskVars>>

\* The settings after SigGen_setVoiceParams with the tone t.
Retuned(v, t) ==
    [raw[v] EXCEPT !.on = TRUE, !.period = t.period, !.width = t.width,
                   !.noise = Smaller(t.noise, t.period \div 2)]

\* A voice that was off starts at once, one that was on keeps its time.
StartCounter(v) == IF raw[v].on THEN counter ELSE [counter EXCEPT ![v] = 0]

\* SigGen_setVoiceParams with a note to play; a hypervoice is set up again.
SetVoice(v) ==
    /\ pc = "sleep"
    /\ \E t \in Tones[v] :
        LET tuned == Retuned(v, t)
            r == WithHyper(tuned, tuned.hpv, tuned.phase, tuned.hpvWidth)
        IN IF tuned.hpv = 0
           THEN /\ raw' = [raw EXCEPT ![v] = tuned]
                /\ UNCHANGED <<out, divider>>
           ELSE /\ raw' = [raw EXCEPT ![v] = r]
                /\ out' = [out EXCEPT ![v] = HyperOut(r, @)]
                /\ divider' = [divider EXCEPT ![v] = HyperDivider(r, @)]
    /\ counter' = StartCounter(v)
    /\ UNCHANGED <<hpvCounter, taskVars>>

\* SigGen_setVoiceParams with nothing to play, or with the output muted.
VoiceOff(v) ==
    /\ pc = "sleep"
    /\ raw' = [raw EXCEPT ![v].on = FALSE]
    /\ out' = [out EXCEPT ![v].on = FALSE]
    /\ counter' \in {counter, StartCounter(v)}
    /\ UNCHANGED <<divider, hpvCounter, taskVars>>

\* One voice of the loop in SigGen_limit.
LimitVoice(v) ==
    /\ pc = "sleep"
    /\ IF ~raw[v].on
       THEN /\ out' = [out EXCEPT ![v].on = FALSE]
            /\ UNCHANGED counter
       ELSE /\ \E s \in Scales :
                 out' = [out EXCEPT ![v] =
                     [on       |-> TRUE,
                      period   |-> raw[v].period,
                      width    |-> (raw[v].width * s) \div MaxVol,
                      hpv      |-> IF raw[v].hpv # 0 /\ raw[v].noise = 0
                                   THEN raw[v].hpv ELSE @.hpv,
                      hpvWidth |-> IF raw[v].hpv # 0 /\ raw[v].noise = 0
                                   THEN (raw[v].hpvWidth * s) \div MaxVol
                                   ELSE 0]]
            /\ counter' = [counter EXCEPT ![v] = Smaller(@, raw[v].period)]
    /\ UNCHANGED <<raw, divider, hpvCounter, taskVars>>

\* The part of SigGen_killAudio that is about the voices.
KillAudio ==
    /\ pc = "sleep"
    /\ raw' = [v \in Voice |-> [raw[v] EXCEPT !.on = FALSE, !.hpv = 0]]
    /\ out' = [v \in Voice |-> [out[v] EXCEPT !.on = FALSE, !.hpv = 0]]
    /\ UNCHANGED <<counter, divider, hpvCounter, taskVars>>

-----------------------------------------------------------------------------
(* SigGen_task *)

\* A voice that has a pulse to give, and the time to its next one.
Audible(v) == out[v].on /\ out[v].width # 0
Due(v) == IF divider[v] = 0 THEN Smaller(hpvCounter[v], counter[v])
          ELSE counter[v]
DueTimes == {Due(v) : v \in {u \in Voice : Audible(u)}}

HyperOn(v) == out[v].hpv # 0 /\ raw[v].noise = 0

\* The divider after a hypervoice pulse.
Recount(v) == IF HyperOn(v) THEN out[v].hpv ELSE Never

\* INT_MAX pulses are never counted down.
Less(d) == IF d \in {0, Never} THEN d ELSE d - 1

\* c moved by noise: x is what the random number and the mask leave.
NoiseLimit(v) == Smaller(raw[v].noise, out[v].period)
Noisy(v, c, x) ==
    LET r == Smaller(x, NoiseLimit(v)) - NoiseLimit(v) \div 2
    IN IF -c < r /\ r < c THEN c + r ELSE c

\* Faulty variant: the period is assumed to be longer than the delay.
RefillBlindly(v, c) == c + out[v].period

\* The counter after a pulse: the next one is a period after the last, however
\* late that was noticed; zero if even that is over.
Refill(v, c) == IF out[v].period < -c THEN 0 ELSE c + out[v].period

\* The loop goes on until the ring holds a millisecond, or no more pulses.
Wake == /\ pc = "sleep" /\ pc' = "fill"
        /\ UNCHANGED <<noteVars, counter, hpvCounter, scan, pulse, triggered>>

NoVoice == /\ pc = "fill" /\ \A v \in Voice : ~Audible(v)
           /\ pc' = "sleep"
           /\ UNCHANGED <<noteVars, counter, hpvCounter, scan, pulse, triggered>>

\* Faulty variant: the first voice found decides, not the earliest.
FirstFound(d) ==
    \E v \in Voice : /\ Audible(v) /\ d <= Due(v)
                     /\ \A u \in 0 .. v - 1 : ~Audible(u)

\* No voice has a pulse before d.
Earliest(d) == \A v \in Voice : Audible(v) => d <= Due(v)

\* The voices whose timer has expired once d has gone by, and what that makes of
\* the divider and of the time to the hypervoice pulse.
Fires(d) == {v \in Voice : out[v].on /\ counter[v] <= d}

DividerAfter(v, d) ==
    IF v \in Fires(d) /\ HyperOn(v) THEN Less(divider[v]) ELSE divider[v]

HyperAfter(v, d) ==
    IF v \in Fires(d) /\ HyperOn(v) /\ DividerAfter(v, d) = 0
    THEN raw[v].offset
    ELSE IF out[v].on /\ divider[v] = 0 THEN hpvCounter[v] - d
                                        ELSE hpvCounter[v]

\* The voices that give their hypervoice pulse then.
Echoes(d) ==
    {v \in Voice : /\ out[v].on
                   /\ DividerAfter(v, d) = 0 /\ HyperAfter(v, d) <= 0}

\* Every enabled voice is taken d ahead, with the random numbers x; the pulses
\* that are due are laid over each other: the longest on-time wins.
AdvanceBy(d, x) ==
    LET widths == {out[v].width : v \in Fires(d)}
                      \cup {out[v].hpvWidth : v \in Echoes(d)}
    IN /\ counter' = [v \in Voice |->
              IF v \in Fires(d) THEN Noisy(v, Refill(v, counter[v] - d), x[v])
              ELSE IF out[v].on THEN counter[v] - d ELSE counter[v]]
       /\ divider' = [v \in Voice |->
              IF v \in Echoes(d) THEN Recount(v) ELSE DividerAfter(v, d)]
       /\ hpvCounter' = [v \in Voice |->
              IF v \in Echoes(d) THEN Never ELSE HyperAfter(v, d)]
       /\ triggered' = Fires(d) \cup Echoes(d)
       /\ \E w \in widths \cup {0} :
              /\ \A u \in widths : u <= w
              /\ pulse' = [period |-> d, onTime |-> w]

Advance ==
    /\ pc = "fill" /\ \E v \in Voice : Audible(v)
    /\ \E h \in Horizons, x \in [Voice -> 0 .. MaxNoise] :
       \E d \in {h} \cup DueTimes :
           Earliest(d) /\ d <= h /\ AdvanceBy(d, x)
    /\ pc' = "scan" /\ scan' = 0
    /\ UNCHANGED <<raw, out>>

\* "go back to the start of the list": currVoice = 0, which the loop then
\* increments.
NextVoice(v, merged) == IF merged THEN 1 ELSE v + 1

\* Faulty variant: the voice starts a new period at the pulse it is merged into.
PulledForwardRestarts(v) == out[v].period

\* A voice whose pulse is merged gives its next one a period after it was due.
PulledForward(v) == counter[v] + out[v].period

\* Faulty variant: the time the bridge needs between pulses is forgotten.
HoldWithoutOfftime == pulse.onTime

\* No other pulse may start this soon after the pulse does.
Hold == pulse.onTime + Offtime

\* Faulty variant: a voice that is moved on is not sounded.
NeverMerges(v) == FALSE

\* It sounds with this pulse unless it already does.
Merges(v) == v \notin triggered

\* Voice v is held against the pulse.  If its own pulse is merged, the hypervoice
\* that is looked at next is that of voice 0, be it enabled or not.
HoldAgainst(v, x) ==
    LET near   == counter[v] < Hold
        fresh  == near /\ Merges(v)
        main   == IF fresh THEN {v} ELSE {}
        h      == IF fresh THEN 0 ELSE v
        echo   == divider[h] = 0 /\ hpvCounter[h] <= Hold
        second == echo /\ h \notin triggered \cup main
        width  == IF fresh THEN Larger(pulse.onTime, out[v].width)
                  ELSE pulse.onTime
    IN /\ counter' = [counter EXCEPT ![v] =
              IF near THEN Noisy(v, PulledForward(v), x) ELSE @]
       /\ hpvCounter' = [hpvCounter EXCEPT ![h] = IF echo THEN Never ELSE @]
       /\ divider' = [divider EXCEPT ![h] = IF echo THEN Recount(h) ELSE @]
       /\ triggered' = triggered \cup main \cup IF second THEN {h} ELSE {}
       /\ pulse' = [pulse EXCEPT !.onTime =
              IF second THEN Larger(width, out[h].hpvWidth) ELSE width]
       /\ scan' = NextVoice(v, fresh \/ second)

HoldoffStep ==
    /\ pc = "scan" /\ scan < N
    /\ \/ /\ ~out[scan].on /\ scan' = scan + 1
          /\ UNCHANGED <<counter, divider, hpvCounter, pulse, triggered>>
       \/ /\ out[scan].on
          /\ \E x \in 0 .. MaxNoise : HoldAgainst(scan, x)
    /\ UNCHANGED <<raw, out, pc>>

\* The pulse goes into the ring.
QueuePulse ==
    /\ pc = "scan" /\ scan = N
    /\ pc' \in {"fill", "sleep"}
    /\ scan' = 0 /\ triggered' = {} /\ pulse' = [period |-> 0, onTime |-> 0]
    /\ UNCHANGED <<noteVars, counter, hpvCounter>>

-----------------------------------------------------------------------------
Task == Wake \/ NoVoice \/ Advance \/ HoldoffStep \/ QueuePulse

Notes == \/ KillAudio
         \/ \E v \in Voice : SetVoice(v) \/ SetHyper(v) \/ VoiceOff(v)
                             \/ LimitVoice(v)

Next == Task \/ Notes

Spec == Init /\ [][Next]_vars

\* vTaskDelay(1) ends and no task of lower priority can hold up the rest.
LiveSpec == Spec /\ WF_vars(Task)

-----------------------------------------------------------------------------
(* Properties *)

\* A voice that is heard keeps its pitch: nothing moves its next pulse except by
\* whole periods, and no pulse of another voice, no holdoff, no limit on the
\* delay and no hypervoice is passed over before its time.
InTune ==
    [][pc # "sleep" => \A v \in Voice :
        Audible(v) /\ raw[v].noise = 0 =>
            LET gone == IF pc = "fill" THEN pulse'.period ELSE 0
            IN /\ counter'[v] - counter[v] + (IF pc' = "scan" THEN gone ELSE 0)
                      \in {0, out[v].period}
               /\ pc = "fill" /\ pc' = "scan" => gone <= counter[v]]_vars

\* When the pulse is queued no voice but voice 0 is left with a pulse inside the
\* pulse or its holdoff time that was not merged, and none with a hypervoice
\* pulse there, though each merge may lengthen the pulse.
Clears(v) ==
    out[v].on =>
        /\ counter[v] < pulse.onTime + Offtime => v \in triggered
        /\ ~(divider[v] = 0 /\ hpvCounter[v] <= pulse.onTime + Offtime)

HoldoffBeyondFirst ==
    pc = "scan" /\ scan = N => \A v \in Voice \ {0} : Clears(v)

\* SigGen_task's "check if any other timers would trigger within the ontime and
\* or the holdoff time", for every voice.
HoldoffComplete ==
    pc = "scan" /\ scan = N => \A v \in Voice : Clears(v)

\* While the voices that are heard stay the same, each of them is heard again
\* and again: being merged, delayed and scanned over starves none.
EveryNoteSounds ==
    \A S \in SUBSET Voice : \A v \in S :
        <>[]({u \in Voice : Audible(u)} = S) => []<>(v \in triggered)
=============================================================================
