---------------------------- MODULE SidEnvelope ----------------------------
(***************************************************************************)
(* The envelope of a SID channel (SidProcessor.c), in the arithmetic of    *)
(* the code: the registers of the latest frame shape the volume, one step  *)
(* a millisecond.                                                          *)
(***************************************************************************)
EXTENDS Integers, Sequences

CONSTANTS
    Shapes,      \* what frames set: [attack, decay, nibble, release]
    MaxFrames    \* bound on the frames

ASSUME EnvelopeAssumption == MaxFrames \in Nat

FullVolume == 32767   \* MAX_VOL

ADSR_speedLut_A  == <<65535, 16384, 8192, 5459, 3449, 2341, 1928, 1638, 1311, 524, 262, 164, 131,
                      44, 26, 16>>
ADSR_speedLut_DR == <<39779, 57846, 61571, 62865, 63836, 64378, 64581, 64723, 64885, 65275, 65405,
                      65454, 65471, 65514, 65523, 65528>>

VARIABLES
    shape,       \* attack, decay and release; nibble is sustain as the frame has it
    gate,        \* SID_FRAME_FLAG_GATE
    envelope,    \* adsrState, currentEnvelopeVolume, Factor and StartValue
    framesLeft   \* frames that may still come

envVars == <<shape, gate, envelope, framesLeft>>

EnvelopeInit ==
    /\ shape \in Shapes /\ gate = FALSE /\ framesLeft = MaxFrames
    /\ envelope = [state |-> "IDLE", volume |-> 0, factor |-> 0, start |-> 0]

\* The frame's sustain is a nibble shifted by one, scaled by 2184 into 16 bits.
SustainVolume(c) == (c.nibble * 8 * 2184) % 65536

\* x * f / 2^15 as 32 bits compute it.
Scaled(x, f) == ((x \div 32768) * f + ((x % 32768) * f) \div 32768) % 131072

Faded(factor, index) == (factor * ADSR_speedLut_DR[index + 1]) \div 65536

Leaves(e, state) == [e EXCEPT !.state = state, !.start = e.volume, !.factor = FullVolume]

Attack(c, e) ==
    LET risen == e.volume + ADSR_speedLut_A[c.attack + 1] IN
    IF c.decay > 0
    THEN IF risen >= FullVolume
         THEN [e EXCEPT !.state = "DECAY", !.volume = FullVolume, !.factor = FullVolume]
         ELSE [e EXCEPT !.volume = risen]
    ELSE IF risen >= SustainVolume(c)
         THEN [e EXCEPT !.state = "SUSTAIN", !.volume = SustainVolume(c), !.factor = FullVolume]
         ELSE [e EXCEPT !.volume = risen]

\* A sustain volume above MAX_VOL makes the difference wrap.
Decay(c, e) ==
    LET f == Faded(e.factor, c.decay)
        s == SustainVolume(c)
    IN  IF f <= 3500 THEN [e EXCEPT !.state = "SUSTAIN", !.factor = f, !.volume = s]
        ELSE [e EXCEPT !.factor = f,
                       !.volume = s + Scaled(FullVolume - s, f)]

\* Faulty variant: the factor stops at the threshold that would end the release.
ReleaseStays(c, e) ==
    LET f == Faded(e.factor, c.release)
    IN  [e EXCEPT !.factor = IF f <= 3500 THEN 3500 ELSE f, !.volume = Scaled(e.start, f)]

Release(c, e) ==
    LET f == Faded(e.factor, c.release)
    IN  IF f <= 3500 THEN [e EXCEPT !.state = "IDLE", !.factor = f, !.volume = 0]
        ELSE [e EXCEPT !.factor = f, !.volume = Scaled(e.start, f)]

RunADSR(c, open, e) ==
    CASE e.state = "IDLE"                -> [e EXCEPT !.state = IF open THEN "ATTACK" ELSE @, !.volume = 0]
      [] e.state = "RELEASE" /\ open   -> Leaves(e, "ATTACK")
      [] e.state = "RELEASE" /\ ~open  -> Release(c, e)
      [] e.state \in {"ATTACK", "DECAY", "SUSTAIN"} /\ ~open -> Leaves(e, "RELEASE")
      [] e.state = "ATTACK" /\ open    -> Attack(c, e)
      [] e.state = "DECAY" /\ open     -> Decay(c, e)
      [] OTHER                           -> e

-----------------------------------------------------------------------------

StepEnvelope == envelope' = RunADSR(shape, gate, envelope) /\ UNCHANGED <<shape, gate, framesLeft>>

\* A frame, or the reset that closes the gate.
SetRegisters ==
    /\ framesLeft > 0 /\ framesLeft' = framesLeft - 1
    /\ shape' \in Shapes /\ gate' \in BOOLEAN
    /\ UNCHANGED envelope

EnvelopeNext == StepEnvelope \/ SetRegisters

EnvelopeSpec == EnvelopeInit /\ [][EnvelopeNext]_envVars /\ WF_envVars(StepEnvelope)

-----------------------------------------------------------------------------
(* Properties *)

ReleaseFalls ==
    envelope.state = "RELEASE" /\ envelope.start <= FullVolume
      /\ envelope'.state \in {"RELEASE", "IDLE"} => envelope'.volume <= envelope.volume

\* The envelope of a channel whose gate is closed comes to rest, from wherever it was;
\* the envelope of one whose gate stays open reaches sustain, with each rate, and also
\* when a frame changes the rates on the way; and a release that begins within MAX_VOL
\* only gets quieter, although it fades from a stored value with a factor that is set
\* anew (SidProcessor.c:76).
EnvelopeFollowsGate ==
    /\ ~gate ~> (envelope.state = "IDLE" \/ gate)
    /\ gate ~> (~gate \/ envelope.state = "SUSTAIN")
    /\ [][ReleaseFalls]_envVars
=============================================================================
