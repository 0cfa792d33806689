-------------------------------- MODULE Sid --------------------------------
(***************************************************************************)
(* The SID synthesizer: the SID task (tsk_sid.c) takes frames of registers *)
(* off qSID when they are due, gives them to one channel (SidProcessor.c,  *)
(* SidFilter.c) and steps the channel's envelope every millisecond; when   *)
(* no frame comes it switches the channel off.  Tasks of higher priority   *)
(* flush the channel and switch the synthesizer mode underneath it.        *)
(***************************************************************************)
EXTENDS Integers, Sequences

CONSTANTS
    Delays,      \* milliseconds until a frame is over, below Far
    Timeout,     \* 100 ms in the code
    MaxWaiting   \* bound on the frames in qSID

ASSUME SidAssumption ==
    /\ Timeout \in Nat \ {0} /\ MaxWaiting \in Nat \ {0} /\ Delays \subseteq Nat

VARIABLES
    inSidMode,   \* param.synth is SID
    plays,       \* synthMode of the signal generator is SID
    waiting,     \* frames in qSID; what they say is read with them
    untilDue,    \* ms until l_time > next_frame, 0 from then on
    age,         \* ms since last_frame, up to Timeout + 1
    tone,        \* the channel has a frequency
    audible,     \* currentEnvelopeVolume is not 0; what it is is SidEnvelope's matter
    sid,         \* where the task is in a round
    decided,     \* what SidFilter_updateVoice is about to write to the voice
    sounds,      \* the voice of the signal generator is on
    switching    \* a task is between the reset of SID and the switch of the generator

sidVars == <<inSidMode, plays, waiting, untilDue, age, tone, audible, sid, decided, sounds,
             switching>>
modes == <<inSidMode, plays, switching>>
clock == <<untilDue, age>>

SidTypeOK ==
    /\ {inSidMode, plays, sounds, switching, tone, audible} \subseteq BOOLEAN
    /\ waiting \in 0 .. MaxWaiting
    /\ untilDue \in Nat /\ age \in 0 .. Timeout + 1
    /\ sid \in {"delay", "poll", "load", "update", "write", "adsr"}
    /\ decided \in {"nothing", "on", "off"}

SidInit ==
    /\ inSidMode = TRUE /\ plays = TRUE /\ switching = FALSE
    /\ waiting = 0 /\ untilDue = Timeout + 1 /\ age = 0
    /\ tone = FALSE /\ audible = FALSE
    /\ sid = "delay" /\ decided = "nothing" /\ sounds = FALSE

-----------------------------------------------------------------------------
(* The SID task *)

\* A time so late that it does not come: the host's clock is wrong.
Far == 1000

Lower(n) == IF n \in {0, Far} THEN n ELSE n - 1

\* A millisecond, or many while the mode is another.
Delay ==
    /\ sid = "delay"
    /\ untilDue' = Lower(untilDue) /\ age' = IF age > Timeout THEN age ELSE age + 1
    /\ sid' = IF inSidMode THEN "poll" ELSE "delay"
    /\ UNCHANGED <<modes, waiting, tone, audible, decided, sounds>>

TakesFrame == untilDue = 0 /\ waiting > 0

TakeFrame ==
    /\ sid = "poll" /\ TakesFrame
    /\ waiting' = waiting - 1 /\ age' = 0
    /\ untilDue' \in Delays \cup {Far}
    /\ sid' = "load"
    /\ UNCHANGED <<modes, tone, audible, decided, sounds>>

\* SidProcessor_handleFrame
LoadFrame ==
    /\ sid = "load" /\ tone' \in BOOLEAN /\ sid' = "update"
    /\ UNCHANGED <<modes, waiting, clock, audible, decided, sounds>>

\* No frame for a long time: the channel is reset, the next frame is due at once.
GiveUp ==
    /\ sid = "poll" /\ ~TakesFrame /\ age > Timeout
    /\ age' = 0 /\ untilDue' = 1
    /\ tone' = FALSE
    /\ sid' = "update"
    /\ UNCHANGED <<modes, waiting, audible, decided, sounds>>

KeepOn ==
    /\ sid = "poll" /\ ~TakesFrame /\ age <= Timeout
    /\ sid' = "adsr"
    /\ UNCHANGED <<modes, waiting, clock, tone, audible, decided, sounds>>

\* Faulty variant: a channel that was reset is left as it is.
UpdateVoiceToneOnly ==
    /\ sid = "update" /\ sid' = "write"
    /\ decided' = IF ~plays \/ ~tone THEN "nothing"
                  ELSE IF audible THEN "on" ELSE "off"
    /\ UNCHANGED <<modes, waiting, clock, tone, audible, sounds>>

\* SidFilter_updateVoice decides, SigGen_setVoiceSID tests the mode,
UpdateVoice ==
    /\ sid = "update" /\ sid' = "write"
    /\ decided' = IF ~plays THEN "nothing"
                  ELSE IF tone /\ audible THEN "on" ELSE "off"
    /\ UNCHANGED <<modes, waiting, clock, tone, audible, sounds>>

\* and the voice is written.
WriteVoice ==
    /\ sid = "write" /\ sid' = "adsr"
    /\ sounds' = IF decided = "nothing" THEN sounds ELSE decided = "on"
    /\ decided' = "nothing"
    /\ UNCHANGED <<modes, waiting, clock, tone, audible>>

StepADSR ==
    /\ sid = "adsr" /\ sid' = "delay"
    /\ audible' \in BOOLEAN
    /\ UNCHANGED <<modes, waiting, clock, tone, decided, sounds>>

SidTask ==
    Delay \/ TakeFrame \/ LoadFrame \/ GiveUp \/ KeepOn \/ UpdateVoice \/ WriteVoice \/ StepADSR

-----------------------------------------------------------------------------
(* The tasks of higher priority *)

\* SidProcessor_resetSid by one of them: the SID task does not run meanwhile.
ResetSid ==
    /\ tone' = FALSE
    /\ sounds' = (sounds /\ ~plays)

FrameArrives ==
    /\ waiting < MaxWaiting /\ waiting' = waiting + 1
    /\ UNCHANGED <<modes, clock, tone, audible, sid, decided, sounds>>

\* SYNTH_CMD_FLUSH
FlushSid ==
    /\ ResetSid
    /\ UNCHANGED <<modes, waiting, clock, audible, sid, decided>>

\* param.synth is set and callback_SynthFunction resets SID, then MIDI, for which it
\* may wait.
BeginSwitch ==
    /\ ~switching /\ switching' = TRUE
    /\ inSidMode' \in BOOLEAN
    /\ ResetSid
    /\ UNCHANGED <<plays, waiting, clock, audible, sid, decided>>

\* SigGen_switchSynthMode
EndSwitch ==
    /\ switching /\ switching' = FALSE
    /\ sounds' = FALSE /\ plays' = inSidMode
    /\ UNCHANGED <<inSidMode, waiting, clock, tone, audible, sid, decided>>

SidNext == SidTask \/ FrameArrives \/ FlushSid \/ BeginSwitch \/ EndSwitch

\* The task is delayed for a millisecond a round and nothing of higher priority runs
\* for ever.
SidFair == WF_sidVars(SidTask) /\ WF_sidVars(EndSwitch)

SidSpec == SidInit /\ [][SidNext]_sidVars /\ SidFair

-----------------------------------------------------------------------------
(* Properties *)

\* A channel does not go on sounding when the stream has ended, whatever the last frame
\* said and whoever flushed in between (tsk_sid.c:90).
EndedStreamFallsSilent == sounds ~> (~sounds \/ waiting > 0 \/ ~inSidMode)
=============================================================================
