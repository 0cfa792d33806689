-------------------------------- MODULE Vms --------------------------------
(***************************************************************************)
(* The MIDI synthesizer: tsk_midi.c takes messages off its queue and runs  *)
(* them through MidiProcessor.c and NoteMapper.c to VMSWrapper.c, which    *)
(* starts and stops notes; the VMS task interprets the blocks of VMS.c     *)
(* that shape each note, once a tick, and drives the voices of the signal  *)
(* generator.  Consoles (terminals, the MIN task, the watchdog's timer)    *)
(* kill the sound and switch the synthesizer mode underneath both.         *)
(*                                                                         *)
(* The scheduler is preemptive: VMS task and consoles have priority 3 and  *)
(* are sliced, the MIDI task has priority 2 and runs when none of them is  *)
(* ready.  vmsSemaphore guards the block list and most of the voice data;  *)
(* the mode and the generator's voices have no guard at all, so a write to *)
(* a voice is two steps here: the test of synthMode, then the write.       *)
(***************************************************************************)
EXTENDS Integers, Sequences, FiniteSets, SequencesExt

CONSTANTS
    NVoices,     \* SIGGEN_VOICECOUNT
    Notes,       \* the keys that are played
    UserBlocks,  \* the blocks of the flash, as a function from their names
    Entries,     \* start blocks of the map entries that match a note
    Consoles,    \* tasks of priority 3 that kill or switch the mode
    CanTransient,\* the consoles use the command tr
    MaxCommands, \* bound on the commands the consoles are given
    MaxWraps     \* bound on the wraps of VMSW_GET_TIME_MS

Voices == 0 .. NVoices - 1
Unity  == 1000000    \* VMS_UNITY_FACTOR
MaxVol == 32767      \* MAX_VOL
NoNote == "none"

\* VMSDefaults.c
DefaultBlocks ==
    [attack  |-> [type |-> "JUMP", target |-> "volume", goal |-> Unity, p1 |-> 0, next |-> <<"sustain">>,
                  off |-> "release", normal |-> TRUE, persistent |-> FALSE],
     sustain |-> [type |-> "JUMP", target |-> "volume", goal |-> Unity, p1 |-> 0, next |-> <<>>,
                  off |-> "release", normal |-> TRUE, persistent |-> TRUE],
     release |-> [type |-> "JUMP", target |-> "volume", goal |-> 0, p1 |-> 0, next |-> <<>>,
                  off |-> "none", normal |-> FALSE, persistent |-> FALSE]]

\* VMSW_getBlockPtr of an id that may be on the list.
Block(id) == IF id \in DOMAIN DefaultBlocks THEN DefaultBlocks[id] ELSE UserBlocks[id]
BlockIds  == DOMAIN DefaultBlocks \cup DOMAIN UserBlocks

BlockTypes == {"EXP", "EXP_INV", "LIN", "SIN", "JUMP"}

ASSUME VmsAssumption ==
    /\ NVoices \in Nat \ {0} /\ MaxWraps \in Nat /\ MaxCommands \in Nat /\ CanTransient \in BOOLEAN
    /\ NoNote \notin Notes /\ Consoles \cap {"free", "vms", "midi"} = {}
    /\ \A n \in Notes : Entries[n] \in Seq(BlockIds)
    /\ DOMAIN UserBlocks \cap {"attack", "sustain", "release", "none"} = {}
    /\ \A id \in DOMAIN UserBlocks :
         LET b == UserBlocks[id]
         IN  /\ b.type \in BlockTypes /\ b.target \in {"volume", "frequency"}
             /\ b.goal \in 0 .. Unity /\ b.p1 \in Int
             /\ b.next \in Seq(BlockIds) /\ b.off \in BlockIds \cup {"none"}
             /\ b.normal \in BOOLEAN /\ b.persistent \in BOOLEAN

VARIABLES
    \* shared
    mode,     \* param.synth
    synth,    \* synthMode of the signal generator
    sem,      \* who holds vmsSemaphore, or "free"
    queue,    \* a message waits in qMIDI_rx; what it says is read with it
    \* voice data and the generator's voices
    key,      \* the note a voice is on for (on, sourceNote), or NoNote
    voice,    \* volumeFactor, volumeTarget, volumeCurrent, freqCurrent # 0 of each
    started,  \* the voices by startTime, oldest first
    sound,    \* who switched each generator voice on: "off", "midi" or "tr"
    list,     \* VMS_listHead: [voice, id, due]
    \* the channel
    pedal,    \* MIDI_CC_SUSTAIN_PEDAL >= 0x40
    loud,     \* MIDI_CC_VOLUME > 0
    \* the tasks
    vms,      \* the VMS task: where it is and at which list entry
    midi,     \* the MIDI task: where it is and what it works on
    console,  \* where each console is in a command
    pending,  \* per task, the voice it has decided to write
    budget,   \* commands and wraps that may still come
    quiet,    \* history: no message since the last kill emptied the queue
    byTr      \* history: the mode was last switched by the command tr

data  == <<key, voice, started, list>>
chan  == <<pedal, loud>>
tasks == <<vms, midi, console>>
hist  == <<budget, quiet, byTr>>
vars  == <<mode, synth, sem, queue, key, voice, started, sound, list, pedal, loud,
           vms, midi, console, pending, budget, quiet, byTr>>

Writers == {"vms", "midi"} \cup Consoles
NoWrite == [voice |-> 0, on |-> FALSE, who |-> "nobody"]
Silent  == [factor |-> 0, target |-> 0, current |-> 0, tuned |-> FALSE]

VmsTypeOK ==
    /\ mode \in {"MIDI", "TR", "OFF"} /\ synth \in {"MIDI", "TR", "OFF"}
    /\ sem \in {"free"} \cup Writers
    /\ queue \in BOOLEAN
    /\ key \in [Voices -> Notes \cup {NoNote}]
    /\ \A v \in Voices : /\ voice[v].factor \in 0 .. Unity
                         /\ voice[v].target \in {0, MaxVol}
                         /\ voice[v].current \in 0 .. MaxVol
                         /\ voice[v].tuned \in BOOLEAN
    /\ started \in [1 .. NVoices -> Voices]
    /\ sound \in [Voices -> {"off", "midi", "tr"}]
    /\ list \in Seq([voice : Voices, id : BlockIds, due : {"soon", "now", "never"}])
    /\ pedal \in BOOLEAN /\ loud \in BOOLEAN
    /\ vms \in [at : {"delay", "want", "run"}, entry : Nat]
    /\ midi.at \in {"idle", "wait", "find", "claim", "free", "fill", "on", "clear", "add",
                    "sweep", "reset"}
    /\ \A c \in Consoles : console[c].at \in
         {"idle", "panic", "reset", "delay", "panic2", "reset2", "pw", "sweep",
          "mute", "mode", "tr"}
    /\ \A t \in Writers : pending[t].who \in {"nobody", "midi"}

VmsInit ==
    /\ mode = "MIDI" /\ synth = "MIDI" /\ sem = "free" /\ queue = FALSE
    /\ key = [v \in Voices |-> NoNote]
    /\ voice = [v \in Voices |-> Silent]
    /\ started = [i \in 1 .. NVoices |-> i - 1]
    /\ sound = [v \in Voices |-> "off"]
    /\ list = <<>>
    /\ pedal = FALSE /\ loud = TRUE
    /\ vms = [at |-> "delay", entry |-> 1]
    /\ midi = [at |-> "idle", todo |-> <<>>, note |-> NoNote, voice |-> 0, late |-> FALSE]
    /\ console = [c \in Consoles |-> [at |-> "idle", todo |-> <<>>, goal |-> "OFF"]]
    /\ pending = [t \in Writers |-> NoWrite]
    /\ budget = [commands |-> MaxCommands, wraps |-> MaxWraps] /\ quiet = TRUE /\ byTr = FALSE

-----------------------------------------------------------------------------
(* The voices of the signal generator *)

NotPending(t) == pending[t] = NoWrite

\* SigGen_setVoiceVMS up to its test of the mode.
SetVoice(t, v, on) ==
    pending' = IF synth = "MIDI"
               THEN [pending EXCEPT ![t] = [voice |-> v, on |-> on, who |-> "midi"]]
               ELSE pending

\* The rest of it: the voice is switched on or off, whatever the mode is by now.
Write(t) ==
    /\ sound' = IF NotPending(t) THEN sound
                ELSE [sound EXCEPT ![pending[t].voice] = IF pending[t].on THEN "midi" ELSE "off"]
    /\ pending' = [pending EXCEPT ![t] = NoWrite]

WriteVoice(t) ==
    /\ ~NotPending(t) /\ Write(t)
    /\ UNCHANGED <<mode, synth, sem, queue, data, chan, tasks, hist>>

Heard(w) == w.current # 0 /\ w.tuned

Volume(factor, target) ==
    IF factor = Unity THEN target ELSE ((factor \div 16) * target) \div 62500

-----------------------------------------------------------------------------
(* The VMS task *)

Abs(n) == IF n < 0 THEN -n ELSE n

\* The new factor of a block that shapes the volume (VMS_calculateValue).
Grow(b, f) == ((IF b.p1 > 1000 /\ f < 1000 THEN 1000 ELSE f) * b.p1) \div 1000

\* Faulty variant: the gap is taken from the factor, not from the goal.
ApproachFromHere(b, f) == f - (Abs(b.goal - f) * b.p1) \div 1000

Approach(b, f) == LET gap == (Abs(b.goal - f) * b.p1) \div 1000
                  IN  b.goal - IF gap < 10000 THEN 0 ELSE gap

Evaluate(b, f) ==
    CASE b.type = "EXP"     -> IF b.p1 < 5000 /\ Grow(b, f) < 5000 THEN 0 ELSE Grow(b, f)
      [] b.type = "EXP_INV" -> Approach(b, f)
      [] b.type = "LIN"     -> f + b.p1
      [] OTHER              -> b.goal

Rising(b) == CASE b.type = "EXP" -> b.p1 > 1000 [] b.type = "EXP_INV" -> b.p1 <= 1000
               [] OTHER -> b.p1 > 0

\* VMS_hasReachedThreshold: a sine never ends by itself.
Reached(b, f) ==
    \/ b.type = "JUMP"
    \/ b.type # "SIN" /\ IF Rising(b) THEN f >= b.goal ELSE f <= b.goal

Entry(v, id) == [voice |-> v, id |-> id, due |-> "soon"]
OffEntry(v, b) == IF b.off = "none" THEN <<>> ELSE <<Entry(v, b.off)>>
NextEntries(v, b) == [i \in DOMAIN b.next |-> Entry(v, b.next[i])]

\* Faulty variant: at the threshold a block just ends.
NextBlockForgotten(i, b) == RemoveAt(list, i)

\* VMS_nextBlock at the threshold: a persistent block keeps running.
NextBlock(i, b) ==
    IF b.persistent THEN [list EXCEPT ![i].due = "soon"]
    ELSE RemoveAt(list, i) \o NextEntries(list[i].voice, b)

\* Faulty variant: a released block goes without its off block.
OffBlockForgotten(i, b) == RemoveAt(list, i)

\* VMS_nextBlock after the note was switched off.
OffBlock(i, b) == RemoveAt(list, i) \o OffEntry(list[i].voice, b)

\* VMSW_setKnownValue of the two values modelled.
SetKnownValue(t, v, b, f) ==
    IF b.target = "volume"
    THEN /\ voice' = [voice EXCEPT ![v].factor = f, ![v].current = Volume(f, voice[v].target)]
         /\ SetVoice(t, v, Heard(voice'[v]))
    ELSE /\ voice' = [voice EXCEPT ![v].tuned = TRUE]
         /\ SetVoice(t, v, voice[v].current # 0)

\* The next tick: what was to wait a millisecond is due, the task wakes up and tests
\* the mode.
VmsTick ==
    /\ vms.at = "delay"
    /\ vms' = [vms EXCEPT !.at = IF mode = "MIDI" THEN "want" ELSE "delay"]
    /\ list' = [i \in DOMAIN list |->
                 IF list[i].due = "soon" THEN [list[i] EXCEPT !.due = "now"] ELSE list[i]]
    /\ UNCHANGED <<mode, synth, sem, queue, key, voice, started, sound, chan, midi, console,
                   pending, hist>>

\* VMSW_GET_TIME_MS wraps after 4294967 ms: the times of the waiting blocks lie
\* beyond anything it will show again.
Wrap ==
    /\ vms.at = "delay" /\ budget.wraps > 0
    /\ budget' = [budget EXCEPT !.wraps = @ - 1]
    /\ list' = [i \in DOMAIN list |-> [list[i] EXCEPT !.due = "never"]]
    /\ UNCHANGED <<mode, synth, sem, queue, key, voice, started, sound, chan, tasks, pending,
                   quiet, byTr>>

VmsTake ==
    /\ vms.at = "want" /\ sem = "free"
    /\ sem' = "vms" /\ vms' = [at |-> "run", entry |-> 1]
    /\ UNCHANGED <<mode, synth, queue, data, sound, chan, midi, console, pending, hist>>

\* Faulty variant: a key that is held is no reason to go on.
ReleasedAnyKey(v, b) == b.normal /\ ~pedal

Released(v, b) == b.normal /\ key[v] = NoNote /\ ~pedal

\* VMS_run with VMS_calculateValue, one block at a time.
VmsBlock ==
    /\ vms.at = "run" /\ vms.entry <= Len(list) /\ NotPending("vms")
    /\ LET i == vms.entry
           v == list[i].voice
           b == Block(list[i].id)
           f == Evaluate(b, voice[v].factor)
           skip == vms' = [vms EXCEPT !.entry = i + 1]
           stay == vms' = vms
       IN  \/ /\ list[i].due # "now" /\ skip
              /\ UNCHANGED <<list, voice, pending>>
           \/ /\ list[i].due = "now" /\ Released(v, b) /\ stay
              /\ list' = OffBlock(i, b)
              /\ UNCHANGED <<voice, pending>>
           \/ /\ list[i].due = "now" /\ ~Released(v, b) /\ Reached(b, f)
              /\ IF b.persistent THEN skip ELSE stay
              /\ list' = NextBlock(i, b)
              /\ SetKnownValue("vms", v, b, b.goal)
           \/ /\ list[i].due = "now" /\ ~Released(v, b) /\ ~Reached(b, f) /\ skip
              /\ list' = [list EXCEPT ![i].due = "soon"]
              /\ SetKnownValue("vms", v, b, f)
    /\ UNCHANGED <<mode, synth, sem, queue, key, started, sound, chan, midi, console, hist>>

VmsDone ==
    /\ vms.at = "run" /\ vms.entry > Len(list)
    /\ Write("vms") /\ sem' = "free" /\ vms' = [at |-> "delay", entry |-> 1]
    /\ UNCHANGED <<mode, synth, queue, data, chan, midi, console, hist>>

VmsStep == VmsTick \/ VmsTake \/ VmsBlock \/ VmsDone
           \/ (vms.entry <= Len(list) /\ WriteVoice("vms"))

-----------------------------------------------------------------------------
(* Resetting: VMSW_panicHandler under the semaphore, then SigGen_killAudio and *)
(* the channel data (MidiProcessor_resetMidi) *)

PanicHandler ==
    /\ sem = "free"
    /\ list' = <<>>
    /\ key' = [v \in Voices |-> NoNote]
    /\ voice' = [v \in Voices |-> [voice[v] EXCEPT !.current = 0, !.tuned = FALSE]]

KillAudio == sound' = [v \in Voices |-> "off"]

ResetMidi == KillAudio /\ pedal' = FALSE /\ loud' = TRUE

-----------------------------------------------------------------------------
(* The MIDI task *)

ConsoleReady(c) == /\ console[c].at \notin {"idle", "delay"}
                   /\ console[c].at \in {"panic", "panic2", "pw"} => sem = "free"
VmsReady == vms.at # "delay" /\ (vms.at = "want" => sem = "free")

\* Nobody of priority 3 is ready.
MidiMayRun == ~VmsReady /\ \A c \in Consoles : ~ConsoleReady(c)

MidiAt(at) == MidiMayRun /\ midi.at = at
MidiGoes(at) == midi' = [midi EXCEPT !.at = at]

\* Back at the queue: what was in progress is over, and nothing of it is kept.
MidiWaits == midi' = [at |-> "wait", todo |-> <<>>, note |-> NoNote, voice |-> 0, late |-> FALSE]

\* The mode is tested before the queue is read, not between two messages.
MidiPoll ==
    /\ \/ MidiAt("idle") /\ mode = "MIDI" /\ MidiGoes("wait")
       \/ MidiAt("wait") /\ ~queue /\ MidiGoes("idle")
    /\ UNCHANGED <<mode, synth, sem, queue, data, sound, chan, vms, console, pending, hist>>

Receive == MidiAt("wait") /\ queue /\ queue' = FALSE

\* A note with velocity, while the channel's volume is not 0.
NoteOn ==
    /\ Receive /\ loud
    /\ \E n \in Notes : midi' = [midi EXCEPT !.at = "find", !.todo = Entries[n], !.note = n]
    /\ UNCHANGED <<mode, synth, sem, data, sound, chan, vms, console, pending, hist>>

\* VMSW_stopNote; a note on a silent channel is one as well.
NoteOff ==
    /\ Receive /\ sem = "free"
    /\ \E n \in Notes : key' = [v \in Voices |-> IF key[v] = n THEN NoNote ELSE key[v]]
    /\ MidiWaits
    /\ UNCHANGED <<mode, synth, sem, voice, started, sound, list, chan, vms, console, pending, hist>>

Pedal ==
    /\ Receive /\ pedal' \in BOOLEAN
    /\ MidiWaits
    /\ UNCHANGED <<mode, synth, sem, data, sound, loud, vms, console, pending, hist>>

\* VMSW_volumeChangeHandler: only the target changes, setKnownValue(volumeCurrent)
\* has no case.
ChannelVolume ==
    /\ Receive /\ sem = "free"
    /\ loud' \in BOOLEAN
    /\ voice' = [v \in Voices |-> IF key[v] = NoNote THEN voice[v]
                   ELSE [voice[v] EXCEPT !.target = IF loud' THEN MaxVol ELSE 0]]
    /\ MidiWaits
    /\ UNCHANGED <<mode, synth, sem, key, started, sound, list, pedal, vms, console, pending, hist>>

KeysOn == {v \in Voices : key[v] # NoNote}

\* VMSW_bendHandler retunes the voices that are on, one after the other from the first.
Bend ==
    /\ Receive /\ sem = "free"
    /\ sem' = "midi"
    /\ midi' = [midi EXCEPT !.at = "sweep", !.todo = KeysOn]
    /\ UNCHANGED <<mode, synth, data, sound, chan, vms, console, pending, hist>>

BendVoice ==
    /\ MidiAt("sweep") /\ midi.todo # {} /\ NotPending("midi")
    /\ LET v == Min(midi.todo) IN
         /\ voice' = [voice EXCEPT ![v].tuned = TRUE]
         /\ SetVoice("midi", v, voice[v].current # 0)
         /\ midi' = [midi EXCEPT !.todo = @ \ {v}]
    /\ UNCHANGED <<mode, synth, sem, queue, key, started, sound, list, chan, vms, console, hist>>

BendDone ==
    /\ MidiAt("sweep") /\ midi.todo = {}
    /\ Write("midi") /\ sem' = "free" /\ MidiWaits
    /\ UNCHANGED <<mode, synth, queue, data, chan, vms, console, hist>>

\* All notes off, all sound off, reset all controllers.
AllOff ==
    /\ Receive /\ PanicHandler /\ MidiGoes("reset")
    /\ UNCHANGED <<mode, synth, sem, started, sound, chan, vms, console, pending, hist>>

AllOffDone ==
    /\ MidiAt("reset") /\ ResetMidi /\ MidiWaits
    /\ UNCHANGED <<mode, synth, sem, queue, data, vms, console, pending, hist>>

Active(v) == voice[v].current > 0 \/ key[v] # NoNote

\* VMSW_getNextVoice: the first inactive voice, else the oldest; notes started in
\* one tick are all of age 0, and then it is voice 0.
NextVoices ==
    LET idle == {v \in Voices : ~Active(v)} IN
    IF idle # {} THEN {Min(idle)} ELSE {started[1], 0}

NoteFind ==
    /\ MidiAt("find")
    /\ IF midi.todo = <<>> THEN MidiWaits
       ELSE \E v \in NextVoices : midi' = [midi EXCEPT !.at = "claim", !.voice = v]
    /\ UNCHANGED <<mode, synth, sem, queue, data, sound, chan, vms, console, pending, hist>>

\* Faulty variant: a voice keeps the blocks of its last note.
ClaimKeepsBlocks ==
    /\ MidiAt("claim") /\ sem = "free" /\ sem' = "midi"
    /\ SetVoice("midi", midi.voice, FALSE)
    /\ MidiGoes("free")
    /\ UNCHANGED <<mode, synth, queue, data, sound, chan, vms, console, hist>>

\* VMS_removeBlocksWithTargetVoice: the blocks of the other voices, in their order.
WithoutVoice(l, v) ==
    LET others[i \in 0 .. Len(l)] ==
          IF i = 0 THEN <<>>
          ELSE IF l[i].voice = v THEN others[i - 1] ELSE Append(others[i - 1], l[i])
    IN  others[Len(l)]

\* VMSW_startNote: the voice's blocks are removed and it is silenced,
NoteClaim ==
    /\ MidiAt("claim") /\ sem = "free" /\ sem' = "midi"
    /\ list' = WithoutVoice(list, midi.voice)
    /\ SetVoice("midi", midi.voice, FALSE)
    /\ MidiGoes("free")
    /\ UNCHANGED <<mode, synth, queue, key, voice, started, sound, chan, vms, console, hist>>

NoteFree ==
    /\ MidiAt("free") /\ Write("midi") /\ sem' = "free" /\ MidiGoes("fill")
    /\ UNCHANGED <<mode, synth, queue, data, chan, vms, console, hist>>

\* its data are cleared and filled in without the semaphore,
NoteFill ==
    /\ MidiAt("fill")
    /\ LET v == midi.voice IN
         /\ key' = [key EXCEPT ![v] = NoNote]
         /\ voice' = [voice EXCEPT ![v] = [Silent EXCEPT !.target = MaxVol, !.tuned = TRUE]]
         /\ started' = Append(RemoveFirst(started, v), v)
    /\ MidiGoes("on")
    /\ UNCHANGED <<mode, synth, sem, queue, sound, list, chan, vms, console, pending, hist>>

NoteSwitch ==
    /\ MidiAt("on")
    /\ key' = [key EXCEPT ![midi.voice] = midi.note]
    /\ MidiGoes("clear")
    /\ UNCHANGED <<mode, synth, sem, queue, voice, started, sound, list, chan, vms, console,
                   pending, hist>>

\* and with it again the voice is silenced once more and its start block added.
NoteClear ==
    /\ MidiAt("clear") /\ sem = "free" /\ sem' = "midi"
    /\ SetVoice("midi", midi.voice, FALSE)
    /\ MidiGoes("add")
    /\ UNCHANGED <<mode, synth, queue, data, sound, chan, vms, console, hist>>

NoteAdd ==
    /\ MidiAt("add") /\ Write("midi") /\ sem' = "free"
    /\ list' = Append(list, Entry(midi.voice, Head(midi.todo)))
    /\ midi' = [midi EXCEPT !.at = "find", !.todo = Tail(@)]
    /\ UNCHANGED <<mode, synth, queue, key, voice, started, chan, vms, console, hist>>

MidiStep ==
    \/ MidiPoll \/ NoteOn \/ NoteOff \/ Pedal \/ ChannelVolume \/ Bend \/ BendVoice \/ BendDone
    \/ AllOff \/ AllOffDone
    \/ NoteFind \/ NoteClaim \/ NoteFree \/ NoteFill \/ NoteSwitch \/ NoteClear \/ NoteAdd
    \/ (MidiMayRun /\ midi.at = "sweep" /\ midi.todo # {} /\ WriteVoice("midi"))

\* queue_midi_message
Enqueue ==
    /\ ~queue /\ queue' = TRUE /\ quiet' = FALSE
    /\ UNCHANGED <<mode, synth, sem, data, sound, chan, tasks, pending, budget, byTr>>

-----------------------------------------------------------------------------
(* The consoles *)

ConsoleAt(c, at) == console[c].at = at
Goes(c, at) == console' = [console EXCEPT ![c].at = at]
Command(c) == ConsoleAt(c, "idle") /\ budget.commands > 0
              /\ budget' = [budget EXCEPT !.commands = @ - 1]
Rests(c) == console' = [console EXCEPT ![c] = [at |-> "idle", todo |-> <<>>, goal |-> "OFF"]]

\* Faulty variant: the messages that wait are played after the kill.
BeginKillKeepsQueue(c) ==
    /\ Command(c)
    /\ quiet' = TRUE
    /\ console' = [console EXCEPT ![c].at = "panic", ![c].goal = "kill"]
    /\ UNCHANGED <<mode, synth, sem, queue, data, sound, chan, vms, midi, pending, byTr>>

\* tsk_midi_kill
BeginKill(c) ==
    /\ Command(c)
    /\ queue' = FALSE /\ quiet' = TRUE
    /\ console' = [console EXCEPT ![c].at = "panic", ![c].goal = "kill"]
    /\ UNCHANGED <<mode, synth, sem, data, sound, chan, vms, midi, pending, byTr>>

\* Faulty variant: the MIDI side is not reset before the switch.
BeginSwitchNoReset(c) ==
    /\ Command(c)
    /\ \E m \in {"MIDI", "OFF"} : mode' = m
    /\ console' = [console EXCEPT ![c].at = "mute", ![c].goal = "param"]
    /\ UNCHANGED <<synth, sem, queue, data, sound, chan, vms, midi, pending, quiet, byTr>>

\* The parameter synth is written, then callback_SynthFunction runs.
BeginSwitch(c) ==
    /\ Command(c)
    /\ \E m \in {"MIDI", "OFF"} : mode' = m
    /\ console' = [console EXCEPT ![c].at = "panic", ![c].goal = "param"]
    /\ UNCHANGED <<synth, sem, queue, data, sound, chan, vms, midi, pending, quiet, byTr>>

\* CMD_tr switches the mode without resetting the MIDI side.
BeginTransient(c) ==
    /\ CanTransient
    /\ Command(c)
    /\ \E m \in {"TR", "OFF"} : mode' = m
    /\ console' = [console EXCEPT ![c].at = "mute", ![c].goal = "tr"]
    /\ UNCHANGED <<synth, sem, queue, data, sound, chan, vms, midi, pending, quiet, byTr>>

Panic(c) ==
    /\ \/ ConsoleAt(c, "panic") /\ Goes(c, "reset")
       \/ ConsoleAt(c, "panic2") /\ Goes(c, "reset2")
    /\ PanicHandler
    /\ UNCHANGED <<mode, synth, sem, queue, started, sound, chan, vms, midi, pending, hist>>

\* tsk_midi_kill then waits 20 ms, in which the MIDI task ends the message it has.
Reset(c) ==
    /\ \/ /\ ConsoleAt(c, "reset") /\ console[c].goal = "kill" /\ Goes(c, "delay")
          /\ midi' = [midi EXCEPT !.late = midi.at \notin {"idle", "wait"}]
       \/ ConsoleAt(c, "reset") /\ console[c].goal = "param" /\ Goes(c, "mute") /\ UNCHANGED midi
       \/ ConsoleAt(c, "reset2") /\ Rests(c) /\ UNCHANGED midi
    /\ ResetMidi
    /\ UNCHANGED <<mode, synth, sem, queue, data, vms, pending, hist>>

DelayEnds(c) ==
    /\ ConsoleAt(c, "delay") /\ ~midi.late
    /\ Goes(c, "panic2")
    /\ UNCHANGED <<mode, synth, sem, queue, data, sound, chan, vms, midi, pending, hist>>

\* SigGen_switchSynthMode(param.synth): the output is killed, then the mode is set.
Mute(c) ==
    /\ ConsoleAt(c, "mute") /\ KillAudio
    /\ console' = [console EXCEPT ![c].at = "mode", ![c].goal = mode,
                                  ![c].todo = <<console[c].goal = "tr">>]
    /\ UNCHANGED <<mode, synth, sem, queue, data, chan, vms, midi, pending, hist>>

SetMode(c) ==
    /\ ConsoleAt(c, "mode")
    /\ synth' = console[c].goal /\ byTr' = Head(console[c].todo)
    /\ IF synth' = "TR" THEN Goes(c, "tr") ELSE Rests(c)
    /\ UNCHANGED <<mode, sem, queue, data, sound, chan, vms, midi, pending, budget, quiet>>

\* interrupter_updateTR uses voice 0.
UpdateTR(c) ==
    /\ ConsoleAt(c, "tr") /\ Rests(c)
    /\ sound' = IF mode = "TR" /\ synth = "TR" THEN [sound EXCEPT ![0] = "tr"] ELSE sound
    /\ UNCHANGED <<mode, synth, sem, queue, data, chan, vms, midi, pending, hist>>

\* callback_PWFunction and VMSW_pulseWidthChangeHandler
BeginPulseWidth(c) ==
    /\ Command(c) /\ mode = "MIDI" /\ Goes(c, "pw")
    /\ UNCHANGED <<mode, synth, sem, queue, data, sound, chan, vms, midi, pending, quiet, byTr>>

PulseWidthTake(c) ==
    /\ ConsoleAt(c, "pw") /\ sem = "free" /\ sem' = c
    /\ console' = [console EXCEPT ![c].at = "sweep", ![c].todo = KeysOn]
    /\ UNCHANGED <<mode, synth, queue, data, sound, chan, vms, midi, pending, hist>>

PulseWidthVoice(c) ==
    /\ ConsoleAt(c, "sweep") /\ console[c].todo # {} /\ NotPending(c)
    /\ LET v == Min(console[c].todo) IN
         /\ SetVoice(c, v, Heard(voice[v]))
         /\ console' = [console EXCEPT ![c].todo = @ \ {v}]
    /\ UNCHANGED <<mode, synth, sem, queue, data, sound, chan, vms, midi, hist>>

PulseWidthDone(c) ==
    /\ ConsoleAt(c, "sweep") /\ console[c].todo = {} /\ NotPending(c)
    /\ sem' = "free" /\ Rests(c)
    /\ UNCHANGED <<mode, synth, queue, data, sound, chan, vms, midi, pending, hist>>

ConsoleBegins(c) == BeginKill(c) \/ BeginSwitch(c) \/ BeginTransient(c) \/ BeginPulseWidth(c)

ConsoleStep(c) ==
    \/ Panic(c) \/ Reset(c) \/ DelayEnds(c) \/ Mute(c) \/ SetMode(c) \/ UpdateTR(c)
    \/ PulseWidthTake(c) \/ PulseWidthVoice(c) \/ PulseWidthDone(c)
    \/ WriteVoice(c)

VmsNext ==
    \/ VmsStep \/ Wrap \/ MidiStep \/ Enqueue
    \/ \E c \in Consoles : ConsoleBegins(c) \/ ConsoleStep(c)

VmsSpec == VmsInit /\ [][VmsNext]_vars

\* The tasks run: those of priority 3 are sliced, and the MIDI task gets what the VMS
\* task leaves of each tick.  Nobody has to type a command.
VmsFair == /\ WF_vars(VmsStep) /\ SF_vars(MidiStep)
           /\ \A c \in Consoles : WF_vars(ConsoleStep(c))

VmsFairSpec == VmsSpec /\ VmsFair

-----------------------------------------------------------------------------
(* Conditions of a program of blocks, on which what is proved in Vms_proofs rests *)

\* A block of the flash that approaches its goal from above may shoot over it by as much
\* as the distance it came from; one whose goal is at least half of full volume may not.
NoOvershoot ==
    \A id \in DOMAIN UserBlocks :
      UserBlocks[id].type = "EXP_INV" /\ UserBlocks[id].target = "volume" => Unity <= 2 * UserBlocks[id].goal

\* A program of blocks forks well: the blocks Solo, with which the notes start, are alone
\* on their voice and may be followed by several blocks of different values; a block that
\* runs beside another one is followed by blocks of its own value, which do not fork.
ForksAt(Solo) ==
    /\ \A n \in Notes : Entries[n] \in Seq(Solo)
    /\ \A id \in BlockIds :
         LET b == Block(id)
         IN  /\ \A j, k \in 1 .. Len(b.next) :
                  j # k => Block(b.next[j]).target # Block(b.next[k]).target /\ b.next[j] \notin Solo
             /\ id \notin Solo =>
                  /\ \A k \in 1 .. Len(b.next) : Block(b.next[k]).target = b.target /\ b.next[k] \notin Solo
                  /\ b.off # "none" => Block(b.off).target = b.target /\ b.off \notin Solo

\* Some set of blocks makes the program fork well.
WellForked == \E Solo \in SUBSET BlockIds : ForksAt(Solo)

\* A block that shapes the volume leaves its voice silent, or to another such block.
EndsSilent ==
    \A id \in BlockIds :
        LET b == Block(id)
        IN  b.target = "volume" =>
              /\ b.normal => b.off # "none" /\ Block(b.off).target = "volume"
              /\ b.type # "SIN" /\ ~b.persistent /\ b.goal # 0 =>
                   \E k \in 1 .. Len(b.next) : Block(b.next[k]).target = "volume"

\* The command tr is given where no other console kills or switches at the same time.
TransientAlone == CanTransient => \A c, d \in Consoles : c = d

-----------------------------------------------------------------------------
(* Properties *)

ConsolesIdle == \A c \in Consoles : console[c].at = "idle"

\* A voice that MIDI has switched on has a block that will switch it off, unless
\* somebody is just about to do so: no note is left behind without a controller.
HeardHasBlock ==
    \A v \in Voices : synth = "MIDI" /\ sound[v] = "midi" =>
        \/ \E i \in DOMAIN list : list[i].voice = v
        \/ \E t \in Writers : ~NotPending(t) /\ pending[t].voice = v
        \/ midi.at \in {"fill", "on", "clear"} /\ midi.voice = v
        \/ midi.at = "reset" \/ \E c \in Consoles : console[c].at \in {"reset", "reset2"}

\* Each voice has at most one block per value: block lists do not grow with time,
\* whatever is pressed, released, stolen or killed (VMS.c:205).
OneBlockPerValue ==
    \A i, j \in DOMAIN list :
        i # j /\ list[i].voice = list[j].voice
            => Block(list[i].id).target # Block(list[j].id).target

\* After tsk_midi_kill nothing sounds and nothing is about to, until a new message
\* comes: its second reset catches the note that was being started.
KillSilences ==
    quiet /\ ConsolesIdle =>
        list = <<>> /\ \A v \in Voices : key[v] = NoNote /\ sound[v] # "midi"

\* Once the parameter synth has been switched away from MIDI no MIDI voice sounds.
SwitchSilences ==
    ConsolesIdle /\ synth # "MIDI" /\ ~byTr => \A v \in Voices : sound[v] # "midi"

InMidi == mode = "MIDI" /\ synth = "MIDI"

\* A note that was switched off falls silent (VMSWrapper.c:77).
ReleasedFallsSilent ==
    \A v \in Voices :
        (key[v] = NoNote /\ sound[v] = "midi")
            ~> (sound[v] # "midi" \/ key[v] # NoNote \/ pedal \/ ~InMidi)

\* A note that is held is heard, whatever the voice did before; and a change of the
\* channel's volume reaches the voices that are held, although the handler's own
\* recalculation does nothing (VMSWrapper.c:520).
HeldIsHeard ==
    \A v \in Voices :
        /\ (key[v] # NoNote /\ voice[v].tuned /\ voice[v].target > 0)
             ~> (\/ sound[v] = "midi" \/ key[v] = NoNote \/ ~voice[v].tuned
                 \/ voice[v].target = 0 \/ ~InMidi)
        /\ (key[v] # NoNote /\ voice[v].target = 0)
             ~> (sound[v] # "midi" \/ key[v] = NoNote \/ voice[v].target > 0 \/ ~InMidi)
=============================================================================
