------------------------- MODULE VoiceMixer_proofs -------------------------
(***************************************************************************)
(* Proofs about VoiceMixer, for every number of voices, every tone and     *)
(* every off-time.                                                         *)
(***************************************************************************)
EXTENDS VoiceMixer, TLAPS

-----------------------------------------------------------------------------
(* The inductive invariant *)

\* The voices the holdoff loop has passed since it last went back are clear of
\* the pulse as long as it is now; voice 0 is never looked at again.
ScannedClear ==
    pc = "scan" => \A v \in Voice : v \in 1 .. scan - 1 => Clears(v)

IInv == TypeOK /\ ScannedClear

-----------------------------------------------------------------------------
(* Arithmetic *)

\* What the assumption says of the numbers.
LEMMA Numbers ==
    /\ N \in Nat \ {0} /\ 0 \in Voice
    /\ Never \in Nat \ {0} /\ MaxNoise \in Nat /\ Offtime \in Nat
BY VoiceMixerAssumption DEF Voice

\* A scaled quantity is a natural number.
LEMMA ScaledNat ==
    ASSUME NEW a \in Nat, NEW b \in Nat \ {0}
    PROVE  a \div b \in Nat
BY SMT

\* A product of natural numbers is one.
LEMMA ProductNat ==
    ASSUME NEW a \in Nat, NEW b \in Nat
    PROVE  a * b \in Nat
BY SMT

\* Noise moves a counter, but never to a negative value.
LEMMA NoisyNat ==
    ASSUME TypeOK, NEW v \in Voice, NEW c \in Nat, NEW x \in Nat
    PROVE  Noisy(v, c, x) \in Nat
<1>1. raw[v].noise \in Nat /\ out[v].period \in Nat
    BY DEF TypeOK, Raw, Out
<1>2. NoiseLimit(v) \in Nat
    BY <1>1 DEF NoiseLimit, Smaller
<1>3. NoiseLimit(v) \div 2 \in Nat
    BY <1>2, ScaledNat
<1>4. Smaller(x, NoiseLimit(v)) \in Nat
    BY <1>2 DEF Smaller
<1> QED BY <1>3, <1>4 DEF Noisy

\* A voice without noise keeps its counter.
LEMMA NoNoise ==
    ASSUME TypeOK, NEW v \in Voice, raw[v].noise = 0, NEW c \in Int, NEW x \in Nat
    PROVE  Noisy(v, c, x) = c
<1>1. out[v].period \in Nat
    BY DEF TypeOK, Out
<1>2. NoiseLimit(v) = 0
    BY <1>1 DEF NoiseLimit, Smaller
<1>3. Smaller(x, 0) = 0
    BY DEF Smaller
<1> QED BY <1>2, <1>3 DEF Noisy

\* After a pulse the counter is not negative, however late the pulse was.
LEMMA RefillNat ==
    ASSUME TypeOK, NEW v \in Voice, NEW c \in Int
    PROVE  Refill(v, c) \in Nat
<1>1. out[v].period \in Nat
    BY DEF TypeOK, Out
<1> QED BY <1>1 DEF Refill

\* New settings are settings.
LEMMA NewSettings ==
    ASSUME NEW r \in Raw, NEW i \in Nat, NEW j \in Nat, NEW k \in Nat, NEW m \in Nat
    PROVE  /\ [r EXCEPT !.hpv = i, !.hpvWidth = j, !.phase = k, !.offset = m] \in Raw
           /\ [r EXCEPT !.on = TRUE, !.period = i, !.width = j, !.noise = k] \in Raw
BY Zenon, TRUE \in BOOLEAN DEF Raw

\* The settings of a hypervoice are settings.
LEMMA WithHyperRaw ==
    ASSUME NEW r \in Raw, NEW n \in Nat, NEW p \in Nat, NEW w \in Nat
    PROVE  WithHyper(r, n, p, w) \in Raw
<1>1. r.period \in Nat
    BY DEF Raw
<1>2. (p * r.period) \div 1024 \in Nat
    BY <1>1, ProductNat, ScaledNat
<1>3. [r EXCEPT !.hpv = 0, !.hpvWidth = 0, !.phase = 0] \in Raw
    BY Zenon, 0 \in Nat DEF Raw
<1>4. [r EXCEPT !.hpv = n, !.hpvWidth = w, !.phase = p,
               !.offset = (p * r.period) \div 1024] \in Raw
  <2> DEFINE m == (p * r.period) \div 1024
  <2>1. m \in Nat
      BY <1>2
  <2> HIDE DEF m
  <2>2. [r EXCEPT !.hpv = n, !.hpvWidth = w, !.phase = p, !.offset = m] \in Raw
      BY <2>1, NewSettings
  <2> QED BY <2>2 DEF m
<1> QED BY <1>3, <1>4, Zenon DEF WithHyper

\* Switching a voice, or its hypervoice, off leaves settings ...
LEMMA OffRaw ==
    ASSUME NEW r \in Raw
    PROVE  [r EXCEPT !.on = FALSE] \in Raw /\ [r EXCEPT !.on = FALSE, !.hpv = 0] \in Raw
BY Zenon, 0 \in Nat, FALSE \in BOOLEAN DEF Raw

\* ... and limited fields.
LEMMA OffOut ==
    ASSUME NEW o \in Out
    PROVE  [o EXCEPT !.on = FALSE] \in Out /\ [o EXCEPT !.on = FALSE, !.hpv = 0] \in Out
BY Zenon, 0 \in Nat, FALSE \in BOOLEAN DEF Out

\* What is left of the limited fields when a hypervoice is switched off.
LEMMA HyperOutOut ==
    ASSUME NEW r \in Raw, NEW o \in Out
    PROVE  HyperOut(r, o) \in Out
BY DEF HyperOut, Out

\* A divider stays a number of pulses.
LEMMA HyperDividerNat ==
    ASSUME NEW r \in Raw, NEW d \in Nat
    PROVE  HyperDivider(r, d) \in Nat
BY VoiceMixerAssumption DEF HyperDivider, Raw, Smaller

-----------------------------------------------------------------------------
\* SigGen_init starts with every voice off.
LEMMA InitInv == Init => IInv
<1> SUFFICES ASSUME Init PROVE IInv
    OBVIOUS
<1>1. TypeOK
    BY VoiceMixerAssumption DEF Init, TypeOK, Raw, Out, Voice
<1>2. ScannedClear
    BY DEF Init, ScannedClear
<1> QED BY <1>1, <1>2 DEF IInv

\* The note functions keep the types.
LEMMA NotesType == TypeOK /\ Notes => TypeOK'
<1> SUFFICES ASSUME TypeOK, Notes PROVE TypeOK'
    OBVIOUS
<1>1. CASE KillAudio
  <2>1. \A v \in Voice : raw[v] \in Raw /\ out[v] \in Out
      BY DEF TypeOK
  <2>2. \A v \in Voice : /\ [raw[v] EXCEPT !.on = FALSE, !.hpv = 0] \in Raw
                         /\ [out[v] EXCEPT !.on = FALSE, !.hpv = 0] \in Out
    <3> TAKE v \in Voice
    <3>1. raw[v] \in Raw /\ out[v] \in Out
        BY <2>1
    <3>2. [raw[v] EXCEPT !.on = FALSE, !.hpv = 0] \in Raw
        BY Zenon, <3>1, OffRaw
    <3>3. [out[v] EXCEPT !.on = FALSE, !.hpv = 0] \in Out
        BY Zenon, <3>1, OffOut
    <3> QED BY <3>2, <3>3
  <2>3. raw' \in [Voice -> Raw] /\ out' \in [Voice -> Out]
      BY Zenon, <1>1, <2>2 DEF KillAudio
  <2> QED BY <1>1, <2>3 DEF KillAudio, TypeOK, taskVars
<1>2. ASSUME NEW v \in Voice, SetVoice(v) PROVE TypeOK'
  <2>1. PICK t \in Tones[v] :
          LET tuned == Retuned(v, t)
              r == WithHyper(tuned, tuned.hpv, tuned.phase, tuned.hpvWidth)
          IN IF tuned.hpv = 0
             THEN /\ raw' = [raw EXCEPT ![v] = tuned]
                  /\ UNCHANGED <<out, divider>>
             ELSE /\ raw' = [raw EXCEPT ![v] = r]
                  /\ out' = [out EXCEPT ![v] = HyperOut(r, @)]
                  /\ divider' = [divider EXCEPT ![v] = HyperDivider(r, @)]
      BY <1>2 DEF SetVoice
  <2> DEFINE tuned == Retuned(v, t)
             r == WithHyper(tuned, tuned.hpv, tuned.phase, tuned.hpvWidth)
  <2>2. t \in [period : Nat \ {0}, noise : Nat, width : Nat]
      BY VoiceMixerAssumption
  <2>3. t.period \div 2 \in Nat
      BY <2>2, ScaledNat
  <2>4. Smaller(t.noise, t.period \div 2) \in Nat
      BY <2>2, <2>3 DEF Smaller
  <2>5. tuned \in Raw
    <3>1. raw[v] \in Raw /\ t.period \in Nat /\ t.width \in Nat
        BY <2>2 DEF TypeOK
    <3>2. \A n \in Nat : [raw[v] EXCEPT !.on = TRUE, !.period = t.period,
                           !.width = t.width, !.noise = n] \in Raw
        BY Zenon, <3>1, NewSettings, 0 \in Nat
    <3> QED BY Zenon, <2>4, <3>2 DEF Retuned
  <2>6. tuned.hpv \in Nat /\ tuned.phase \in Nat /\ tuned.hpvWidth \in Nat
      BY <2>5 DEF Raw
  <2>7. r \in Raw
      BY <2>5, <2>6, WithHyperRaw
  <2> HIDE DEF tuned, r
  <2>8. out[v] \in Out /\ divider[v] \in Nat
      BY DEF TypeOK
  <2>9. HyperOut(r, out[v]) \in Out /\ HyperDivider(r, divider[v]) \in Nat
      BY <2>7, <2>8, HyperOutOut, HyperDividerNat
  <2>10. raw' \in [Voice -> Raw] /\ out' \in [Voice -> Out]
           /\ divider' \in [Voice -> Nat]
    <3>1. CASE tuned.hpv = 0
        BY <2>1, <2>5, <3>1 DEF TypeOK, tuned
    <3>2. CASE tuned.hpv # 0
        BY <2>1, <2>7, <2>9, <3>2 DEF TypeOK, tuned, r
    <3> QED BY <3>1, <3>2
  <2>11. counter' \in [Voice -> Nat]
      BY <1>2 DEF SetVoice, StartCounter, TypeOK
  <2> QED BY <1>2, <2>10, <2>11 DEF SetVoice, TypeOK, taskVars
<1>3. ASSUME NEW v \in Voice, SetHyper(v) PROVE TypeOK'
  <2>1. PICK h \in Hypers[v], w \in {t.width : t \in Tones[v]} :
          LET r == WithHyper(raw[v], h.count, h.phase, w) IN
          /\ raw' = [raw EXCEPT ![v] = r]
          /\ out' = [out EXCEPT ![v] = HyperOut(r, @)]
          /\ divider' = [divider EXCEPT ![v] = HyperDivider(r, @)]
      BY <1>3 DEF SetHyper
  <2>2. h.count \in Nat /\ h.phase \in Nat /\ w \in Nat
    <3>1. h \in [count : Nat, phase : 0 .. 1024]
        BY VoiceMixerAssumption
    <3>2. \A t \in Tones[v] : t.width \in Nat
        BY VoiceMixerAssumption
    <3> QED BY <3>1, <3>2
  <2> DEFINE r == WithHyper(raw[v], h.count, h.phase, w)
  <2>3. raw[v] \in Raw /\ out[v] \in Out /\ divider[v] \in Nat
      BY DEF TypeOK
  <2>4. r \in Raw
      BY <2>2, <2>3, WithHyperRaw
  <2> HIDE DEF r
  <2>5. HyperOut(r, out[v]) \in Out /\ HyperDivider(r, divider[v]) \in Nat
      BY <2>3, <2>4, HyperOutOut, HyperDividerNat
  <2>6. raw' \in [Voice -> Raw] /\ out' \in [Voice -> Out]
          /\ divider' \in [Voice -> Nat]
      BY <2>1, <2>4, <2>5 DEF TypeOK, r
  <2> QED BY <1>3, <2>6 DEF SetHyper, TypeOK, taskVars
<1>4. ASSUME NEW v \in Voice, VoiceOff(v) PROVE TypeOK'
  <2>1. raw[v] \in Raw /\ out[v] \in Out
      BY DEF TypeOK
  <2>2. [raw[v] EXCEPT !.on = FALSE] \in Raw /\ [out[v] EXCEPT !.on = FALSE] \in Out
      BY Zenon, <2>1, OffRaw, OffOut
  <2>3. raw' \in [Voice -> Raw] /\ out' \in [Voice -> Out]
      BY <1>4, <2>2 DEF VoiceOff, TypeOK
  <2> QED BY <1>4, <2>3 DEF VoiceOff, StartCounter, TypeOK, taskVars
<1>5. ASSUME NEW v \in Voice, LimitVoice(v) PROVE TypeOK'
  <2>1. raw[v] \in Raw /\ out[v] \in Out
      BY DEF TypeOK
  <2>2. CASE ~raw[v].on
    <3>2. out' = [out EXCEPT ![v].on = FALSE] /\ counter' = counter
        BY Zenon, <1>5, <2>2 DEF LimitVoice
    <3>1. out' \in [Voice -> Out]
        BY <2>1, <3>2, OffOut DEF TypeOK
    <3> QED BY <1>5, <3>1, <3>2 DEF LimitVoice, TypeOK, taskVars
  <2>3. CASE raw[v].on
    <3>1. PICK s \in Scales :
            out' = [out EXCEPT ![v] =
                     [on       |-> TRUE,
                      period   |-> raw[v].period,
                      width    |-> (raw[v].width * s) \div MaxVol,
                      hpv      |-> IF raw[v].hpv # 0 /\ raw[v].noise = 0
                                   THEN raw[v].hpv ELSE @.hpv,
                      hpvWidth |-> IF raw[v].hpv # 0 /\ raw[v].noise = 0
                                   THEN (raw[v].hpvWidth * s) \div MaxVol
                                   ELSE 0]]
        BY <1>5, <2>3 DEF LimitVoice
    <3>2. s \in Nat /\ MaxVol \in Nat \ {0}
        BY VoiceMixerAssumption
    <3>3. /\ raw[v].width \in Nat /\ raw[v].hpvWidth \in Nat
          /\ raw[v].period \in Nat /\ raw[v].hpv \in Nat /\ out[v].hpv \in Nat
        BY <2>1 DEF Raw, Out
    <3>4. raw[v].width * s \in Nat /\ raw[v].hpvWidth * s \in Nat
        BY <3>2, <3>3, ProductNat
    <3> DEFINE a == (raw[v].width * s) \div MaxVol
               b == (raw[v].hpvWidth * s) \div MaxVol
    <3>5. a \in Nat /\ b \in Nat
        BY <3>2, <3>4, ScaledNat
    <3> HIDE DEF a, b
    <3>6. out' \in [Voice -> Out]
        BY <3>1, <3>3, <3>5 DEF TypeOK, Out, a, b
    <3>7. counter' \in [Voice -> Nat]
        BY <1>5, <2>3, <3>3 DEF LimitVoice, TypeOK, Smaller
    <3> QED BY <1>5, <3>6, <3>7 DEF LimitVoice, TypeOK, taskVars
  <2> QED BY <2>2, <2>3
<1> QED BY <1>1, <1>2, <1>3, <1>4, <1>5 DEF Notes

\* The distance to the earliest pulse is a time, and none is passed over.
LEMMA Distance ==
    ASSUME TypeOK, NEW h \in Horizons,
           NEW d \in {h} \cup DueTimes
    PROVE  d \in Nat
<1>1. h \in Nat
    BY VoiceMixerAssumption
<1>2. \A v \in Voice : Due(v) \in Nat
    BY DEF TypeOK, Due, Smaller
<1> QED BY <1>1, <1>2 DEF DueTimes

\* One turn of the voices keeps the types.
LEMMA AdvanceType ==
    ASSUME TypeOK, NEW d \in Nat, NEW x \in [Voice -> 0 .. MaxNoise],
           AdvanceBy(d, x)
    PROVE  /\ counter' \in [Voice -> Nat]
           /\ divider' \in [Voice -> Nat] /\ hpvCounter' \in [Voice -> Nat]
           /\ triggered' \subseteq Voice
           /\ pulse' \in [period : Nat, onTime : Nat]
<1>1. ASSUME NEW v \in Voice
      PROVE  /\ counter[v] \in Nat /\ divider[v] \in Nat /\ hpvCounter[v] \in Nat
             /\ raw[v].offset \in Nat
             /\ out[v].width \in Nat /\ out[v].hpvWidth \in Nat
             /\ out[v].hpv \in Nat
    BY DEF TypeOK, Raw, Out
<1>2. counter' \in [Voice -> Nat]
  <2>1. ASSUME NEW v \in Voice, v \in Fires(d)
        PROVE  Noisy(v, Refill(v, counter[v] - d), x[v]) \in Nat
    <3>1. counter[v] - d \in Int /\ x[v] \in Nat
        BY <1>1, Numbers
    <3>2. Refill(v, counter[v] - d) \in Nat
        BY <3>1, RefillNat
    <3> QED BY <3>1, <3>2, NoisyNat
  <2>2. ASSUME NEW v \in Voice, v \notin Fires(d), out[v].on
        PROVE  counter[v] - d \in Nat
      BY <1>1, <2>2 DEF Fires
  <2> QED BY <1>1, <2>1, <2>2 DEF AdvanceBy
<1>3. ASSUME NEW v \in Voice
      PROVE  DividerAfter(v, d) \in Nat /\ Recount(v) \in Nat
    BY <1>1, Numbers DEF DividerAfter, Less, Recount
<1>4. divider' \in [Voice -> Nat]
    BY <1>3 DEF AdvanceBy
<1>5. ASSUME NEW v \in Voice, v \notin Echoes(d)
      PROVE  HyperAfter(v, d) \in Nat
  <2>1. CASE ~(out[v].on /\ divider[v] = 0)
      BY <1>1, <2>1 DEF HyperAfter
  <2>2. CASE out[v].on /\ divider[v] = 0
    <3>1. DividerAfter(v, d) = 0
        BY <2>2 DEF DividerAfter, Less
    <3>2. HyperAfter(v, d) \in Int
        BY <1>1 DEF HyperAfter
    <3>3. ~(HyperAfter(v, d) <= 0)
        BY <1>5, <2>2, <3>1 DEF Echoes
    <3> QED BY <3>2, <3>3
  <2> QED BY <2>1, <2>2
<1>6. hpvCounter' \in [Voice -> Nat]
    BY <1>5, Numbers DEF AdvanceBy
<1>7. triggered' \subseteq Voice
    BY DEF AdvanceBy, Fires, Echoes
<1>8. pulse' \in [period : Nat, onTime : Nat]
  <2> DEFINE W == {out[v].width : v \in Fires(d)}
                      \cup {out[v].hpvWidth : v \in Echoes(d)}
  <2>1. W \subseteq Nat
      BY <1>1 DEF Fires, Echoes
  <2>2. PICK w \in W \cup {0} : pulse' = [period |-> d, onTime |-> w]
      BY DEF AdvanceBy
  <2>3. w \in Nat
      BY <2>1, <2>2
  <2> QED BY <2>2, <2>3
<1> QED BY <1>2, <1>4, <1>6, <1>7, <1>8

\* A turn takes every voice that is heard, and has no noise, exactly as far as
\* the time that goes by, and by a whole period if its pulse was due.
LEMMA AdvanceInTune ==
    ASSUME TypeOK, NEW d \in Nat, NEW x \in [Voice -> 0 .. MaxNoise],
           Earliest(d), AdvanceBy(d, x),
           NEW v \in Voice, Audible(v), raw[v].noise = 0
    PROVE  /\ pulse'.period = d /\ d <= counter[v]
           /\ counter'[v] - counter[v] + d \in {0, out[v].period}
<1>1. counter[v] \in Nat /\ hpvCounter[v] \in Nat /\ out[v].period \in Nat
    BY DEF TypeOK, Out
<1>2. out[v].on /\ d <= counter[v]
    BY <1>1 DEF Earliest, Audible, Due, Smaller
<1>3. pulse'.period = d
    BY DEF AdvanceBy
<1>4. CASE v \in Fires(d)
  <2>1. counter[v] = d
      BY <1>1, <1>2, <1>4 DEF Fires
  <2>2. Refill(v, counter[v] - d) = out[v].period
      BY <1>1, <2>1 DEF Refill
  <2>3. x[v] \in Nat
      BY Numbers
  <2>4. Noisy(v, out[v].period, x[v]) = out[v].period
      BY <1>1, <2>3, NoNoise
  <2>5. counter'[v] = out[v].period
      BY <1>4, <2>2, <2>4 DEF AdvanceBy
  <2> QED BY <1>1, <1>2, <1>3, <2>1, <2>5
<1>5. CASE v \notin Fires(d)
  <2>1. counter'[v] = counter[v] - d
      BY <1>2, <1>5 DEF AdvanceBy
  <2> QED BY <1>1, <1>2, <1>3, <2>1
<1> QED BY <1>4, <1>5

\* Holding a voice against the pulse keeps the types.
LEMMA HoldType ==
    ASSUME TypeOK, NEW v \in Voice, NEW x \in 0 .. MaxNoise, HoldAgainst(v, x)
    PROVE  /\ counter' \in [Voice -> Nat]
           /\ divider' \in [Voice -> Nat] /\ hpvCounter' \in [Voice -> Nat]
           /\ triggered' \subseteq Voice
           /\ pulse' \in [period : Nat, onTime : Nat]
           /\ scan' \in 0 .. N
<1>1. 0 \in Voice /\ N \in Nat
    BY Numbers
<1>2. ASSUME NEW u \in Voice
      PROVE  /\ counter[u] \in Nat /\ divider[u] \in Nat /\ hpvCounter[u] \in Nat
             /\ out[u].width \in Nat /\ out[u].hpvWidth \in Nat
             /\ out[u].period \in Nat /\ Recount(u) \in Nat
    BY Numbers DEF TypeOK, Out, Recount
<1>3. counter' \in [Voice -> Nat]
  <2>1. PulledForward(v) \in Nat /\ x \in Nat
      BY <1>2, Numbers DEF PulledForward
  <2>2. Noisy(v, PulledForward(v), x) \in Nat
      BY <2>1, NoisyNat
  <2> QED BY <1>2, <2>2 DEF HoldAgainst, TypeOK
<1> DEFINE h == IF counter[v] < Hold /\ Merges(v) THEN 0 ELSE v
<1>4. /\ h \in Voice
      /\ hpvCounter' = [hpvCounter EXCEPT ![h] =
             IF divider[h] = 0 /\ hpvCounter[h] <= Hold THEN Never ELSE @]
      /\ divider' = [divider EXCEPT ![h] =
             IF divider[h] = 0 /\ hpvCounter[h] <= Hold THEN Recount(h) ELSE @]
    BY <1>1, Zenon DEF HoldAgainst
<1> HIDE DEF h
<1>5. hpvCounter' \in [Voice -> Nat] /\ divider' \in [Voice -> Nat]
    BY <1>2, <1>4, Numbers DEF TypeOK
<1>6. triggered' \subseteq Voice
    BY <1>1 DEF HoldAgainst, TypeOK
<1>7. pulse' \in [period : Nat, onTime : Nat]
  <2>1. pulse.onTime \in Nat
      BY DEF TypeOK
  <2>2. PICK w \in Nat : pulse' = [pulse EXCEPT !.onTime = w]
      BY <1>1, <1>2, <2>1 DEF HoldAgainst, Larger
  <2> QED BY <2>2 DEF TypeOK
<1>8. scan' \in 0 .. N
    BY <1>1 DEF HoldAgainst, NextVoice, Voice
<1> QED BY <1>3, <1>5, <1>6, <1>7, <1>8

\* Every step of SigGen_task keeps the types.
LEMMA TaskType == TypeOK /\ Task => TypeOK'
<1> SUFFICES ASSUME TypeOK, Task PROVE TypeOK'
    OBVIOUS
<1>1. CASE Wake \/ NoVoice
    BY <1>1 DEF Wake, NoVoice, noteVars, TypeOK
<1>2. CASE Advance
  <2>1. PICK h \in Horizons, x \in [Voice -> 0 .. MaxNoise] :
            \E d \in {h} \cup DueTimes :
                AdvanceBy(d, x)
      BY Zenon, <1>2 DEF Advance
  <2>2. PICK d \in {h} \cup DueTimes :
            AdvanceBy(d, x)
      BY <2>1
  <2>3. d \in Nat
      BY Zenon, <2>2, Distance
  <2> QED BY <1>2, <2>2, <2>3, AdvanceType, Numbers DEF Advance, TypeOK
<1>3. CASE HoldoffStep
  <2>1. scan \in Voice
      BY <1>3, Numbers DEF HoldoffStep, TypeOK, Voice
  <2>2. CASE ~out[scan].on
    <3>1. scan' = scan + 1
          /\ UNCHANGED <<counter, divider, hpvCounter, pulse, triggered>>
          /\ UNCHANGED <<raw, out, pc>>
        BY Zenon, <1>3, <2>2 DEF HoldoffStep
    <3>2. scan' \in 0 .. N
        BY <2>1, <3>1, Numbers DEF Voice
    <3> QED BY <3>1, <3>2 DEF TypeOK
  <2>3. CASE out[scan].on
    <3>1. PICK x \in 0 .. MaxNoise : HoldAgainst(scan, x)
        BY <1>3, <2>3 DEF HoldoffStep
    <3> QED BY <1>3, <2>1, <3>1, HoldType DEF HoldoffStep, TypeOK
  <2> QED BY <2>2, <2>3
<1>4. CASE QueuePulse
    BY <1>4, Numbers DEF QueuePulse, noteVars, TypeOK
<1> QED BY <1>1, <1>2, <1>3, <1>4 DEF Task

\* One voice further, or back to the start of the list: what has been passed
\* stays clear of the pulse.
LEMMA HoldClear ==
    ASSUME TypeOK, ScannedClear, HoldoffStep
    PROVE  ScannedClear'
<1> SUFFICES ASSUME NEW v \in Voice, v \in 1 .. scan' - 1
             PROVE  Clears(v)'
    BY DEF ScannedClear
<1>1. scan \in Voice /\ scan \in Nat /\ v \in Nat
    BY Numbers DEF HoldoffStep, TypeOK, Voice
<1>2. pc = "scan" /\ out' = out
    BY DEF HoldoffStep
<1>3. CASE ~out[scan].on
  <2>1. scan' = scan + 1
        /\ UNCHANGED <<counter, divider, hpvCounter, pulse, triggered>>
      BY <1>3 DEF HoldoffStep
  <2>2. CASE v = scan
      BY <1>2, <1>3, <2>2 DEF Clears
  <2>3. CASE v # scan
    <3>1. Clears(v)
        BY <1>1, <1>2, <2>1, <2>3 DEF ScannedClear
    <3> QED BY <1>2, <2>1, <3>1 DEF Clears
  <2> QED BY <2>2, <2>3
<1>4. CASE out[scan].on
  <2>1. PICK x \in 0 .. MaxNoise : HoldAgainst(scan, x)
      BY <1>4 DEF HoldoffStep
  <2> DEFINE near   == counter[scan] < Hold
             fresh  == near /\ Merges(scan)
             echo   == divider[scan] = 0 /\ hpvCounter[scan] <= Hold
  <2>2. CASE scan' = 1
      BY <1>1, <2>2
  <2>3. CASE scan' # 1
    <3>1. ~fresh
        BY <2>1, <2>3, Zenon DEF HoldAgainst, NextVoice
    <3>2. /\ scan' = NextVoice(scan, echo /\ scan \notin triggered)
          /\ counter' = [counter EXCEPT ![scan] =
                 IF near THEN Noisy(scan, PulledForward(scan), x) ELSE @]
          /\ hpvCounter' = [hpvCounter EXCEPT ![scan] =
                 IF echo THEN Never ELSE @]
          /\ divider' = [divider EXCEPT ![scan] =
                 IF echo THEN Recount(scan) ELSE @]
          /\ triggered \subseteq triggered'
          /\ pulse' = [pulse EXCEPT !.onTime =
                 IF echo /\ scan \notin triggered
                 THEN Larger(pulse.onTime, out[scan].hpvWidth)
                 ELSE pulse.onTime]
      <4>1. scan' = NextVoice(scan, echo /\ scan \notin triggered)
          BY <2>1, <3>1 DEF HoldAgainst
      <4>2. counter' = [counter EXCEPT ![scan] =
                 IF near THEN Noisy(scan, PulledForward(scan), x) ELSE @]
          BY <2>1 DEF HoldAgainst
      <4>3. hpvCounter' = [hpvCounter EXCEPT ![scan] =
                 IF echo THEN Never ELSE @]
          BY <2>1, <3>1 DEF HoldAgainst
      <4>4. divider' = [divider EXCEPT ![scan] =
                 IF echo THEN Recount(scan) ELSE @]
          BY <2>1, <3>1 DEF HoldAgainst
      <4>5. triggered \subseteq triggered'
          BY <2>1 DEF HoldAgainst
      <4>6. pulse' = [pulse EXCEPT !.onTime =
                 IF echo /\ scan \notin triggered
                 THEN Larger(pulse.onTime, out[scan].hpvWidth)
                 ELSE pulse.onTime]
          BY <2>1, <3>1 DEF HoldAgainst
      <4> QED BY <4>1, <4>2, <4>3, <4>4, <4>5, <4>6
    <3>3. ~(echo /\ scan \notin triggered) /\ scan' = scan + 1
        BY <2>3, <3>2, Zenon DEF NextVoice
    <3>4. pulse'.onTime = pulse.onTime
        BY <3>2, <3>3 DEF TypeOK
    <3>5. CASE v = scan
      <4>1. counter'[v] < pulse.onTime + Offtime => v \in triggered'
          BY <1>1, <3>1, <3>2, <3>5 DEF Hold, Merges, TypeOK
      <4>2. ~(divider'[v] = 0 /\ hpvCounter'[v] <= pulse.onTime + Offtime)
        <5>1. CASE echo
          <6>1. divider'[v] = Recount(v) /\ Recount(v) # 0
              BY <1>1, <3>2, <3>5, <5>1, Numbers DEF TypeOK, Recount, HyperOn
          <6> QED BY <6>1
        <5>2. CASE ~echo
            BY <1>1, <3>2, <3>5, <5>2 DEF TypeOK, Hold
        <5> QED BY <5>1, <5>2
      <4> QED BY <3>4, <4>1, <4>2 DEF Clears
    <3>6. CASE v # scan
      <4>1. v \in 1 .. scan - 1
          BY <1>1, <3>3, <3>6
      <4>2. Clears(v)
          BY <1>2, <4>1 DEF ScannedClear
      <4>3. /\ counter'[v] = counter[v] /\ divider'[v] = divider[v]
            /\ hpvCounter'[v] = hpvCounter[v]
          BY <1>1, <3>2, <3>6 DEF TypeOK
      <4> QED BY <1>2, <3>2, <3>4, <4>2, <4>3 DEF Clears
    <3> QED BY <3>5, <3>6
  <2> QED BY <2>2, <2>3
<1> QED BY <1>3, <1>4

\* Every step keeps the invariant: notes change only while the task sleeps.
LEMMA NextInv == IInv /\ [Next]_vars => IInv'
<1> SUFFICES ASSUME IInv, [Next]_vars PROVE IInv'
    OBVIOUS
<1> USE DEF IInv
<1>1. CASE Task
  <2>1. TypeOK'
      BY <1>1, TaskType
  <2>2. ScannedClear'
    <3>1. CASE Wake \/ NoVoice
        BY <3>1 DEF Wake, NoVoice, ScannedClear
    <3>2. CASE Advance
        BY <3>2 DEF Advance, ScannedClear
    <3>3. CASE HoldoffStep
        BY <3>3, HoldClear
    <3>4. CASE QueuePulse
        BY <3>4 DEF QueuePulse, ScannedClear
    <3> QED BY <1>1, <3>1, <3>2, <3>3, <3>4 DEF Task
  <2> QED BY <2>1, <2>2
<1>2. CASE Notes
  <2>1. TypeOK'
      BY <1>2, NotesType
  <2>2. pc' = "sleep"
      BY <1>2 DEF Notes, KillAudio, SetVoice, SetHyper, VoiceOff, LimitVoice,
                  taskVars
  <2> QED BY <2>1, <2>2 DEF ScannedClear
<1>3. CASE UNCHANGED vars
    BY <1>3 DEF vars, TypeOK, ScannedClear, Clears
<1> QED BY <1>1, <1>2, <1>3 DEF Next

\* The invariant holds in every reachable state.
LEMMA Invariance == Spec => []IInv
<1>1. Init => IInv
    BY InitInv
<1>2. IInv /\ [Next]_vars => IInv'
    BY NextInv
<1> QED BY <1>1, <1>2, PTL DEF Spec

-----------------------------------------------------------------------------
\* The types hold, and with them the configASSERT that ends a turn: no counter
\* is ever negative, whatever the tones, the on-times and the delays are.
THEOREM TypeCorrect == Spec => []TypeOK
<1>1. IInv => TypeOK
    BY DEF IInv
<1> QED BY <1>1, Invariance, PTL

\* When a pulse is queued, no voice but voice 0 is left inside its holdoff time.
THEOREM HoldoffIsClear == Spec => []HoldoffBeyondFirst
<1>1. IInv => HoldoffBeyondFirst
  <2> SUFFICES ASSUME IInv, pc = "scan", scan = N, NEW v \in Voice \ {0}
               PROVE  Clears(v)
      BY DEF HoldoffBeyondFirst
  <2>1. v \in 1 .. scan - 1
      BY Numbers DEF Voice
  <2> QED BY <2>1 DEF IInv, ScannedClear
<1> QED BY <1>1, Invariance, PTL

\* A step of the task moves a voice that is heard by the time that goes by and
\* by whole periods.
LEMMA TaskInTune ==
    ASSUME TypeOK, Task,
           NEW v \in Voice, Audible(v), raw[v].noise = 0, pc # "sleep"
    PROVE  LET gone == IF pc = "fill" THEN pulse'.period ELSE 0
           IN /\ counter'[v] - counter[v] + (IF pc' = "scan" THEN gone ELSE 0)
                     \in {0, out[v].period}
              /\ pc = "fill" /\ pc' = "scan" => gone <= counter[v]
<1>1. counter[v] \in Nat /\ out[v].period \in Nat
    BY DEF TypeOK, Out
<1>2. CASE Wake \/ NoVoice \/ QueuePulse
  <2>1. counter' = counter /\ pc' # "scan"
      BY <1>2 DEF Wake, NoVoice, QueuePulse
  <2> QED BY <1>1, <2>1
<1>3. CASE Advance
  <2>1. PICK h \in Horizons, x \in [Voice -> 0 .. MaxNoise] :
            \E d \in {h} \cup DueTimes :
                Earliest(d) /\ d <= h /\ AdvanceBy(d, x)
      BY <1>3 DEF Advance
  <2>2. PICK d \in {h} \cup DueTimes :
            Earliest(d) /\ d <= h /\ AdvanceBy(d, x)
      BY <2>1
  <2>3. d \in Nat
      BY Zenon, <2>2, Distance
  <2>4. /\ pulse'.period = d /\ d <= counter[v]
        /\ counter'[v] - counter[v] + d \in {0, out[v].period}
      BY <2>2, <2>3, AdvanceInTune
  <2>5. pc = "fill" /\ pc' = "scan"
      BY <1>3 DEF Advance
  <2> QED BY <2>4, <2>5
<1>4. CASE HoldoffStep
  <2>1. pc = "scan" /\ pc' = "scan" /\ scan \in Voice
      BY <1>4, Numbers DEF HoldoffStep, TypeOK, Voice
  <2>2. counter'[v] \in {counter[v], counter[v] + out[v].period}
    <3>1. CASE ~out[scan].on
        BY <1>4, <3>1 DEF HoldoffStep
    <3>2. CASE out[scan].on
      <4>1. PICK x \in 0 .. MaxNoise : HoldAgainst(scan, x)
          BY <1>4, <3>2 DEF HoldoffStep
      <4>2. counter' = [counter EXCEPT ![scan] =
                IF counter[scan] < Hold THEN Noisy(scan, PulledForward(scan), x)
                ELSE @]
          BY <4>1 DEF HoldAgainst
      <4>3. Noisy(v, PulledForward(v), x) = counter[v] + out[v].period
        <5>1. PulledForward(v) \in Nat /\ x \in Nat
            BY <1>1, Numbers DEF PulledForward
        <5> QED BY <5>1, NoNoise DEF PulledForward
      <4>4. CASE v = scan
        <5>1. counter'[v] = IF counter[v] < Hold
                            THEN Noisy(v, PulledForward(v), x) ELSE counter[v]
            BY <2>1, <4>2, <4>4 DEF TypeOK
        <5> QED BY <4>3, <5>1
      <4>5. CASE v # scan
          BY <2>1, <4>2, <4>5 DEF TypeOK
      <4> QED BY <4>4, <4>5
    <3> QED BY <3>1, <3>2
  <2>3. counter'[v] - counter[v] + 0 \in {0, out[v].period}
      BY <1>1, <2>2
  <2> QED BY <2>1, <2>3
<1> QED BY <1>2, <1>3, <1>4 DEF Task

\* A voice keeps its pitch whatever the other voices do.
THEOREM PitchIsKept == Spec => InTune
<1> DEFINE Kept ==
        pc # "sleep" => \A v \in Voice :
        Audible(v) /\ raw[v].noise = 0 =>
            LET gone == IF pc = "fill" THEN pulse'.period ELSE 0
            IN /\ counter'[v] - counter[v] + (IF pc' = "scan" THEN gone ELSE 0)
                      \in {0, out[v].period}
               /\ pc = "fill" /\ pc' = "scan" => gone <= counter[v]
<1>1. IInv /\ [Next]_vars => [Kept]_vars
  <2> SUFFICES ASSUME IInv, Next PROVE Kept
      OBVIOUS
  <2>1. TypeOK
      BY DEF IInv
  <2>2. CASE Task
      BY <2>1, <2>2, TaskInTune
  <2>3. CASE Notes
      BY <2>3 DEF Notes, KillAudio, SetVoice, SetHyper, VoiceOff, LimitVoice
  <2> QED BY <2>2, <2>3 DEF Next
<1>2. []IInv /\ [][Next]_vars => [][Kept]_vars
    BY <1>1, PTL
<1> QED BY <1>2, Invariance, PTL DEF Spec, InTune
=============================================================================
