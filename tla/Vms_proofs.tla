----------------------------- MODULE Vms_proofs -----------------------------
(***************************************************************************)
(* Proofs about Vms, for every number of voices and consoles, every set of *)
(* keys and every program of blocks.                                       *)
(***************************************************************************)
EXTENDS Vms, SequenceTheorems, WellFoundedInduction, NaturalsInduction, TLAPS

\* What the parameter synth and the mode of the interrupter can be.
Modes == {"MIDI", "TR", "OFF"}

\* What a node of the block list holds.
BlockEntries == [voice : Voices, id : BlockIds, due : {"soon", "now", "never"}]

\* Where the MIDI task can be in a handler.
MidiPlaces == {"idle", "wait", "find", "claim", "free", "fill", "on", "clear", "add", "sweep", "reset"}

\* Where a console can be in a command.
ConsolePlaces == {"idle", "panic", "reset", "delay", "panic2", "reset2", "pw", "sweep", "mute", "mode", "tr"}

\* What all tasks share.
SharedTyped ==
    /\ mode \in Modes /\ synth \in Modes /\ sem \in {"free"} \cup Writers
    /\ queue \in BOOLEAN /\ pedal \in BOOLEAN /\ loud \in BOOLEAN
    /\ quiet \in BOOLEAN /\ byTr \in BOOLEAN

\* A voice's values, whatever their range.
VoiceStates == [factor : Int, target : {0, MaxVol}, current : Int, tuned : BOOLEAN]

\* What the voices of the signal generator play.
Sounds == [Voices -> {"off", "midi", "tr"}]

\* What a writer of a voice has decided on and not yet written.
Pendings == [Writers -> [voice : Voices, on : BOOLEAN, who : {"nobody", "midi"}]]

\* The voices on both sides of the signal generator.
VoicesTyped ==
    /\ key \in [Voices -> Notes \cup {NoNote}]
    /\ voice \in [Voices -> VoiceStates]
    /\ sound \in Sounds /\ pending \in Pendings

\* Every voice is somewhere in the order of their ages.
StartedTyped ==
    /\ started \in [1 .. NVoices -> Voices]
    /\ \A v \in Voices : \E i \in 1 .. NVoices : started[i] = v

\* The block list.
ListTyped == list \in Seq(BlockEntries)

\* The MIDI task sweeps over voices, or starts the blocks of a note.
MidiTyped ==
    /\ midi \in [at : MidiPlaces, todo : Seq(BlockIds) \cup SUBSET Voices, note : Notes \cup {NoNote},
                 voice : Voices, late : BOOLEAN]
    /\ midi.at = "sweep" => midi.todo \in SUBSET Voices
    /\ midi.at \in {"find", "claim", "free", "fill", "on", "clear", "add"} => midi.todo \in Seq(BlockIds)
    /\ midi.at \in {"claim", "free", "fill", "on", "clear", "add"} => midi.todo # <<>>

\* What a console is doing.
ConsoleStates == [at : ConsolePlaces, todo : (SUBSET Voices) \cup {<<>>, <<TRUE>>, <<FALSE>>},
                  goal : {"kill", "param", "tr"} \cup Modes]

\* A console that sweeps has voices left; one that sets the mode knows which.
ConsoleTyped ==
    /\ console \in [Consoles -> ConsoleStates]
    /\ \A c \in Consoles :
         /\ console[c].at = "sweep" => console[c].todo \in SUBSET Voices
         /\ console[c].at = "mode" => console[c].todo \in {<<TRUE>>, <<FALSE>>} /\ console[c].goal \in Modes

\* The three kinds of tasks.
TasksTyped ==
    /\ vms \in [at : {"delay", "want", "run"}, entry : Nat \ {0}]
    /\ MidiTyped /\ ConsoleTyped

\* All types, without the ranges of the values.
Typed == SharedTyped /\ VoicesTyped /\ StartedTyped /\ ListTyped /\ TasksTyped

\* Who is at work on the voices holds the semaphore.
Holds ==
    /\ vms.at = "run" => sem = "vms"
    /\ midi.at \in {"sweep", "free", "add"} => sem = "midi"
    /\ \A c \in Consoles : console[c].at = "sweep" => sem = c
    /\ \A t \in Writers : ~NotPending(t) => sem = t

-----------------------------------------------------------------------------
(* The operators *)

\* A set of natural numbers that is not empty has a least element.
LEMMA LeastElement ==
  ASSUME NEW S \in SUBSET Nat, S # {}
  PROVE  \E n \in S : \A m \in S : n <= m
<1> DEFINE below == OpToRel(<, Nat)
<1>1. \A m, n \in Nat : m < n => <<m, n>> \in below
  BY Zenon DEF OpToRel
<1>2. IsWellFoundedOn(below, Nat)
  BY NatLessThanWellFounded
<1> HIDE DEF below
<1>3. PICK n \in S : \A m \in S : ~ (<<m, n>> \in below)
  BY <1>2, WFMin, Zenon
<1>4. \A m \in S : ~ (m < n)
  BY <1>1, <1>3, Zenon
<1> QED BY <1>4

\* The least voice of a set of voices is one of them.
LEMMA LeastVoice ==
  ASSUME NEW S \in SUBSET Voices, S # {}
  PROVE  Min(S) \in S
<1>1. S \in SUBSET Nat
  BY VmsAssumption DEF Voices
<1>2. \E n \in S : \A m \in S : n <= m
  BY <1>1, LeastElement
<1> QED BY <1>2 DEF Min

\* An entry less.
LEMMA RemoveAtTyped ==
  ASSUME NEW S, NEW s \in Seq(S), NEW i \in 1 .. Len(s)
  PROVE  /\ RemoveAt(s, i) \in Seq(S) /\ Len(RemoveAt(s, i)) = Len(s) - 1
         /\ \A j \in 1 .. Len(s) - 1 : RemoveAt(s, i)[j] = IF j < i THEN s[j] ELSE s[j + 1]
<1> DEFINE n == Len(s)
           a == SubSeq(s, 1, i - 1)
           b == SubSeq(s, i + 1, n)
<1>1. n \in Nat /\ i \in 1 .. n /\ \A j \in 1 .. n : s[j] \in S
  BY ElementOfSeq, LenProperties
<1>2. /\ 1 \in Int /\ i - 1 \in Int /\ i + 1 \in Int /\ n \in Int
      /\ \A j \in 1 .. i - 1 : j \in 1 .. n
      /\ \A j \in i + 1 .. n : j \in 1 .. n
  BY <1>1
<1>3. /\ a \in Seq(S) /\ Len(a) = (IF 1 <= i - 1 THEN i - 1 - 1 + 1 ELSE 0)
      /\ \A j \in 1 .. i - 1 - 1 + 1 : a[j] = s[1 + j - 1]
  BY <1>1, <1>2, SubSeqProperties
<1>4. /\ b \in Seq(S) /\ Len(b) = (IF i + 1 <= n THEN n - (i + 1) + 1 ELSE 0)
      /\ \A j \in 1 .. n - (i + 1) + 1 : b[j] = s[i + 1 + j - 1]
  BY <1>1, <1>2, SubSeqProperties
<1>5. /\ a \in Seq(S) /\ b \in Seq(S) /\ Len(a) = i - 1 /\ Len(b) = n - i
      /\ \A j \in 1 .. i - 1 : a[j] = s[j]
      /\ \A j \in 1 .. n - i : b[j] = s[i + j]
  <2>1. Len(a) = i - 1 /\ Len(b) = n - i
    BY <1>1, <1>3, <1>4
  <2>2. ASSUME NEW j \in 1 .. i - 1 PROVE a[j] = s[j]
    <3>1. j \in 1 .. i - 1 - 1 + 1 /\ 1 + j - 1 = j
      BY <1>1
    <3> QED BY <3>1, <1>3
  <2>3. ASSUME NEW j \in 1 .. n - i PROVE b[j] = s[i + j]
    <3>1. j \in 1 .. n - (i + 1) + 1 /\ i + 1 + j - 1 = i + j
      BY <1>1
    <3> QED BY <3>1, <1>4
  <2> QED BY <1>3, <1>4, <2>1, <2>2, <2>3
<1>6. RemoveAt(s, i) = a \o b
  BY DEF RemoveAt
<1> HIDE DEF a, b, n
<1>7. /\ a \o b \in Seq(S) /\ Len(a \o b) = Len(a) + Len(b)
      /\ \A j \in 1 .. Len(a) + Len(b) : (a \o b)[j] = IF j <= Len(a) THEN a[j] ELSE b[j - Len(a)]
  BY <1>5, ConcatProperties
<1>8. Len(a) + Len(b) = n - 1
  BY <1>1, <1>5
<1>9. ASSUME NEW j \in 1 .. n - 1
      PROVE  (a \o b)[j] = IF j < i THEN s[j] ELSE s[j + 1]
  <2>1. CASE j < i
    <3>1. j \in 1 .. i - 1 /\ j <= Len(a) /\ j \in 1 .. Len(a) + Len(b)
      BY <1>1, <1>5, <1>8, <2>1
    <3> QED BY <2>1, <3>1, <1>5, <1>7
  <2>2. CASE ~(j < i)
    <3>1. /\ j - (i - 1) \in 1 .. n - i /\ ~(j <= Len(a)) /\ j \in 1 .. Len(a) + Len(b)
          /\ i + (j - (i - 1)) = j + 1 /\ j - Len(a) = j - (i - 1)
      BY <1>1, <1>5, <1>8, <2>2
    <3> QED BY <2>2, <3>1, <1>5, <1>7
  <2> QED BY <2>1, <2>2
<1> QED BY <1>6, <1>7, <1>8, <1>9 DEF n

\* The voice that is taken becomes the youngest, the order of the others stays.
LEMMA StartedMoves ==
  ASSUME StartedTyped, NEW v \in Voices, started' = Append(RemoveFirst(started, v), v)
  PROVE  StartedTyped'
<1> DEFINE I == {i \in 1 .. Len(started) : started[i] = v}
           k == Min(I)
           r == RemoveAt(started, k)
<1>1. /\ NVoices \in Nat \ {0} /\ started \in Seq(Voices) /\ Len(started) = NVoices
      /\ \A w \in Voices : \E i \in 1 .. NVoices : started[i] = w
  BY VmsAssumption DEF StartedTyped
<1>2. I # {} /\ I \in SUBSET Nat
  BY <1>1
<1>3. k \in 1 .. NVoices /\ started[k] = v
  <2>1. \E n \in I : \A m \in I : n <= m
    BY <1>2, LeastElement
  <2>2. k \in I
    BY <2>1 DEF Min
  <2> QED BY <2>2, <1>1
<1>4. RemoveFirst(started, v) = r
  BY <1>1, <1>2 DEF RemoveFirst, SelectInSeq
<1> HIDE DEF k
<1>5. /\ r \in Seq(Voices) /\ Len(r) = NVoices - 1
      /\ \A j \in 1 .. NVoices - 1 : r[j] = IF j < k THEN started[j] ELSE started[j + 1]
  BY <1>1, <1>3, RemoveAtTyped
<1> HIDE DEF r
<1>6. /\ started' \in Seq(Voices) /\ Len(started') = NVoices /\ started'[NVoices] = v
      /\ \A j \in 1 .. NVoices - 1 : started'[j] = r[j]
  BY <1>1, <1>4, <1>5, AppendProperties
<1>7. ASSUME NEW w \in Voices
      PROVE  \E i \in 1 .. NVoices : started'[i] = w
  <2>1. CASE w = v
    BY <2>1, <1>1, <1>6
  <2>2. CASE w # v
    <3>1. PICK i \in 1 .. NVoices : started[i] = w
      BY <1>1
    <3>2. CASE i < k
      <4>1. i \in 1 .. NVoices - 1
        BY <3>2, <1>1, <1>3
      <4> QED BY <3>1, <3>2, <4>1, <1>5, <1>6
    <3>3. CASE i > k
      <4>1. i - 1 \in 1 .. NVoices - 1 /\ ~(i - 1 < k) /\ (i - 1) + 1 = i /\ i - 1 \in 1 .. NVoices
        BY <3>3, <1>1, <1>3
      <4> QED BY <3>1, <4>1, <1>5, <1>6
    <3>4. i # k
      BY <3>1, <2>2, <1>3
    <3>5. i < k \/ i > k \/ i = k
      BY <1>1, <1>3
    <3> QED BY <3>2, <3>3, <3>4, <3>5
  <2> QED BY <2>1, <2>2
<1>8. started' \in [1 .. NVoices -> Voices]
  BY <1>6, LenProperties
<1> QED BY <1>7, <1>8 DEF StartedTyped

\* Induction over the natural numbers, with a set for the property.
LEMMA NatSetInduction ==
  ASSUME NEW S, 0 \in S, \A n \in Nat : n \in S => n + 1 \in S
  PROVE  Nat \subseteq S
<1> SUFFICES ASSUME Nat \ S # {} PROVE FALSE
  OBVIOUS
<1>1. PICK n \in Nat \ S : \A m \in Nat \ S : n <= m
  BY LeastElement
<1>2. n # 0 /\ n - 1 \in Nat /\ n - 1 \in S
  BY <1>1
<1> QED BY <1>1, <1>2

\* f[i] holds the entries of other voices than v among the first i of l.
Others(f, l, v) ==
    /\ f \in [0 .. Len(l) -> Seq(BlockEntries)]
    /\ f[0] = <<>>
    /\ \A i \in 1 .. Len(l) : f[i] = IF l[i].voice = v THEN f[i - 1] ELSE Append(f[i - 1], l[i])

\* There is such a function for every list, by induction over its length.
LEMMA OthersExists ==
  ASSUME NEW v
  PROVE  \A l \in Seq(BlockEntries) : \E f : Others(f, l, v)
<1> DEFINE S == {n \in Nat : \A l \in Seq(BlockEntries) : Len(l) = n => \E f : Others(f, l, v)}
<1>1. 0 \in S
  <2> SUFFICES ASSUME NEW l \in Seq(BlockEntries), Len(l) = 0 PROVE \E f : Others(f, l, v)
    OBVIOUS
  <2>1. <<>> \in Seq(BlockEntries)
    OBVIOUS
  <2>2. Others([i \in 0 .. 0 |-> <<>>], l, v)
    BY <2>1 DEF Others
  <2> QED BY <2>2
<1>2. ASSUME NEW n \in Nat, n \in S PROVE n + 1 \in S
  <2> SUFFICES ASSUME NEW l \in Seq(BlockEntries), Len(l) = n + 1 PROVE \E f : Others(f, l, v)
    BY <1>2
  <2> DEFINE r == SubSeq(l, 1, n)
             e == l[n + 1]
  <2>1. /\ r \in Seq(BlockEntries) /\ Len(r) = n /\ e \in BlockEntries
        /\ \A i \in 1 .. n : r[i] = l[i]
    BY <1>2
  <2> HIDE DEF r
  <2>2. PICK f : Others(f, r, v)
    BY <1>2, <2>1
  <2>3. /\ f \in [0 .. n -> Seq(BlockEntries)] /\ f[0] = <<>>
        /\ \A i \in 1 .. n : f[i] = IF l[i].voice = v THEN f[i - 1] ELSE Append(f[i - 1], l[i])
    BY <2>1, <2>2 DEF Others
  <2> DEFINE last == IF e.voice = v THEN f[n] ELSE Append(f[n], e)
             g == [i \in 0 .. n + 1 |-> IF i <= n THEN f[i] ELSE last]
  <2>4. f[n] \in Seq(BlockEntries)
    BY <2>3, <1>2
  <2>5. last \in Seq(BlockEntries)
    BY <2>1, <2>4, AppendProperties
  <2> HIDE DEF last
  <2>6. g \in [0 .. n + 1 -> Seq(BlockEntries)] /\ g[0] = <<>> /\ g[n + 1] = last
    <3>1. ASSUME NEW i \in 0 .. n + 1 PROVE g[i] \in Seq(BlockEntries)
      BY <2>3, <2>5, <1>2
    <3> QED BY <3>1, <2>3, <1>2
  <2>7. ASSUME NEW i \in 1 .. n + 1
        PROVE  g[i] = IF l[i].voice = v THEN g[i - 1] ELSE Append(g[i - 1], l[i])
    <3>1. CASE i \in 1 .. n
      <4>1. i \in 0 .. n + 1 /\ i - 1 \in 0 .. n + 1 /\ i <= n /\ i - 1 <= n
        BY <3>1, <1>2
      <4>2. g[i] = f[i] /\ g[i - 1] = f[i - 1]
        BY <4>1
      <4> QED BY <3>1, <4>2, <2>3
    <3>2. CASE i = n + 1
      <4>1. i - 1 = n /\ n \in 0 .. n + 1 /\ n <= n
        BY <3>2, <1>2
      <4>2. g[n] = f[n]
        BY <4>1
      <4> HIDE DEF g
      <4> QED BY <3>2, <4>1, <4>2, <2>6 DEF last
    <3> QED BY <3>1, <3>2, <1>2
  <2> HIDE DEF g
  <2>8. Others(g, l, v)
    BY <1>2, <2>6, <2>7 DEF Others
  <2> QED BY <2>8
<1> HIDE DEF S
<1>3. Nat \subseteq S
  BY <1>1, <1>2, NatSetInduction
<1> QED BY <1>3 DEF S

\* WithoutVoice is the last value of that function.
LEMMA WithoutVoiceIsLast ==
  ASSUME NEW l \in Seq(BlockEntries), NEW v
  PROVE  \E f : Others(f, l, v) /\ WithoutVoice(l, v) = f[Len(l)]
<1> DEFINE Defines(h) == h = [i \in 0 .. Len(l) |->
              IF i = 0 THEN <<>>
              ELSE IF l[i].voice = v THEN h[i - 1] ELSE Append(h[i - 1], l[i])]
           h0 == CHOOSE h : Defines(h)
<1>1. WithoutVoice(l, v) = h0[Len(l)]
  BY DEF WithoutVoice
<1>2. PICK f : Others(f, l, v)
  BY OthersExists
<1>5. Len(l) \in Nat
  OBVIOUS
<1>3. Defines(f)
  <2> DEFINE F(i) == IF i = 0 THEN <<>>
                     ELSE IF l[i].voice = v THEN f[i - 1] ELSE Append(f[i - 1], l[i])
  <2>1. ASSUME NEW i \in 0 .. Len(l) PROVE f[i] = F(i)
    <3>1. i = 0 \/ i \in 1 .. Len(l)
      BY <1>5
    <3>2. i \in 1 .. Len(l) => i # 0
      BY <1>5
    <3> QED BY <3>1, <3>2, <1>2 DEF Others
  <2>2. f = [i \in 0 .. Len(l) |-> f[i]]
    BY <1>2 DEF Others
  <2> HIDE DEF F
  <2>3. f = [i \in 0 .. Len(l) |-> F(i)]
    BY <2>1, <2>2
  <2> QED BY <2>3 DEF F
<1>4. Defines(h0)
  BY <1>3, Zenon
<1> HIDE DEF h0
<1>6. h0[0] = <<>> /\ \A i \in 1 .. Len(l) :
        h0[i] = IF l[i].voice = v THEN h0[i - 1] ELSE Append(h0[i - 1], l[i])
  <2> DEFINE H(i) == IF i = 0 THEN <<>>
                     ELSE IF l[i].voice = v THEN h0[i - 1] ELSE Append(h0[i - 1], l[i])
  <2>1. h0 = [i \in 0 .. Len(l) |-> H(i)]
    BY <1>4
  <2> HIDE DEF H
  <2>2. \A i \in 0 .. Len(l) : h0[i] = H(i)
    BY <2>1
  <2>3. 0 \in 0 .. Len(l) /\ \A i \in 1 .. Len(l) : i \in 0 .. Len(l) /\ i # 0
    BY <1>5
  <2> QED BY <2>2, <2>3 DEF H
<1> DEFINE S == {n \in Nat : n <= Len(l) => f[n] = h0[n]}
<1>7. 0 \in S
  BY <1>2, <1>6 DEF Others
<1>8. ASSUME NEW n \in Nat, n \in S PROVE n + 1 \in S
  <2> SUFFICES ASSUME n + 1 <= Len(l) PROVE f[n + 1] = h0[n + 1]
    OBVIOUS
  <2>1. n + 1 \in 1 .. Len(l) /\ (n + 1) - 1 = n /\ f[n] = h0[n]
    BY <1>8, <1>5
  <2> QED BY <2>1, <1>2, <1>6 DEF Others
<1> HIDE DEF S
<1>9. Nat \subseteq S
  BY <1>7, <1>8, NatSetInduction
<1>10. f[Len(l)] = h0[Len(l)]
  BY <1>5, <1>9 DEF S
<1> QED BY <1>1, <1>2, <1>10

\* What is left of the list: no entry of the voice, and every other one.
LEMMA WithoutVoiceTyped ==
  ASSUME NEW l \in Seq(BlockEntries), NEW v
  PROVE  WithoutVoice(l, v) \in Seq(BlockEntries)
<1>1. PICK f : Others(f, l, v) /\ WithoutVoice(l, v) = f[Len(l)]
  BY WithoutVoiceIsLast
<1>2. Len(l) \in 0 .. Len(l)
  OBVIOUS
<1> QED BY <1>1, <1>2 DEF Others

\* The voices a note may take.
LEMMA NextVoicesTyped ==
  ASSUME StartedTyped
  PROVE  NextVoices \subseteq Voices
<1>1. NVoices \in Nat \ {0} /\ 0 \in Voices /\ 1 \in 1 .. NVoices
  BY VmsAssumption DEF Voices
<1>2. started[1] \in Voices
  BY <1>1 DEF StartedTyped
<1>3. {v \in Voices : ~Active(v)} # {} => Min({v \in Voices : ~Active(v)}) \in Voices
  BY LeastVoice
<1> QED BY <1>1, <1>2, <1>3 DEF NextVoices

\* The factors are natural numbers.
LEMMA UnityTyped == Unity \in Nat
BY DEF Unity

\* The blocks of the defaults and of the flash.
LEMMA BlocksTyped ==
  ASSUME NEW id \in BlockIds
  PROVE  /\ Block(id).type \in BlockTypes /\ Block(id).target \in {"volume", "frequency"}
         /\ Block(id).goal \in 0 .. Unity /\ Block(id).p1 \in Int
         /\ Block(id).next \in Seq(BlockIds) /\ Block(id).off \in BlockIds \cup {"none"}
         /\ Block(id).normal \in BOOLEAN /\ Block(id).persistent \in BOOLEAN
<1>1. DOMAIN DefaultBlocks = {"attack", "sustain", "release"}
  BY DEF DefaultBlocks
<1>2. "sustain" \in BlockIds /\ "release" \in BlockIds
  BY <1>1 DEF BlockIds
<1>3. <<>> \in Seq(BlockIds) /\ <<"sustain">> \in Seq(BlockIds)
  BY <1>2
<1>4. 0 \in 0 .. Unity /\ Unity \in 0 .. Unity /\ 0 \in Int
  BY UnityTyped
<1>5. CASE id = "attack"
  <2>1. Block(id) = [type |-> "JUMP", target |-> "volume", goal |-> Unity, p1 |-> 0,
                     next |-> <<"sustain">>, off |-> "release", normal |-> TRUE, persistent |-> FALSE]
    BY <1>1, <1>5 DEF Block, DefaultBlocks
  <2> QED BY <2>1, <1>2, <1>3, <1>4 DEF BlockTypes
<1>6. CASE id = "sustain"
  <2>1. Block(id) = [type |-> "JUMP", target |-> "volume", goal |-> Unity, p1 |-> 0,
                     next |-> <<>>, off |-> "release", normal |-> TRUE, persistent |-> TRUE]
    BY <1>1, <1>6 DEF Block, DefaultBlocks
  <2> QED BY <2>1, <1>2, <1>3, <1>4 DEF BlockTypes
<1>7. CASE id = "release"
  <2>1. Block(id) = [type |-> "JUMP", target |-> "volume", goal |-> 0, p1 |-> 0,
                     next |-> <<>>, off |-> "none", normal |-> FALSE, persistent |-> FALSE]
    BY <1>1, <1>7 DEF Block, DefaultBlocks
  <2> QED BY <2>1, <1>2, <1>3, <1>4 DEF BlockTypes
<1>8. CASE id \notin DOMAIN DefaultBlocks
  <2>1. Block(id) = UserBlocks[id] /\ id \in DOMAIN UserBlocks
    BY <1>8 DEF Block, BlockIds
  <2> QED BY <2>1, VmsAssumption
<1> QED BY <1>1, <1>5, <1>6, <1>7, <1>8

\* A block has a whole number for every one it is given.
LEMMA EvaluateTyped ==
  ASSUME NEW id \in BlockIds, NEW f \in Int
  PROVE  Evaluate(Block(id), f) \in Int
<1> DEFINE b == Block(id)
<1>1. b.goal \in Int /\ b.p1 \in Int
  <2>1. b.goal \in 0 .. Unity /\ Unity \in Int
    BY BlocksTyped, UnityTyped
  <2> QED BY <2>1, BlocksTyped
<1> HIDE DEF b
<1>2. ASSUME NEW n \in Int PROVE n \div 1000 \in Int
  OBVIOUS
<1>3. Grow(b, f) \in Int
  <2>1. ((IF b.p1 > 1000 /\ f < 1000 THEN 1000 ELSE f) * b.p1) \in Int
    BY <1>1
  <2> QED BY <2>1, <1>2 DEF Grow
<1>4. Approach(b, f) \in Int
  <2>1. (Abs(b.goal - f) * b.p1) \in Int
    BY <1>1 DEF Abs
  <2>2. (Abs(b.goal - f) * b.p1) \div 1000 \in Int
    BY <2>1, <1>2
  <2> QED BY <2>2, <1>1 DEF Approach
<1>5. Evaluate(b, f) \in Int
  BY <1>1, <1>3, <1>4 DEF Evaluate
<1> QED BY <1>5 DEF b

-----------------------------------------------------------------------------
(* Every step keeps the types *)

\* What is not touched keeps its type.
LEMMA PartsStay ==
  /\ SharedTyped /\ UNCHANGED <<mode, synth, sem, queue, pedal, loud, quiet, byTr>> => SharedTyped'
  /\ VoicesTyped /\ UNCHANGED <<key, voice, sound, pending>> => VoicesTyped'
  /\ StartedTyped /\ UNCHANGED started => StartedTyped'
  /\ ListTyped /\ UNCHANGED list => ListTyped'
  /\ MidiTyped /\ UNCHANGED midi => MidiTyped'
  /\ ConsoleTyped /\ UNCHANGED console => ConsoleTyped'
<1>1. SharedTyped /\ UNCHANGED <<mode, synth, sem, queue, pedal, loud, quiet, byTr>> => SharedTyped'
  BY DEF SharedTyped
<1>2. VoicesTyped /\ UNCHANGED <<key, voice, sound, pending>> => VoicesTyped'
  BY DEF VoicesTyped
<1>3. StartedTyped /\ UNCHANGED started => StartedTyped'
  BY DEF StartedTyped
<1>4. ListTyped /\ UNCHANGED list => ListTyped'
  BY DEF ListTyped
<1>5. MidiTyped /\ UNCHANGED midi => MidiTyped'
  BY DEF MidiTyped
<1>6. ConsoleTyped /\ UNCHANGED console => ConsoleTyped'
  BY DEF ConsoleTyped
<1> QED BY <1>1, <1>2, <1>3, <1>4, <1>5, <1>6

\* What is common to all the steps that write a voice.
LEMMA WriteTyped ==
  ASSUME VoicesTyped, NEW t \in Writers, Write(t)
  PROVE  sound' \in Sounds /\ pending' \in Pendings
<1>1. 0 \in Voices
  BY VmsAssumption DEF Voices
<1>2. sound' \in Sounds
  <2>1. sound \in Sounds
    BY DEF VoicesTyped
  <2>2. CASE NotPending(t)
    BY <2>1, <2>2 DEF Write
  <2>3. CASE ~NotPending(t)
    <3>1. sound' = [sound EXCEPT ![pending[t].voice] = IF pending[t].on THEN "midi" ELSE "off"]
      BY <2>3 DEF Write
    <3>2. (IF pending[t].on THEN "midi" ELSE "off") \in {"off", "midi", "tr"}
      OBVIOUS
    <3> QED BY <2>1, <3>1, <3>2 DEF Sounds
  <2> QED BY <2>2, <2>3
<1>3. pending' \in Pendings
  BY <1>1 DEF VoicesTyped, Write, Pendings, NoWrite
<1> QED BY <1>2, <1>3

\* A write that is decided concerns a voice.
LEMMA SetVoiceTyped ==
  ASSUME VoicesTyped, NEW t \in Writers, NEW v \in Voices, NEW on \in BOOLEAN, SetVoice(t, v, on)
  PROVE  pending' \in Pendings
BY DEF VoicesTyped, SetVoice, Pendings

\* A volume is a whole number.
LEMMA VolumeTyped ==
  ASSUME NEW f \in Int, NEW target \in {0, MaxVol}
  PROVE  Volume(f, target) \in Int
<1>1. target \in Int
  BY DEF MaxVol
<1>2. f \div 16 \in Int
  OBVIOUS
<1>3. (f \div 16) * target \in Int
  BY <1>1, <1>2
<1>4. ((f \div 16) * target) \div 62500 \in Int
  BY <1>3
<1> QED BY <1>1, <1>4 DEF Volume

\* A block sets the volume or the frequency of its voice.
LEMMA SetKnownValueTyped ==
  ASSUME VoicesTyped, NEW t \in Writers, NEW v \in Voices, NEW b, NEW f \in Int,
         SetKnownValue(t, v, b, f)
  PROVE  voice' \in [Voices -> VoiceStates] /\ pending' \in Pendings
<1>1. voice \in [Voices -> VoiceStates] /\ voice[v] \in VoiceStates
  BY DEF VoicesTyped
<1>2. CASE b.target = "volume"
  <2>1. /\ voice' = [voice EXCEPT ![v].factor = f, ![v].current = Volume(f, voice[v].target)]
        /\ SetVoice(t, v, Heard(voice'[v]))
    BY <1>2 DEF SetKnownValue
  <2>2. Volume(f, voice[v].target) \in Int
    BY <1>1, VolumeTyped DEF VoiceStates
  <2>3. Heard(voice'[v]) \in BOOLEAN
    BY DEF Heard
  <2> QED BY <1>1, <2>1, <2>2, <2>3, SetVoiceTyped DEF VoiceStates
<1>3. CASE b.target # "volume"
  <2>1. /\ voice' = [voice EXCEPT ![v].tuned = TRUE]
        /\ SetVoice(t, v, voice[v].current # 0)
    BY <1>3 DEF SetKnownValue
  <2>2. (voice[v].current # 0) \in BOOLEAN
    OBVIOUS
  <2> QED BY <1>1, <2>1, <2>2, SetVoiceTyped DEF VoiceStates
<1> QED BY <1>2, <1>3

\* The MIDI task is back at its queue.
LEMMA MidiWaitsTyped ==
  ASSUME MidiWaits
  PROVE  MidiTyped'
<1>1. 0 \in Voices /\ <<>> \in Seq(BlockIds)
  BY VmsAssumption DEF Voices
<1> QED BY <1>1 DEF MidiWaits, MidiTyped, MidiPlaces

\* A console goes on, or is done.
LEMMA GoesTyped ==
  ASSUME ConsoleTyped, NEW c \in Consoles, NEW at \in ConsolePlaces \ {"sweep", "mode"}, Goes(c, at)
  PROVE  ConsoleTyped'
BY DEF ConsoleTyped, ConsoleStates, Goes

\* It has nothing left to do then.
LEMMA RestsTyped ==
  ASSUME ConsoleTyped, NEW c \in Consoles, Rests(c)
  PROVE  ConsoleTyped'
<1>1. [at |-> "idle", todo |-> <<>>, goal |-> "OFF"] \in ConsoleStates
  BY DEF ConsoleStates, ConsolePlaces, Modes
<1>2. /\ console'[c].at = "idle" /\ \A d \in Consoles : d # c => console'[d] = console[d]
      /\ console' \in [Consoles -> ConsoleStates]
  BY <1>1 DEF ConsoleTyped, Rests
<1> QED BY <1>2 DEF ConsoleTyped

\* Whatever a console goes on with.
LEMMA BecomesTyped ==
  ASSUME ConsoleTyped, NEW c \in Consoles, NEW e \in ConsoleStates, console' = [console EXCEPT ![c] = e],
         e.at = "sweep" => e.todo \in SUBSET Voices,
         e.at = "mode" => e.todo \in {<<TRUE>>, <<FALSE>>} /\ e.goal \in Modes
  PROVE  ConsoleTyped'
BY DEF ConsoleTyped

\* Nothing is left of the notes.
LEMMA PanicTyped ==
  ASSUME VoicesTyped, PanicHandler
  PROVE  ListTyped' /\ key' \in [Voices -> Notes \cup {NoNote}] /\ voice' \in [Voices -> VoiceStates]
<1>1. ListTyped'
  <2>1. <<>> \in Seq(BlockEntries)
    OBVIOUS
  <2> QED BY <2>1 DEF PanicHandler, ListTyped
<1>2. ASSUME NEW v \in Voices
      PROVE  [voice[v] EXCEPT !.current = 0, !.tuned = FALSE] \in VoiceStates
  <2>1. voice[v] \in VoiceStates /\ 0 \in Int
    BY DEF VoicesTyped
  <2> QED BY <2>1 DEF VoiceStates
<1>3. NoNote \in Notes \cup {NoNote}
  OBVIOUS
<1> QED BY <1>1, <1>2, <1>3 DEF PanicHandler

\* The entries that follow a block are well formed.
LEMMA BlockEntriesTyped ==
  ASSUME ListTyped, NEW i \in 1 .. Len(list), NEW b, b = Block(list[i].id)
  PROVE  /\ list[i].voice \in Voices /\ list[i].id \in BlockIds
         /\ OffBlock(i, b) \in Seq(BlockEntries) /\ NextBlock(i, b) \in Seq(BlockEntries)
<1>1. list \in Seq(BlockEntries) /\ list[i] \in BlockEntries /\ list[i].voice \in Voices
      /\ list[i].id \in BlockIds
  <2>1. list \in Seq(BlockEntries) /\ list[i] \in BlockEntries
    BY ElementOfSeq DEF ListTyped
  <2> QED BY <2>1 DEF BlockEntries
<1>2. RemoveAt(list, i) \in Seq(BlockEntries)
  BY <1>1, RemoveAtTyped
<1>3. \A id \in BlockIds : Entry(list[i].voice, id) \in BlockEntries
  BY <1>1 DEF Entry, BlockEntries
<1>4. b.next \in Seq(BlockIds) /\ b.off \in BlockIds \cup {"none"}
  BY <1>1, BlocksTyped
<1>5. OffEntry(list[i].voice, b) \in Seq(BlockEntries)
  <2>1. CASE b.off = "none"
    BY <2>1 DEF OffEntry
  <2>2. CASE b.off # "none"
    <3>1. Entry(list[i].voice, b.off) \in BlockEntries
      BY <1>3, <1>4, <2>2
    <3> QED BY <2>2, <3>1 DEF OffEntry
  <2> QED BY <2>1, <2>2
<1>6. NextEntries(list[i].voice, b) \in Seq(BlockEntries)
  <2>1. DOMAIN b.next = 1 .. Len(b.next) /\ Len(b.next) \in Nat /\ \A j \in DOMAIN b.next : b.next[j] \in BlockIds
    BY <1>4, LenProperties, ElementOfSeq
  <2>2. NextEntries(list[i].voice, b) \in [1 .. Len(b.next) -> BlockEntries]
    BY <1>3, <2>1 DEF NextEntries
  <2> QED BY <2>1, <2>2, SeqDef
<1>7. [list EXCEPT ![i].due = "soon"] \in Seq(BlockEntries)
  <2>1. [list[i] EXCEPT !.due = "soon"] \in BlockEntries
    BY <1>1 DEF BlockEntries
  <2>2. [list EXCEPT ![i] = [list[i] EXCEPT !.due = "soon"]] \in Seq(BlockEntries)
    BY <1>1, <2>1, ExceptSeq
  <2> QED BY <2>2
<1>8. OffBlock(i, b) \in Seq(BlockEntries)
  BY <1>2, <1>5, ConcatProperties DEF OffBlock
<1>9. NextBlock(i, b) \in Seq(BlockEntries)
  BY <1>2, <1>6, <1>7, ConcatProperties DEF NextBlock
<1> QED BY <1>1, <1>8, <1>9

\* The VMS task.
LEMMA VmsTaskTyped ==
  ASSUME Typed, VmsTick \/ Wrap \/ VmsTake \/ VmsBlock \/ VmsDone
  PROVE  Typed'
<1> USE DEF Typed, TasksTyped, data, chan, tasks, hist
<1>1. CASE VmsTick \/ Wrap
  <2>1. UNCHANGED <<mode, synth, sem, queue, key, voice, started, sound, pedal, loud, midi, console,
                    pending, quiet, byTr>>
    BY <1>1 DEF VmsTick, Wrap
  <2>2. vms' \in [at : {"delay", "want", "run"}, entry : Nat \ {0}]
    BY <1>1 DEF VmsTick, Wrap
  <2>3. ListTyped'
    <3>1. list \in Seq(BlockEntries) /\ Len(list) \in Nat /\ DOMAIN list = 1 .. Len(list)
          /\ \A i \in 1 .. Len(list) : list[i] \in BlockEntries
      BY LenProperties, ElementOfSeq DEF ListTyped
    <3>2. \A e \in BlockEntries : /\ [e EXCEPT !.due = "now"] \in BlockEntries
                                  /\ [e EXCEPT !.due = "never"] \in BlockEntries
      BY DEF BlockEntries
    <3>3. list' \in [1 .. Len(list) -> BlockEntries]
      <4>1. CASE VmsTick
        BY <4>1, <3>1, <3>2 DEF VmsTick
      <4>2. CASE Wrap
        BY <4>2, <3>1, <3>2 DEF Wrap
      <4> QED BY <1>1, <4>1, <4>2
    <3> QED BY <3>1, <3>3, SeqDef DEF ListTyped
  <2> QED BY <2>1, <2>2, <2>3, PartsStay
<1>2. CASE VmsTake
  <2>1. SharedTyped'
    BY <1>2 DEF VmsTake, SharedTyped, Writers
  <2>2. vms' \in [at : {"delay", "want", "run"}, entry : Nat \ {0}]
    BY <1>2 DEF VmsTake
  <2> QED BY <1>2, <2>1, <2>2, PartsStay DEF VmsTake
<1>3. CASE VmsBlock
  <2> DEFINE i == vms.entry
             v == list[i].voice
             b == Block(list[i].id)
             f == Evaluate(b, voice[v].factor)
  <2>1. i \in 1 .. Len(list) /\ v \in Voices /\ list[i].id \in BlockIds
        /\ OffBlock(i, b) \in Seq(BlockEntries) /\ NextBlock(i, b) \in Seq(BlockEntries)
    <3>1. i \in 1 .. Len(list)
      <4>1. i \in Nat \ {0} /\ i <= Len(list) /\ Len(list) \in Nat
        BY <1>3 DEF VmsBlock, ListTyped
      <4> QED BY <4>1
    <3> QED BY <3>1, BlockEntriesTyped
  <2>2. f \in Int /\ b.goal \in Int
    <3>1. voice[v].factor \in Int
      BY <2>1 DEF VoicesTyped, VoiceStates
    <3>2. b.goal \in 0 .. Unity /\ Unity \in Nat
      BY <2>1, BlocksTyped, UnityTyped
    <3>3. f \in Int
      BY <2>1, <3>1, EvaluateTyped
    <3>4. b.goal \in Int
      BY <3>2
    <3> QED BY <3>3, <3>4
  <2>3. [list EXCEPT ![i].due = "soon"] \in Seq(BlockEntries)
    <3>1. list \in Seq(BlockEntries) /\ list[i] \in BlockEntries
      BY <2>1, ElementOfSeq DEF ListTyped
    <3>2. [list[i] EXCEPT !.due = "soon"] \in BlockEntries
      BY <3>1 DEF BlockEntries
    <3>3. [list EXCEPT ![i] = [list[i] EXCEPT !.due = "soon"]] \in Seq(BlockEntries)
      BY <2>1, <3>1, <3>2, ExceptSeq
    <3> QED BY <3>3
  <2>4. /\ vms' = [vms EXCEPT !.entry = i + 1] \/ vms' = vms
        /\ \/ UNCHANGED <<voice, pending>>
           \/ SetKnownValue("vms", v, b, b.goal)
           \/ SetKnownValue("vms", v, b, f)
        /\ \/ list' = list \/ list' = OffBlock(i, b) \/ list' = NextBlock(i, b)
           \/ list' = [list EXCEPT ![i].due = "soon"]
        /\ UNCHANGED <<mode, synth, sem, queue, key, started, sound, pedal, loud, midi, console, quiet, byTr>>
    BY <1>3 DEF VmsBlock
  <2>5. vms' \in [at : {"delay", "want", "run"}, entry : Nat \ {0}]
    BY <2>1, <2>4
  <2>6. voice' \in [Voices -> VoiceStates] /\ pending' \in Pendings
    BY <2>1, <2>2, <2>4, SetKnownValueTyped DEF VoicesTyped, Writers
  <2>7. ListTyped'
    BY <2>1, <2>3, <2>4 DEF ListTyped
  <2>8. VoicesTyped'
    BY <2>4, <2>6 DEF VoicesTyped
  <2> QED BY <2>4, <2>5, <2>7, <2>8, PartsStay
<1>4. CASE VmsDone
  <2>1. sound' \in Sounds /\ pending' \in Pendings
    BY <1>4, WriteTyped DEF VmsDone, Writers
  <2>2. VoicesTyped'
    BY <1>4, <2>1 DEF VmsDone, VoicesTyped
  <2>3. SharedTyped'
    BY <1>4 DEF VmsDone, SharedTyped
  <2>4. vms' \in [at : {"delay", "want", "run"}, entry : Nat \ {0}]
    BY <1>4 DEF VmsDone
  <2> QED BY <1>4, <2>2, <2>3, <2>4, PartsStay DEF VmsDone
<1> QED BY <1>1, <1>2, <1>3, <1>4

\* Somebody writes a voice.
LEMMA WriteVoiceTyped ==
  ASSUME Typed, NEW t \in Writers, WriteVoice(t)
  PROVE  Typed'
<1>1. sound' \in Sounds /\ pending' \in Pendings
  BY WriteTyped DEF WriteVoice, Typed
<1>2. VoicesTyped'
  BY <1>1 DEF WriteVoice, Typed, VoicesTyped, data
<1> QED BY <1>2, PartsStay DEF WriteVoice, Typed, TasksTyped, data, chan, tasks, hist

\* The MIDI task's place alone.
LEMMA MidiGoesTyped ==
  ASSUME MidiTyped, NEW at \in MidiPlaces, MidiGoes(at),
         at = "sweep" => midi.todo \in SUBSET Voices,
         at \in {"find", "claim", "free", "fill", "on", "clear", "add"} => midi.todo \in Seq(BlockIds),
         at \in {"claim", "free", "fill", "on", "clear", "add"} => midi.todo # <<>>
  PROVE  MidiTyped'
BY DEF MidiTyped, MidiGoes

\* The MIDI task between two messages, and what it does with one that starts no note.
LEMMA MessageTyped ==
  ASSUME Typed, MidiPoll \/ NoteOff \/ Pedal \/ ChannelVolume \/ Bend \/ BendVoice \/ BendDone
                \/ AllOff \/ AllOffDone
  PROVE  Typed'
<1> USE DEF Typed, TasksTyped, data, chan, tasks, hist
<1>1. CASE MidiPoll
  <2>1. MidiTyped'
    BY <1>1, MidiGoesTyped DEF MidiPoll, MidiAt, MidiPlaces
  <2> QED BY <1>1, <2>1, PartsStay DEF MidiPoll
<1>2. CASE NoteOff
  <2>1. MidiTyped'
    BY <1>2, MidiWaitsTyped DEF NoteOff
  <2>2. SharedTyped'
    BY <1>2 DEF NoteOff, Receive, SharedTyped
  <2>3. VoicesTyped'
    BY <1>2 DEF NoteOff, VoicesTyped
  <2> QED BY <1>2, <2>1, <2>2, <2>3, PartsStay DEF NoteOff
<1>3. CASE Pedal
  <2>1. MidiTyped'
    BY <1>3, MidiWaitsTyped DEF Pedal
  <2>2. SharedTyped'
    BY <1>3 DEF Pedal, Receive, SharedTyped
  <2> QED BY <1>3, <2>1, <2>2, PartsStay DEF Pedal
<1>4. CASE ChannelVolume
  <2>1. MidiTyped'
    BY <1>4, MidiWaitsTyped DEF ChannelVolume
  <2>2. SharedTyped'
    BY <1>4 DEF ChannelVolume, Receive, SharedTyped
  <2>3. VoicesTyped'
    <3>1. \A w \in VoiceStates : \A volume \in {0, MaxVol} : [w EXCEPT !.target = volume] \in VoiceStates
      BY DEF VoiceStates
    <3>2. voice' \in [Voices -> VoiceStates]
      BY <1>4, <3>1 DEF ChannelVolume, VoicesTyped
    <3> QED BY <1>4, <3>2 DEF ChannelVolume, VoicesTyped
  <2> QED BY <1>4, <2>1, <2>2, <2>3, PartsStay DEF ChannelVolume
<1>5. CASE Bend
  <2>1. MidiTyped'
    BY <1>5 DEF Bend, Receive, MidiAt, KeysOn, MidiTyped, MidiPlaces
  <2>2. SharedTyped'
    BY <1>5 DEF Bend, Receive, SharedTyped, Writers
  <2> QED BY <1>5, <2>1, <2>2, PartsStay DEF Bend
<1>6. CASE BendVoice
  <2> DEFINE v == Min(midi.todo)
  <2>1. midi.todo \in SUBSET Voices /\ v \in Voices
    BY <1>6, LeastVoice DEF BendVoice, MidiAt, MidiTyped
  <2> HIDE DEF v
  <2>2. /\ voice' = [voice EXCEPT ![v].tuned = TRUE]
        /\ SetVoice("midi", v, voice[v].current # 0)
        /\ midi' = [midi EXCEPT !.todo = @ \ {v}] /\ midi.at = "sweep"
        /\ UNCHANGED <<mode, synth, sem, queue, key, started, sound, list, pedal, loud, vms, console,
                       quiet, byTr>>
    BY <1>6 DEF BendVoice, MidiAt, v
  <2>3. MidiTyped'
    BY <2>1, <2>2 DEF MidiTyped
  <2>4. pending' \in Pendings
    <3>1. (voice[v].current # 0) \in BOOLEAN /\ "midi" \in Writers
      BY DEF Writers
    <3> QED BY <2>1, <2>2, <3>1, SetVoiceTyped
  <2>5. voice' \in [Voices -> VoiceStates]
    BY <2>1, <2>2 DEF VoicesTyped, VoiceStates
  <2>6. VoicesTyped'
    BY <2>2, <2>4, <2>5 DEF VoicesTyped
  <2> QED BY <2>2, <2>3, <2>6, PartsStay
<1>7. CASE BendDone
  <2>1. MidiTyped'
    BY <1>7, MidiWaitsTyped DEF BendDone
  <2>2. SharedTyped'
    BY <1>7 DEF BendDone, SharedTyped
  <2>3. sound' \in Sounds /\ pending' \in Pendings
    BY <1>7, WriteTyped DEF BendDone, Writers
  <2>4. VoicesTyped'
    BY <1>7, <2>3 DEF BendDone, VoicesTyped
  <2> QED BY <1>7, <2>1, <2>2, <2>4, PartsStay DEF BendDone
<1>8. CASE AllOff
  <2>1. MidiTyped'
    BY <1>8, MidiGoesTyped DEF AllOff, MidiPlaces
  <2>2. SharedTyped'
    BY <1>8 DEF AllOff, Receive, SharedTyped
  <2>3. ListTyped' /\ key' \in [Voices -> Notes \cup {NoNote}] /\ voice' \in [Voices -> VoiceStates]
    BY <1>8, PanicTyped DEF AllOff
  <2>4. VoicesTyped'
    BY <1>8, <2>3 DEF AllOff, VoicesTyped
  <2> QED BY <1>8, <2>1, <2>2, <2>3, <2>4, PartsStay DEF AllOff
<1>9. CASE AllOffDone
  <2>1. MidiTyped'
    BY <1>9, MidiWaitsTyped DEF AllOffDone
  <2>2. SharedTyped'
    BY <1>9 DEF AllOffDone, ResetMidi, SharedTyped
  <2>3. VoicesTyped'
    BY <1>9 DEF AllOffDone, ResetMidi, KillAudio, VoicesTyped, Sounds
  <2> QED BY <1>9, <2>1, <2>2, <2>3, PartsStay DEF AllOffDone
<1> QED BY <1>1, <1>2, <1>3, <1>4, <1>5, <1>6, <1>7, <1>8, <1>9

\* The MIDI task starts a note.
LEMMA NoteTyped ==
  ASSUME Typed, NoteOn \/ NoteFind \/ NoteClaim \/ NoteFree \/ NoteFill \/ NoteSwitch \/ NoteClear \/ NoteAdd
  PROVE  Typed'
<1> USE DEF Typed, TasksTyped, data, chan, tasks, hist
<1>0. midi.voice \in Voices /\ midi.note \in Notes \cup {NoNote} /\ "midi" \in Writers
  BY DEF MidiTyped, Writers
<1>1. CASE NoteOn
  <2>1. MidiTyped'
    BY <1>1, VmsAssumption DEF NoteOn, MidiTyped, MidiPlaces
  <2>2. SharedTyped'
    BY <1>1 DEF NoteOn, Receive, SharedTyped
  <2> QED BY <1>1, <2>1, <2>2, PartsStay DEF NoteOn
<1>2. CASE NoteFind
  <2>1. CASE midi.todo = <<>>
    BY <1>2, <2>1, MidiWaitsTyped, PartsStay DEF NoteFind
  <2>2. CASE midi.todo # <<>>
    <3>1. PICK v \in Voices : midi' = [midi EXCEPT !.at = "claim", !.voice = v]
      BY <1>2, <2>2, NextVoicesTyped DEF NoteFind
    <3>2. MidiTyped'
      BY <1>2, <2>2, <3>1 DEF NoteFind, MidiAt, MidiTyped, MidiPlaces
    <3> QED BY <1>2, <3>2, PartsStay DEF NoteFind
  <2> QED BY <2>1, <2>2
<1>3. CASE NoteClaim
  <2>1. MidiTyped'
    BY <1>3, MidiGoesTyped DEF NoteClaim, MidiAt, MidiTyped, MidiPlaces
  <2>2. SharedTyped'
    BY <1>3 DEF NoteClaim, SharedTyped, Writers
  <2>3. ListTyped'
    BY <1>3, WithoutVoiceTyped DEF NoteClaim, ListTyped
  <2>4. pending' \in Pendings
    BY <1>0, <1>3, SetVoiceTyped DEF NoteClaim
  <2>5. VoicesTyped'
    BY <1>3, <2>4 DEF NoteClaim, VoicesTyped
  <2> QED BY <1>3, <2>1, <2>2, <2>3, <2>5, PartsStay DEF NoteClaim
<1>4. CASE NoteFree
  <2>1. MidiTyped'
    BY <1>4, MidiGoesTyped DEF NoteFree, MidiAt, MidiTyped, MidiPlaces
  <2>2. SharedTyped'
    BY <1>4 DEF NoteFree, SharedTyped
  <2>3. sound' \in Sounds /\ pending' \in Pendings
    BY <1>0, <1>4, WriteTyped DEF NoteFree
  <2>4. VoicesTyped'
    BY <1>4, <2>3 DEF NoteFree, VoicesTyped
  <2> QED BY <1>4, <2>1, <2>2, <2>4, PartsStay DEF NoteFree
<1>5. CASE NoteFill
  <2>1. MidiTyped'
    BY <1>5, MidiGoesTyped DEF NoteFill, MidiAt, MidiTyped, MidiPlaces
  <2>2. VoicesTyped'
    <3>1. [Silent EXCEPT !.target = MaxVol, !.tuned = TRUE] \in VoiceStates
      <4>1. Silent \in VoiceStates
        BY DEF Silent, VoiceStates
      <4> QED BY <4>1 DEF VoiceStates
    <3>2. voice' \in [Voices -> VoiceStates] /\ key' \in [Voices -> Notes \cup {NoNote}]
      BY <1>0, <1>5, <3>1 DEF NoteFill, VoicesTyped
    <3> QED BY <1>5, <3>2 DEF NoteFill, VoicesTyped
  <2>3. StartedTyped'
    BY <1>0, <1>5, StartedMoves DEF NoteFill
  <2> QED BY <1>5, <2>1, <2>2, <2>3, PartsStay DEF NoteFill
<1>6. CASE NoteSwitch
  <2>1. MidiTyped'
    BY <1>6, MidiGoesTyped DEF NoteSwitch, MidiAt, MidiTyped, MidiPlaces
  <2>2. VoicesTyped'
    BY <1>0, <1>6 DEF NoteSwitch, VoicesTyped
  <2> QED BY <1>6, <2>1, <2>2, PartsStay DEF NoteSwitch
<1>7. CASE NoteClear
  <2>1. MidiTyped'
    BY <1>7, MidiGoesTyped DEF NoteClear, MidiAt, MidiTyped, MidiPlaces
  <2>2. SharedTyped'
    BY <1>7 DEF NoteClear, SharedTyped, Writers
  <2>3. pending' \in Pendings
    BY <1>0, <1>7, SetVoiceTyped DEF NoteClear
  <2>4. VoicesTyped'
    BY <1>7, <2>3 DEF NoteClear, VoicesTyped
  <2> QED BY <1>7, <2>1, <2>2, <2>4, PartsStay DEF NoteClear
<1>8. CASE NoteAdd
  <2>1. midi.todo \in Seq(BlockIds) /\ midi.todo # <<>> /\ midi.at = "add"
    BY <1>8 DEF NoteAdd, MidiAt, MidiTyped
  <2>2. Tail(midi.todo) \in Seq(BlockIds) /\ Head(midi.todo) \in BlockIds
    BY <2>1, HeadTailProperties
  <2>3. MidiTyped'
    BY <1>8, <2>2 DEF NoteAdd, MidiTyped, MidiPlaces
  <2>4. SharedTyped'
    BY <1>8 DEF NoteAdd, SharedTyped
  <2>5. ListTyped'
    <3>1. Entry(midi.voice, Head(midi.todo)) \in BlockEntries
      BY <1>0, <2>2 DEF Entry, BlockEntries
    <3> QED BY <1>8, <3>1, AppendProperties DEF NoteAdd, ListTyped
  <2>6. sound' \in Sounds /\ pending' \in Pendings
    BY <1>0, <1>8, WriteTyped DEF NoteAdd
  <2>7. VoicesTyped'
    BY <1>8, <2>6 DEF NoteAdd, VoicesTyped
  <2> QED BY <1>8, <2>3, <2>4, <2>5, <2>7, PartsStay DEF NoteAdd
<1> QED BY <1>1, <1>2, <1>3, <1>4, <1>5, <1>6, <1>7, <1>8

\* A message arrives, or a command is given.
LEMMA BeginsTyped ==
  ASSUME Typed, Enqueue \/ \E c \in Consoles : ConsoleBegins(c)
  PROVE  Typed'
<1> USE DEF Typed, TasksTyped, data, chan, tasks, hist
<1>1. CASE Enqueue
  <2>1. SharedTyped'
    BY <1>1 DEF Enqueue, SharedTyped
  <2> QED BY <1>1, <2>1, PartsStay DEF Enqueue
<1>2. CASE \E c \in Consoles : ConsoleBegins(c)
  <2>1. PICK c \in Consoles : ConsoleBegins(c)
    BY <1>2
  <2>2. UNCHANGED <<key, voice, started, sound, list, vms, midi, pending>>
    BY <2>1 DEF ConsoleBegins, BeginKill, BeginSwitch, BeginTransient, BeginPulseWidth
  <2>3. SharedTyped'
    BY <2>1 DEF ConsoleBegins, BeginKill, BeginSwitch, BeginTransient, BeginPulseWidth, SharedTyped, Modes
  <2>4. ConsoleTyped'
    <3>1. \/ Goes(c, "pw")
          \/ \E at \in {"panic", "mute"}, goal \in {"kill", "param", "tr"} :
               console' = [console EXCEPT ![c].at = at, ![c].goal = goal]
      BY <2>1 DEF ConsoleBegins, BeginKill, BeginSwitch, BeginTransient, BeginPulseWidth
    <3>2. CASE Goes(c, "pw")
      BY <3>2, GoesTyped DEF ConsolePlaces
    <3>3. ASSUME NEW at \in {"panic", "mute"}, NEW goal \in {"kill", "param", "tr"},
                 console' = [console EXCEPT ![c].at = at, ![c].goal = goal]
          PROVE  ConsoleTyped'
      <4> DEFINE e == [console[c] EXCEPT !.at = at, !.goal = goal]
      <4>1. e \in ConsoleStates /\ e.at = at
        BY DEF ConsoleTyped, ConsoleStates, ConsolePlaces
      <4>2. console' = [console EXCEPT ![c] = e]
        BY <3>3
      <4> HIDE DEF e
      <4> QED BY <4>1, <4>2, BecomesTyped
    <3> QED BY <3>1, <3>2, <3>3
  <2> QED BY <2>2, <2>3, <2>4, PartsStay
<1> QED BY <1>1, <1>2

\* A console goes on with its command.
LEMMA ConsoleStepTyped ==
  ASSUME Typed, NEW c \in Consoles, ConsoleStep(c)
  PROVE  Typed'
<1> USE DEF Typed, TasksTyped, data, chan, tasks, hist
<1>1. CASE Panic(c)
  <2>1. ConsoleTyped'
    BY <1>1, GoesTyped DEF Panic, ConsolePlaces
  <2>2. ListTyped' /\ key' \in [Voices -> Notes \cup {NoNote}] /\ voice' \in [Voices -> VoiceStates]
    BY <1>1, PanicTyped DEF Panic
  <2>3. VoicesTyped'
    BY <1>1, <2>2 DEF Panic, VoicesTyped
  <2> QED BY <1>1, <2>1, <2>2, <2>3, PartsStay DEF Panic
<1>2. CASE Reset(c)
  <2>1. ConsoleTyped'
    BY <1>2, GoesTyped, RestsTyped DEF Reset, ConsolePlaces
  <2>2. MidiTyped'
    <3>1. (midi.at \notin {"idle", "wait"}) \in BOOLEAN
      OBVIOUS
    <3>2. UNCHANGED midi \/ midi' = [midi EXCEPT !.late = midi.at \notin {"idle", "wait"}]
      BY <1>2 DEF Reset
    <3> QED BY <3>1, <3>2 DEF MidiTyped
  <2>3. SharedTyped'
    BY <1>2 DEF Reset, ResetMidi, SharedTyped
  <2>4. VoicesTyped'
    BY <1>2 DEF Reset, ResetMidi, KillAudio, VoicesTyped, Sounds
  <2> QED BY <1>2, <2>1, <2>2, <2>3, <2>4, PartsStay DEF Reset
<1>3. CASE DelayEnds(c)
  <2>1. ConsoleTyped'
    BY <1>3, GoesTyped DEF DelayEnds, ConsolePlaces
  <2> QED BY <1>3, <2>1, PartsStay DEF DelayEnds
<1>4. CASE Mute(c)
  <2>1. ConsoleTyped'
    <3> DEFINE mark == <<console[c].goal = "tr">>
    <3>1. mark \in {<<TRUE>>, <<FALSE>>} /\ mode \in Modes
      BY DEF SharedTyped
    <3>2. console' = [console EXCEPT ![c].at = "mode", ![c].goal = mode, ![c].todo = mark]
      BY <1>4 DEF Mute
    <3> HIDE DEF mark
    <3> DEFINE e == [console[c] EXCEPT !.at = "mode", !.goal = mode, !.todo = mark]
    <3>3. e \in ConsoleStates /\ e.at = "mode" /\ e.todo = mark /\ e.goal = mode
      BY <3>1 DEF ConsoleTyped, ConsoleStates, ConsolePlaces
    <3>4. console' = [console EXCEPT ![c] = e]
      BY <3>2
    <3> HIDE DEF e
    <3> QED BY <3>1, <3>3, <3>4, BecomesTyped
  <2>2. VoicesTyped'
    BY <1>4 DEF Mute, KillAudio, VoicesTyped, Sounds
  <2> QED BY <1>4, <2>1, <2>2, PartsStay DEF Mute
<1>5. CASE SetMode(c)
  <2>1. console[c].goal \in Modes /\ Head(console[c].todo) \in BOOLEAN
    <3>1. console[c].goal \in Modes /\ console[c].todo \in {<<TRUE>>, <<FALSE>>}
      BY <1>5 DEF SetMode, ConsoleAt, ConsoleTyped
    <3>2. \A b \in BOOLEAN : <<b>> \in Seq(BOOLEAN) /\ <<b>> # <<>>
      OBVIOUS
    <3>3. \A b \in BOOLEAN : Head(<<b>>) \in BOOLEAN
      BY <3>2, HeadTailProperties
    <3> QED BY <3>1, <3>3
  <2>2. ConsoleTyped'
    BY <1>5, GoesTyped, RestsTyped DEF SetMode, ConsolePlaces
  <2>3. SharedTyped'
    BY <1>5, <2>1 DEF SetMode, SharedTyped
  <2> QED BY <1>5, <2>2, <2>3, PartsStay DEF SetMode
<1>6. CASE UpdateTR(c)
  <2>1. ConsoleTyped'
    BY <1>6, RestsTyped DEF UpdateTR
  <2>2. VoicesTyped'
    <3>1. sound' \in Sounds
      BY <1>6 DEF UpdateTR, VoicesTyped, Sounds
    <3> QED BY <1>6, <3>1 DEF UpdateTR, VoicesTyped
  <2> QED BY <1>6, <2>1, <2>2, PartsStay DEF UpdateTR
<1>7. CASE PulseWidthTake(c)
  <2>1. ConsoleTyped'
    <3>1. KeysOn \in SUBSET Voices
      BY DEF KeysOn
    <3>2. console' = [console EXCEPT ![c].at = "sweep", ![c].todo = KeysOn]
      BY <1>7 DEF PulseWidthTake
    <3> DEFINE e == [console[c] EXCEPT !.at = "sweep", !.todo = KeysOn]
    <3>3. e \in ConsoleStates /\ e.at = "sweep" /\ e.todo = KeysOn
      BY <3>1 DEF ConsoleTyped, ConsoleStates, ConsolePlaces
    <3>4. console' = [console EXCEPT ![c] = e]
      BY <3>2
    <3> HIDE DEF e
    <3> QED BY <3>1, <3>3, <3>4, BecomesTyped
  <2>2. SharedTyped'
    BY <1>7 DEF PulseWidthTake, SharedTyped, Writers
  <2> QED BY <1>7, <2>1, <2>2, PartsStay DEF PulseWidthTake
<1>8. CASE PulseWidthVoice(c)
  <2> DEFINE v == Min(console[c].todo)
  <2>1. console[c].todo \in SUBSET Voices /\ v \in Voices
    BY <1>8, LeastVoice DEF PulseWidthVoice, ConsoleAt, ConsoleTyped
  <2> HIDE DEF v
  <2>2. /\ SetVoice(c, v, Heard(voice[v]))
        /\ console' = [console EXCEPT ![c].todo = @ \ {v}] /\ console[c].at = "sweep"
        /\ UNCHANGED <<mode, synth, sem, queue, key, voice, started, sound, list, pedal, loud, vms, midi,
                       quiet, byTr>>
    BY <1>8 DEF PulseWidthVoice, ConsoleAt, v
  <2>3. ConsoleTyped'
    BY <2>1, <2>2 DEF ConsoleTyped, ConsoleStates
  <2>4. pending' \in Pendings
    <3>1. Heard(voice[v]) \in BOOLEAN /\ c \in Writers
      BY DEF Writers, Heard
    <3> QED BY <2>1, <2>2, <3>1, SetVoiceTyped
  <2>5. VoicesTyped'
    BY <2>2, <2>4 DEF VoicesTyped
  <2> QED BY <2>2, <2>3, <2>5, PartsStay
<1>9. CASE PulseWidthDone(c)
  <2>1. ConsoleTyped'
    BY <1>9, RestsTyped DEF PulseWidthDone
  <2>2. SharedTyped'
    BY <1>9 DEF PulseWidthDone, SharedTyped
  <2> QED BY <1>9, <2>1, <2>2, PartsStay DEF PulseWidthDone
<1>10. CASE WriteVoice(c)
  BY <1>10, WriteVoiceTyped DEF Writers
<1> QED BY <1>1, <1>2, <1>3, <1>4, <1>5, <1>6, <1>7, <1>8, <1>9, <1>10 DEF ConsoleStep

\* The initial state.
LEMMA InitTyped == VmsInit => Typed
<1> SUFFICES ASSUME VmsInit PROVE Typed
  OBVIOUS
<1>1. NVoices \in Nat \ {0} /\ 0 \in Voices /\ 1 \in 1 .. NVoices
  BY VmsAssumption DEF Voices
<1>2. SharedTyped
  BY DEF VmsInit, SharedTyped, Modes
<1>3. VoicesTyped
  <2>1. Silent \in VoiceStates
    BY DEF Silent, VoiceStates
  <2>2. NoWrite \in [voice : Voices, on : BOOLEAN, who : {"nobody", "midi"}]
    BY <1>1 DEF NoWrite
  <2> QED BY <2>1, <2>2 DEF VmsInit, VoicesTyped, Sounds, Pendings
<1>4. StartedTyped
  <2>1. \A i \in 1 .. NVoices : i - 1 \in Voices
    BY <1>1 DEF Voices
  <2>2. \A v \in Voices : v + 1 \in 1 .. NVoices /\ v + 1 - 1 = v
    BY <1>1 DEF Voices
  <2>3. started = [i \in 1 .. NVoices |-> i - 1]
    BY DEF VmsInit
  <2>4. ASSUME NEW v \in Voices PROVE started[v + 1] = v
    <3>1. PICK i \in 1 .. NVoices : i = v + 1 /\ i - 1 = v
      BY <1>1 DEF Voices
    <3>2. started[i] = i - 1
      BY <2>3
    <3> QED BY <3>1, <3>2
  <2>5. started \in [1 .. NVoices -> Voices]
    BY <2>1, <2>3
  <2> QED BY <2>2, <2>4, <2>5 DEF StartedTyped
<1>5. ListTyped
  BY DEF VmsInit, ListTyped
<1>6. MidiTyped
  <2>1. <<>> \in Seq(BlockIds)
    OBVIOUS
  <2> QED BY <1>1, <2>1 DEF VmsInit, MidiTyped, MidiPlaces
<1>7. ConsoleTyped
  <2>1. [at |-> "idle", todo |-> <<>>, goal |-> "OFF"] \in ConsoleStates
    BY DEF ConsoleStates, ConsolePlaces, Modes
  <2> QED BY <2>1 DEF VmsInit, ConsoleTyped
<1>8. vms \in [at : {"delay", "want", "run"}, entry : Nat \ {0}]
  BY DEF VmsInit
<1> QED BY <1>2, <1>3, <1>4, <1>5, <1>6, <1>7, <1>8 DEF Typed, TasksTyped

\* Every step keeps the types.
LEMMA StepTyped == Typed /\ [VmsNext]_vars => Typed'
<1> SUFFICES ASSUME Typed, [VmsNext]_vars PROVE Typed'
  OBVIOUS
<1>1. CASE VmsStep \/ Wrap
  BY <1>1, VmsTaskTyped, WriteVoiceTyped DEF VmsStep, Writers
<1>2. CASE MidiStep
  BY <1>2, MessageTyped, NoteTyped, WriteVoiceTyped DEF MidiStep, Writers
<1>3. CASE Enqueue \/ \E c \in Consoles : ConsoleBegins(c) \/ ConsoleStep(c)
  BY <1>3, BeginsTyped, ConsoleStepTyped
<1>4. CASE UNCHANGED vars
  BY <1>4, PartsStay DEF vars, Typed, TasksTyped
<1> QED BY <1>1, <1>2, <1>3, <1>4 DEF VmsNext

-----------------------------------------------------------------------------
(* The semaphore *)

\* No task is called "free", and no console like another task.
LEMMA WritersDiffer ==
  /\ "free" \notin Writers /\ "vms" \in Writers /\ "midi" \in Writers /\ Consoles \subseteq Writers
  /\ "vms" \notin Consoles /\ "midi" \notin Consoles
BY VmsAssumption DEF Writers

\* What the small steps of the MIDI task and of the consoles do to their places.
LEMMA PlacesMove ==
  ASSUME Typed
  PROVE  /\ MidiWaits => midi'.at = "wait"
         /\ \A at : MidiGoes(at) => midi'.at = at /\ midi'.late = midi.late
         /\ \A c \in Consoles : \A at : Goes(c, at) =>
              /\ console'[c].at = at /\ console'[c].goal = console[c].goal /\ console'[c].todo = console[c].todo
              /\ \A d \in Consoles : d # c => console'[d] = console[d]
         /\ \A c \in Consoles : Rests(c) =>
              /\ console'[c].at = "idle" /\ \A d \in Consoles : d # c => console'[d] = console[d]
<1>1. midi = [at |-> midi.at, todo |-> midi.todo, note |-> midi.note, voice |-> midi.voice, late |-> midi.late]
  BY DEF Typed, TasksTyped, MidiTyped
<1>2. MidiWaits => midi'.at = "wait"
  BY DEF MidiWaits
<1>3. \A at : MidiGoes(at) => midi'.at = at /\ midi'.late = midi.late
  BY <1>1 DEF MidiGoes
<1>4. console \in [Consoles -> ConsoleStates]
  BY DEF Typed, TasksTyped, ConsoleTyped
<1>5. ASSUME NEW c \in Consoles, NEW at, Goes(c, at)
      PROVE  /\ console'[c].at = at /\ console'[c].goal = console[c].goal /\ console'[c].todo = console[c].todo
             /\ \A d \in Consoles : d # c => console'[d] = console[d]
  <2>1. console'[c] = [console[c] EXCEPT !.at = at] /\ console[c] \in ConsoleStates
    BY <1>4, <1>5 DEF Goes
  <2>2. \A d \in Consoles : d # c => console'[d] = console[d]
    BY <1>4, <1>5 DEF Goes
  <2> QED BY <2>1, <2>2 DEF ConsoleStates
<1>6. ASSUME NEW c \in Consoles, Rests(c)
      PROVE  console'[c].at = "idle" /\ \A d \in Consoles : d # c => console'[d] = console[d]
  BY <1>4, <1>6 DEF Rests
<1> QED BY <1>2, <1>3, <1>5, <1>6

\* Where the MIDI task holds the semaphore.
MidiHolds == midi.at \in {"sweep", "free", "add"}

\* A step that touches neither the semaphore nor the voices that are to be written, and
\* that nobody begins to work with.
LEMMA HoldsStays ==
  ASSUME Holds, UNCHANGED <<sem, pending>>,
         vms'.at = "run" => vms.at = "run",
         MidiHolds' => MidiHolds,
         \A c \in Consoles : console'[c].at = "sweep" => console[c].at = "sweep"
  PROVE  Holds'
BY DEF Holds, MidiHolds, NotPending

\* A task takes the semaphore, and decides perhaps at once which voice to write.
LEMMA HoldsTaken ==
  ASSUME Typed, Holds, NEW t \in Writers, sem = "free", sem' = t,
         \A u \in Writers : u # t => pending'[u] = pending[u],
         vms'.at = "run" => vms.at = "run" \/ t = "vms",
         MidiHolds' => MidiHolds \/ t = "midi",
         \A c \in Consoles : console'[c].at = "sweep" => console[c].at = "sweep" \/ t = c
  PROVE  Holds'
BY WritersDiffer DEF Holds, MidiHolds, NotPending

\* A task that holds the semaphore decides which voice to write.
LEMMA HoldsWorks ==
  ASSUME Typed, Holds, NEW t \in Writers, sem = t, NEW v, NEW on, SetVoice(t, v, on),
         UNCHANGED sem, vms'.at = vms.at, midi'.at = midi.at,
         \A c \in Consoles : console'[c].at = console[c].at
  PROVE  Holds'
<1>1. \A u \in Writers : u # t => pending'[u] = pending[u]
  BY DEF SetVoice, Typed, VoicesTyped, Pendings
<1> QED BY <1>1 DEF Holds, NotPending

\* A task writes the voice it has decided to write, and may give the semaphore back.
LEMMA HoldsWrites ==
  ASSUME Typed, Holds, NEW t \in Writers, Write(t), sem = t, sem' \in {"free", t},
         vms'.at = "run" => vms.at = "run" /\ (sem' = "free" => t # "vms"),
         MidiHolds' => MidiHolds /\ (sem' = "free" => t # "midi"),
         \A c \in Consoles : console'[c].at = "sweep" => console[c].at = "sweep" /\ (sem' = "free" => t # c)
  PROVE  Holds'
<1>1. \A u \in Writers : u # t => NotPending(u)
  BY DEF Holds
<1>2. \A u \in Writers : NotPending(u)'
  BY <1>1 DEF NotPending, Write, Typed, VoicesTyped, Pendings
<1>3. /\ sem' = "free" => vms'.at # "run" /\ ~MidiHolds' /\ \A c \in Consoles : console'[c].at # "sweep"
      /\ sem' = t => /\ vms'.at = "run" => vms.at = "run"
                     /\ MidiHolds' => MidiHolds
                     /\ \A c \in Consoles : console'[c].at = "sweep" => console[c].at = "sweep"
  BY WritersDiffer DEF Holds, MidiHolds
<1> QED BY <1>2, <1>3 DEF Holds, MidiHolds

\* Who is at work on the voices holds the semaphore: the VMS task.
LEMMA VmsTaskHolds ==
  ASSUME Typed, Holds, VmsTick \/ Wrap \/ VmsTake \/ VmsBlock \/ VmsDone
  PROVE  Holds'
<1> USE DEF data, chan, tasks, hist
<1>1. CASE VmsTick \/ Wrap
  BY <1>1, HoldsStays DEF VmsTick, Wrap, MidiHolds, Typed, TasksTyped
<1>2. CASE VmsTake
  BY <1>2, HoldsTaken, WritersDiffer DEF VmsTake, MidiHolds
<1>3. CASE VmsBlock
  <2>1. vms'.at = vms.at /\ vms.at = "run" /\ sem = "vms" /\ UNCHANGED <<sem, midi, console>>
    BY <1>3 DEF VmsBlock, Holds, Typed, TasksTyped
  <2>2. UNCHANGED pending \/ \E v, on : SetVoice("vms", v, on)
    BY <1>3 DEF VmsBlock, SetKnownValue
  <2> QED BY <2>1, <2>2, HoldsStays, HoldsWorks, WritersDiffer DEF MidiHolds
<1>4. CASE VmsDone
  <2>1. vms.at = "run" /\ vms'.at # "run" /\ UNCHANGED <<midi, console>>
    BY <1>4 DEF VmsDone
  <2> QED BY <1>4, <2>1, HoldsWrites, WritersDiffer DEF VmsDone, Holds, MidiHolds
<1> QED BY <1>1, <1>2, <1>3, <1>4

\* Somebody writes a voice between two steps of his work.
LEMMA WriteVoiceHolds ==
  ASSUME Typed, Holds, NEW t \in Writers, WriteVoice(t)
  PROVE  Holds'
<1>1. sem = t /\ sem' = t /\ Write(t)
  BY DEF WriteVoice, Holds
<1>2. sem' # "free" /\ vms'.at = vms.at /\ (MidiHolds' <=> MidiHolds) /\ UNCHANGED console
  BY <1>1, WritersDiffer DEF WriteVoice, tasks, MidiHolds
<1> QED BY <1>1, <1>2, HoldsWrites

\* The MIDI task.
LEMMA MidiTaskHolds ==
  ASSUME Typed, Holds, MidiStep
  PROVE  Holds'
<1> USE DEF data, chan, tasks, hist
<1>1. CASE MidiPoll \/ NoteOn \/ NoteOff \/ Pedal \/ ChannelVolume \/ AllOff \/ AllOffDone \/ NoteFind
           \/ NoteFill \/ NoteSwitch
  <2>1. UNCHANGED <<sem, pending, vms, console>>
    BY <1>1 DEF MidiPoll, NoteOn, NoteOff, Pedal, ChannelVolume, AllOff, AllOffDone, NoteFind, NoteFill, NoteSwitch
  <2>2. midi'.at \in {"wait", "idle", "find", "reset", "claim", "on", "clear"}
    <3>1. MidiPoll \/ NoteOff \/ Pedal \/ ChannelVolume \/ AllOff \/ AllOffDone \/ NoteFill \/ NoteSwitch
            => MidiWaits \/ \E at \in {"wait", "idle", "reset", "on", "clear"} : MidiGoes(at)
      BY DEF MidiPoll, NoteOff, Pedal, ChannelVolume, AllOff, AllOffDone, NoteFill, NoteSwitch
    <3>2. NoteOn \/ NoteFind => MidiWaits \/ midi'.at \in {"find", "claim"}
      BY DEF NoteOn, NoteFind, Typed, TasksTyped, MidiTyped
    <3> QED BY <1>1, <3>1, <3>2, PlacesMove
  <2> QED BY <2>1, <2>2, HoldsStays DEF MidiHolds
<1>2. CASE Bend
  <2>1. midi'.at = "sweep" /\ UNCHANGED <<pending, vms, console>>
    BY <1>2 DEF Bend, Typed, TasksTyped, MidiTyped
  <2> QED BY <1>2, <2>1, HoldsTaken, WritersDiffer DEF Bend, MidiHolds
<1>3. CASE NoteClaim \/ NoteClear
  <2>1. sem = "free" /\ sem' = "midi" /\ UNCHANGED <<vms, console>> /\ SetVoice("midi", midi.voice, FALSE)
    BY <1>3 DEF NoteClaim, NoteClear
  <2>2. \A u \in Writers : u # "midi" => pending'[u] = pending[u]
    BY <2>1 DEF SetVoice, Typed, VoicesTyped, Pendings
  <2> QED BY <2>1, <2>2, HoldsTaken, WritersDiffer DEF MidiHolds
<1>4. CASE BendVoice
  <2>1. midi'.at = midi.at /\ midi.at = "sweep" /\ UNCHANGED <<sem, vms, console>>
    BY <1>4 DEF BendVoice, MidiAt, Typed, TasksTyped, MidiTyped
  <2>2. \E v, on : SetVoice("midi", v, on)
    BY <1>4 DEF BendVoice
  <2> QED BY <2>1, <2>2, HoldsWorks, WritersDiffer DEF Holds
<1>5. CASE BendDone \/ NoteFree \/ NoteAdd
  <2>1. sem = "midi" /\ sem' = "free" /\ Write("midi") /\ UNCHANGED <<vms, console>>
    BY <1>5 DEF BendDone, NoteFree, NoteAdd, MidiAt, Holds
  <2>2. ~MidiHolds'
    <3>1. BendDone \/ NoteFree => MidiWaits \/ MidiGoes("fill")
      BY DEF BendDone, NoteFree
    <3>2. NoteAdd => midi'.at = "find"
      BY DEF NoteAdd, Typed, TasksTyped, MidiTyped
    <3> QED BY <1>5, <3>1, <3>2, PlacesMove DEF MidiHolds
  <2> QED BY <2>1, <2>2, HoldsWrites, WritersDiffer DEF Holds
<1>6. CASE WriteVoice("midi")
  BY <1>6, WriteVoiceHolds, WritersDiffer
<1> QED BY <1>1, <1>2, <1>3, <1>4, <1>5, <1>6 DEF MidiStep

\* The consoles, and the message that arrives.
LEMMA ConsoleHolds ==
  ASSUME Typed, Holds, Enqueue \/ \E c \in Consoles : ConsoleBegins(c) \/ ConsoleStep(c)
  PROVE  Holds'
<1> USE DEF data, chan, tasks, hist
<1>1. CASE Enqueue
  BY <1>1, HoldsStays DEF Enqueue, MidiHolds
<1>2. ASSUME NEW c \in Consoles, ConsoleBegins(c) \/ ConsoleStep(c)
      PROVE  Holds'
  <2>1. c \in Writers /\ c # "vms" /\ c # "midi" /\ console \in [Consoles -> ConsoleStates]
    BY WritersDiffer DEF Typed, TasksTyped, ConsoleTyped
  <2>2. CASE BeginKill(c) \/ BeginSwitch(c) \/ BeginTransient(c) \/ BeginPulseWidth(c)
    <3>1. UNCHANGED <<sem, pending, vms, midi>>
      BY <2>2 DEF BeginKill, BeginSwitch, BeginTransient, BeginPulseWidth
    <3>2. \A d \in Consoles : console'[d].at = "sweep" => console[d].at = "sweep"
      <4>1. \/ Goes(c, "pw")
            \/ \E at \in {"panic", "mute"} : \E goal : console' = [console EXCEPT ![c].at = at, ![c].goal = goal]
        BY <2>2 DEF BeginKill, BeginSwitch, BeginTransient, BeginPulseWidth
      <4> QED BY <2>1, <4>1 DEF Goes, ConsoleStates
    <3> QED BY <3>1, <3>2, HoldsStays DEF MidiHolds
  <2>3. CASE Panic(c) \/ Reset(c) \/ DelayEnds(c) \/ Mute(c) \/ SetMode(c) \/ UpdateTR(c)
    <3>1. UNCHANGED <<sem, pending, vms>> /\ (UNCHANGED midi \/ \E late : midi' = [midi EXCEPT !.late = late])
      BY <2>3 DEF Panic, Reset, DelayEnds, Mute, SetMode, UpdateTR
    <3>2. midi'.at = midi.at
      BY <3>1 DEF Typed, TasksTyped, MidiTyped
    <3>3. \A d \in Consoles : console'[d].at = "sweep" => console[d].at = "sweep"
      <4>1. \/ Rests(c) \/ \E at \in {"reset", "reset2", "delay", "mute", "panic2", "tr"} : Goes(c, at)
            \/ \E goal, todo : console' = [console EXCEPT ![c].at = "mode", ![c].goal = goal, ![c].todo = todo]
        BY <2>3 DEF Panic, Reset, DelayEnds, Mute, SetMode, UpdateTR
      <4>2. Rests(c) => \A d \in Consoles : console'[d].at = "sweep" => console[d].at = "sweep"
        BY PlacesMove
      <4>3. ASSUME NEW at \in {"reset", "reset2", "delay", "mute", "panic2", "tr"}, Goes(c, at)
            PROVE  \A d \in Consoles : console'[d].at = "sweep" => console[d].at = "sweep"
        <5>1. console'[c].at # "sweep" /\ \A d \in Consoles : d # c => console'[d] = console[d]
          BY <4>3, PlacesMove
        <5> QED BY <5>1
      <4>4. ASSUME \E at \in {"reset", "reset2", "delay", "mute", "panic2", "tr"} : Goes(c, at)
            PROVE  \A d \in Consoles : console'[d].at = "sweep" => console[d].at = "sweep"
        BY <4>3, <4>4
      <4>5. ASSUME \E goal, todo : console' = [console EXCEPT ![c].at = "mode", ![c].goal = goal, ![c].todo = todo]
            PROVE  \A d \in Consoles : console'[d].at = "sweep" => console[d].at = "sweep"
        <5>1. PICK goal, todo : console' = [console EXCEPT ![c].at = "mode", ![c].goal = goal, ![c].todo = todo]
          BY <4>5
        <5> QED BY <2>1, <5>1 DEF ConsoleStates
      <4> QED BY <4>1, <4>2, <4>4, <4>5
    <3> QED BY <3>1, <3>2, <3>3, HoldsStays DEF MidiHolds
  <2>4. CASE PulseWidthTake(c)
    <3>1. UNCHANGED <<pending, vms, midi>> /\ \A d \in Consoles : d # c => console'[d] = console[d]
      BY <2>1, <2>4 DEF PulseWidthTake
    <3> QED BY <2>1, <2>4, <3>1, HoldsTaken DEF PulseWidthTake, MidiHolds
  <2>5. CASE PulseWidthVoice(c)
    <3>1. sem = c /\ UNCHANGED <<sem, vms, midi>> /\ \E v, on : SetVoice(c, v, on)
      BY <2>5 DEF PulseWidthVoice, ConsoleAt, Holds
    <3>2. \A d \in Consoles : console'[d].at = console[d].at
      BY <2>1, <2>5 DEF PulseWidthVoice, ConsoleStates
    <3> QED BY <2>1, <3>1, <3>2, HoldsWorks
  <2>6. CASE PulseWidthDone(c)
    <3>1. sem = c /\ sem' = "free" /\ NotPending(c) /\ UNCHANGED <<pending, vms, midi>>
      BY <2>6 DEF PulseWidthDone, ConsoleAt, Holds
    <3>2. console'[c].at = "idle" /\ \A d \in Consoles : d # c => console'[d] = console[d]
      BY <2>6, PlacesMove DEF PulseWidthDone
    <3> QED BY <2>1, <3>1, <3>2 DEF Holds, NotPending
  <2>7. CASE WriteVoice(c)
    BY <2>1, <2>7, WriteVoiceHolds
  <2> QED BY <1>2, <2>2, <2>3, <2>4, <2>5, <2>6, <2>7 DEF ConsoleBegins, ConsoleStep
<1> QED BY <1>1, <1>2

\* Every step.
LEMMA StepHolds == Typed /\ Holds /\ [VmsNext]_vars => Holds'
<1> SUFFICES ASSUME Typed, Holds, [VmsNext]_vars PROVE Holds'
  OBVIOUS
<1>1. CASE UNCHANGED vars
  BY <1>1 DEF vars, Holds, NotPending
<1> QED BY <1>1, VmsTaskHolds, MidiTaskHolds, ConsoleHolds, WriteVoiceHolds, WritersDiffer DEF VmsNext, VmsStep

-----------------------------------------------------------------------------
(* Killing the sound, and switching away from MIDI *)

\* A console is at one of these steps of tsk_midi_kill.
Killing(c, where) == console[c].goal = "kill" /\ console[c].at \in where

\* The MIDI task is at work on a message.
Working == midi.at \notin {"idle", "wait"}

\* Nobody has decided to switch a voice on.
NoneOn == \A t \in Writers : ~pending[t].on

\* No block runs and no voice has a volume: nothing will switch one on.
Unplayed == list = <<>> /\ (\A v \in Voices : voice[v].current = 0) /\ NoneOn

\* No key is held either.
Cleared == Unplayed /\ \A v \in Voices : key[v] = NoNote

\* No voice of the synthesizer is heard.
NoneSounds == \A v \in Voices : sound[v] # "midi"

\* While no message has come since the queue was emptied, whatever is left of the notes
\* will still meet a step of a kill that removes it: the note that was being started when
\* the first reset came is over before the second begins.
KillOnItsWay ==
    quiet =>
      /\ ~queue
      /\ Working => \E c \in Consoles : \/ Killing(c, {"panic", "reset"})
                                        \/ Killing(c, {"delay"}) /\ midi.late
      /\ ~Cleared => \E c \in Consoles : Killing(c, {"panic", "reset", "delay", "panic2"})
      /\ ~NoneSounds => \E c \in Consoles : Killing(c, {"panic", "reset", "delay", "panic2", "reset2"})

\* Which command a console can be in at the steps two commands share.
Goals ==
    \A c \in Consoles :
      /\ console[c].at \in {"delay", "panic2", "reset2"} => console[c].goal = "kill"
      /\ console[c].at \in {"panic", "reset"} => console[c].goal \in {"kill", "param"}
      /\ console[c].at = "mute" => console[c].goal \in {"param", "tr"}

\* A console that switches with the parameter has reset the MIDI side but not yet set the
\* mode; it has killed the sound as well.
Muting(c) == console[c].goal = "param" /\ console[c].at \in {"reset", "mute"}

\* A console that is about to set a mode other than MIDI.
Choosing(c) == console[c].at = "mode" /\ console[c].todo = <<FALSE>>

\* From the reset to the new mode nothing is played; and in another mode nothing is begun.
SwitchOnItsWay ==
    /\ \A c \in Consoles : Muting(c) => Unplayed
    /\ \A c \in Consoles : Choosing(c) => Unplayed /\ NoneSounds
    /\ (synth # "MIDI" /\ ~byTr) => (NoneSounds /\ NoneOn)

\* The invariant of the kill and the switch.
KInv == Typed /\ Holds /\ KillOnItsWay /\ Goals /\ SwitchOnItsWay

\* Writing the voices that were decided on switches none on that nobody had decided to
\* switch on; and without a block there is none to run.
LEMMA WritesMove ==
  ASSUME Typed
  PROVE  /\ \A t \in Writers : Write(t) /\ NoneOn => NoneOn' /\ (NoneSounds => NoneSounds')
         /\ KillAudio => NoneSounds'
         /\ list = <<>> => ~VmsBlock
<1>1. pending \in Pendings /\ sound \in Sounds
  BY DEF Typed, VoicesTyped
<1>2. ASSUME NEW t \in Writers, Write(t), NoneOn
      PROVE  NoneOn' /\ (NoneSounds => NoneSounds')
  BY <1>1, <1>2 DEF Write, NoneOn, NoneSounds, Pendings, Sounds, NoWrite
<1>3. KillAudio => NoneSounds'
  BY DEF KillAudio, NoneSounds
<1>4. list = <<>> => ~VmsBlock
  <2> SUFFICES ASSUME list = <<>>, VmsBlock PROVE FALSE
    OBVIOUS
  <2>1. vms.entry \in Nat \ {0} /\ Len(<<>>) = 0 /\ vms.entry <= Len(list)
    BY DEF VmsBlock, Typed, TasksTyped
  <2> QED BY <2>1
<1> QED BY <1>2, <1>3, <1>4

\* In which order a console chooses.
LEMMA ChoosingPlace ==
  ASSUME NEW c \in Consoles
  PROVE  /\ Choosing(c) => console[c].at = "mode"
         /\ Choosing(c)' => console'[c].at = "mode"
         /\ console'[c] = console[c] => (Choosing(c)' <=> Choosing(c))
BY DEF Choosing

\* A step of another task than a console, that neither kills nor switches: where it plays,
\* somebody is to kill it and nobody is switching.
LEMMA PlayKept ==
  ASSUME KInv, UNCHANGED <<console, quiet, queue, synth, byTr>>,
         Working' => Working /\ midi'.late = midi.late,
         NoneSounds /\ NoneOn /\ synth # "MIDI" => NoneSounds' /\ NoneOn',
         \/ Working /\ \A c \in Consoles : console[c].at \notin {"reset", "mute", "mode"}
         \/ (Cleared => Cleared') /\ (Unplayed => Unplayed' /\ (NoneSounds => NoneSounds'))
            /\ (NoneSounds /\ NoneOn => NoneSounds')
  PROVE  KillOnItsWay' /\ Goals' /\ SwitchOnItsWay'
<1>1. Goals'
  BY DEF KInv, Goals
<1>2. SwitchOnItsWay'
  BY DEF KInv, SwitchOnItsWay, Muting, Choosing
<1>3. NoneSounds => NoneSounds' \/ ~Cleared \/ Working
  BY DEF Cleared, Unplayed
<1>4. KillOnItsWay'
  BY <1>3 DEF KInv, KillOnItsWay, Killing, Cleared, Unplayed
<1> QED BY <1>1, <1>2, <1>4

\* A message is taken only if there is one, and then nothing was killed since it came.
LEMMA ReceiveKept ==
  ASSUME KInv, Receive, UNCHANGED <<console, quiet, synth, byTr, sound, pending>>
  PROVE  KillOnItsWay' /\ Goals' /\ SwitchOnItsWay'
<1>1. ~quiet'
  BY DEF KInv, KillOnItsWay, Receive
<1>2. \A c \in Consoles : console[c].at \notin {"reset", "mute", "mode"}
  BY DEF Receive, MidiAt, MidiMayRun, ConsoleReady
<1>3. Goals'
  BY DEF KInv, Goals
<1>4. (NoneSounds <=> NoneSounds') /\ (NoneOn <=> NoneOn')
  BY DEF NoneSounds, NoneOn
<1>5. SwitchOnItsWay'
  BY <1>2, <1>4 DEF KInv, SwitchOnItsWay, Muting, Choosing
<1> QED BY <1>1, <1>3, <1>5 DEF KillOnItsWay

\* The VMS task, the writes and the wraps.
LEMMA VmsTaskKept ==
  ASSUME KInv, VmsStep \/ Wrap \/ \E t \in Writers : WriteVoice(t)
  PROVE  KillOnItsWay' /\ Goals' /\ SwitchOnItsWay'
<1> USE DEF data, chan, tasks, hist
<1>1. CASE VmsTick \/ Wrap
  <2>1. list = <<>> => list' = <<>>
    BY <1>1 DEF VmsTick, Wrap
  <2>2. UNCHANGED <<console, quiet, queue, synth, byTr, midi, key, voice, sound, pending>>
    BY <1>1 DEF VmsTick, Wrap
  <2> QED BY <2>1, <2>2, PlayKept DEF Cleared, Unplayed, NoneSounds, NoneOn, Working
<1>2. CASE VmsTake
  <2>1. UNCHANGED <<console, quiet, queue, synth, byTr, midi, list, key, voice, sound, pending>>
    BY <1>2 DEF VmsTake
  <2> QED BY <2>1, PlayKept DEF Cleared, Unplayed, NoneSounds, NoneOn, Working
<1>3. CASE VmsBlock
  <2>1. list # <<>>
    BY <1>3, WritesMove DEF KInv
  <2>2. UNCHANGED <<console, quiet, queue, synth, byTr, midi, key, sound>>
    BY <1>3 DEF VmsBlock
  <2>3. synth # "MIDI" => UNCHANGED pending
    BY <1>3 DEF VmsBlock, SetKnownValue, SetVoice
  <2> QED BY <2>1, <2>2, <2>3, PlayKept DEF Cleared, Unplayed, NoneSounds, NoneOn, Working
<1>4. ASSUME NEW t \in Writers, Write(t),
             UNCHANGED <<console, quiet, queue, synth, byTr, midi, list, key, voice>>
      PROVE  KillOnItsWay' /\ Goals' /\ SwitchOnItsWay'
  <2>1. NoneOn => NoneOn' /\ (NoneSounds => NoneSounds')
    BY <1>4, WritesMove DEF KInv
  <2>2. (Unplayed => Unplayed') /\ (Cleared => Cleared')
    BY <1>4, <2>1 DEF Unplayed, Cleared
  <2> QED BY <1>4, <2>1, <2>2, PlayKept DEF Unplayed, Working
<1>5. CASE VmsDone
  BY <1>5, <1>4, WritersDiffer DEF VmsDone
<1>6. CASE \E t \in Writers : WriteVoice(t)
  BY <1>6, <1>4 DEF WriteVoice
<1> QED BY <1>1, <1>2, <1>3, <1>5, <1>6, WritersDiffer DEF VmsStep

\* The MIDI task.
LEMMA MidiTaskKept ==
  ASSUME KInv, MidiStep
  PROVE  KillOnItsWay' /\ Goals' /\ SwitchOnItsWay'
<1> USE DEF data, chan, tasks, hist
<1>1. CASE MidiPoll
  <2>1. ~Working'
    BY <1>1, PlacesMove DEF MidiPoll, KInv, Working
  <2>2. UNCHANGED <<console, quiet, queue, synth, byTr, list, key, voice, sound, pending>>
    BY <1>1 DEF MidiPoll
  <2> QED BY <2>1, <2>2, PlayKept DEF Cleared, Unplayed, NoneSounds, NoneOn
<1>2. CASE NoteOn \/ NoteOff \/ Pedal \/ ChannelVolume \/ Bend \/ AllOff
  BY <1>2, ReceiveKept DEF NoteOn, NoteOff, Pedal, ChannelVolume, Bend, AllOff
<1>3. ASSUME MidiMayRun, Working, UNCHANGED <<console, quiet, queue, synth, byTr>>,
             Working' => midi'.late = midi.late,
             NoneSounds /\ NoneOn /\ synth # "MIDI" => NoneSounds' /\ NoneOn'
      PROVE  KillOnItsWay' /\ Goals' /\ SwitchOnItsWay'
  <2>1. \A c \in Consoles : console[c].at \notin {"reset", "mute", "mode"}
    BY <1>3 DEF MidiMayRun, ConsoleReady
  <2> QED BY <1>3, <2>1, PlayKept
<1>4. CASE BendVoice \/ NoteClaim \/ NoteClear
  <2>1. MidiMayRun /\ Working /\ UNCHANGED <<console, quiet, queue, synth, byTr, sound>>
    BY <1>4 DEF BendVoice, NoteClaim, NoteClear, MidiAt, Working
  <2>2. midi'.late = midi.late
    <3>1. BendVoice => midi'.late = midi.late
      BY DEF BendVoice, KInv, Typed, TasksTyped, MidiTyped
    <3>2. NoteClaim \/ NoteClear => \E at : MidiGoes(at)
      BY DEF NoteClaim, NoteClear
    <3> QED BY <1>4, <3>1, <3>2, PlacesMove DEF KInv
  <2>3. synth # "MIDI" => UNCHANGED pending
    BY <1>4 DEF BendVoice, NoteClaim, NoteClear, SetVoice
  <2> QED BY <1>3, <2>1, <2>2, <2>3 DEF NoneSounds, NoneOn
<1>5. CASE NoteFill \/ NoteSwitch \/ NoteFind
  <2>1. MidiMayRun /\ Working /\ UNCHANGED <<console, quiet, queue, synth, byTr, sound, pending>>
    BY <1>5 DEF NoteFill, NoteSwitch, NoteFind, MidiAt, Working
  <2>2. Working' => midi'.late = midi.late
    <3>1. NoteFind => MidiWaits \/ midi'.late = midi.late
      BY DEF NoteFind, KInv, Typed, TasksTyped, MidiTyped
    <3>2. NoteFill \/ NoteSwitch => \E at : MidiGoes(at)
      BY DEF NoteFill, NoteSwitch
    <3> QED BY <1>5, <3>1, <3>2, PlacesMove DEF KInv, Working
  <2> QED BY <1>3, <2>1, <2>2 DEF NoneSounds, NoneOn
<1>6. CASE BendDone \/ NoteFree \/ NoteAdd
  <2>1. MidiMayRun /\ Working /\ UNCHANGED <<console, quiet, queue, synth, byTr>> /\ Write("midi")
    BY <1>6 DEF BendDone, NoteFree, NoteAdd, MidiAt, Working
  <2>2. Working' => midi'.late = midi.late
    <3>1. NoteAdd => midi'.late = midi.late
      BY DEF NoteAdd, KInv, Typed, TasksTyped, MidiTyped
    <3>2. BendDone \/ NoteFree => MidiWaits \/ \E at : MidiGoes(at)
      BY DEF BendDone, NoteFree
    <3> QED BY <1>6, <3>1, <3>2, PlacesMove DEF KInv, Working
  <2>3. NoneOn => NoneOn' /\ (NoneSounds => NoneSounds')
    BY <2>1, WritesMove, WritersDiffer DEF KInv
  <2> QED BY <1>3, <2>1, <2>2, <2>3
<1>7. CASE AllOffDone
  <2>1. MidiMayRun /\ Working /\ UNCHANGED <<console, quiet, queue, synth, byTr, pending>>
    BY <1>7 DEF AllOffDone, ResetMidi, MidiAt, Working
  <2>2. ~Working' /\ NoneSounds'
    BY <1>7, PlacesMove, WritesMove DEF AllOffDone, ResetMidi, KInv, Working
  <2> QED BY <1>3, <2>1, <2>2 DEF NoneOn
<1>8. CASE WriteVoice("midi")
  BY <1>8, VmsTaskKept, WritersDiffer
<1> QED BY <1>1, <1>2, <1>4, <1>5, <1>6, <1>7, <1>8 DEF MidiStep

\* A message comes, or a command is given.
LEMMA BeginsKept ==
  ASSUME KInv, Enqueue \/ \E c \in Consoles : ConsoleBegins(c)
  PROVE  KillOnItsWay' /\ Goals' /\ SwitchOnItsWay'
<1> USE DEF data, chan, tasks, hist
<1>1. CASE Enqueue
  <2>1. UNCHANGED <<console, synth, byTr, list, key, voice, sound, pending>> /\ ~quiet'
    BY <1>1 DEF Enqueue
  <2>2. (NoneSounds <=> NoneSounds') /\ (NoneOn <=> NoneOn') /\ (Unplayed <=> Unplayed')
    BY <2>1 DEF NoneSounds, NoneOn, Unplayed
  <2> QED BY <2>1, <2>2 DEF KInv, KillOnItsWay, Goals, SwitchOnItsWay, Muting, Choosing
<1>2. ASSUME NEW c \in Consoles, ConsoleBegins(c)
      PROVE  KillOnItsWay' /\ Goals' /\ SwitchOnItsWay'
  <2> DEFINE goesOn(at, goal) == /\ console'[c].at = at /\ console'[c].goal = goal
                                 /\ \A d \in Consoles : d # c => console'[d] = console[d]
  <2>1. /\ UNCHANGED <<synth, byTr, list, key, voice, sound, pending, midi>> /\ console[c].at = "idle"
        /\ (NoneSounds <=> NoneSounds') /\ (NoneOn <=> NoneOn') /\ (Unplayed <=> Unplayed')
        /\ (Cleared <=> Cleared') /\ (Working <=> Working')
    <3>1. UNCHANGED <<synth, byTr, list, key, voice, sound, pending, midi>> /\ console[c].at = "idle"
      BY <1>2 DEF ConsoleBegins, BeginKill, BeginSwitch, BeginTransient, BeginPulseWidth, Command, ConsoleAt
    <3> QED BY <3>1 DEF NoneSounds, NoneOn, Unplayed, Cleared, Working
  <2>2. \/ goesOn("panic", "kill") /\ quiet' /\ ~queue'
        \/ /\ \/ goesOn("panic", "param") \/ goesOn("mute", "tr") \/ goesOn("pw", console[c].goal)
           /\ UNCHANGED <<queue, quiet>>
    <3>1. console \in [Consoles -> ConsoleStates]
      BY DEF KInv, Typed, TasksTyped, ConsoleTyped
    <3>2. ASSUME NEW at, NEW goal, console' = [console EXCEPT ![c].at = at, ![c].goal = goal]
          PROVE  goesOn(at, goal)
      BY <3>1, <3>2 DEF ConsoleStates
    <3>3. Goes(c, "pw") => goesOn("pw", console[c].goal)
      BY PlacesMove DEF KInv
    <3> HIDE DEF goesOn
    <3> QED BY <1>2, <3>2, <3>3 DEF ConsoleBegins, BeginKill, BeginSwitch, BeginTransient, BeginPulseWidth
  <2>3. Goals'
    BY <2>1, <2>2 DEF KInv, Goals
  <2>4. SwitchOnItsWay'
    <3>1. \A d \in Consoles : (Muting(d)' => Muting(d)) /\ (Choosing(d)' => Choosing(d))
      BY <2>2, ChoosingPlace DEF Muting
    <3> QED BY <2>1, <3>1 DEF KInv, SwitchOnItsWay
  <2>5. KillOnItsWay'
    <3>1. CASE goesOn("panic", "kill") /\ quiet' /\ ~queue'
      BY <3>1 DEF KillOnItsWay, Killing
    <3>2. CASE UNCHANGED <<queue, quiet>> /\ \A d \in Consoles : d # c => console'[d] = console[d]
      BY <2>1, <3>2 DEF KInv, KillOnItsWay, Killing
    <3> QED BY <2>2, <3>1, <3>2
  <2> QED BY <2>3, <2>4, <2>5
<1> QED BY <1>1, <1>2

\* Nothing is left of the notes after a reset: who holds no semaphore has nothing pending.
LEMMA PanicClears ==
  ASSUME KInv, PanicHandler, UNCHANGED pending
  PROVE  Cleared' /\ Unplayed'
<1>1. pending \in Pendings /\ voice \in [Voices -> VoiceStates]
  BY DEF KInv, Typed, VoicesTyped
<1>2. \A t \in Writers : pending[t] = NoWrite
  BY WritersDiffer DEF KInv, Holds, NotPending, PanicHandler
<1>3. NoneOn'
  BY <1>2 DEF NoneOn, NoWrite
<1>4. \A v \in Voices : voice'[v].current = 0
  <2> SUFFICES ASSUME NEW v \in Voices PROVE voice'[v].current = 0
    OBVIOUS
  <2>1. voice'[v] = [voice[v] EXCEPT !.current = 0, !.tuned = FALSE]
    BY DEF PanicHandler
  <2> QED BY <1>1, <2>1 DEF VoiceStates
<1>5. list' = <<>> /\ \A v \in Voices : key'[v] = NoNote
  BY DEF PanicHandler
<1> QED BY <1>3, <1>4, <1>5 DEF Cleared, Unplayed

\* A step of a console that leaves its notes and the mode alone, and in which it does not
\* kill or switch: only the others are to be looked at.
LEMMA AsideKept ==
  ASSUME KInv, NEW c \in Consoles, UNCHANGED <<quiet, queue, synth, byTr, midi, list, key, voice>>,
         console[c].at \notin {"panic", "reset", "delay", "panic2", "reset2"},
         console'[c].at \in {"idle", "sweep", "tr"},
         \A d \in Consoles : d # c => console'[d] = console[d],
         NoneSounds => NoneSounds', Unplayed => Unplayed', synth # "MIDI" => UNCHANGED pending
  PROVE  KillOnItsWay' /\ Goals' /\ SwitchOnItsWay'
<1>1. Goals'
  BY DEF KInv, Goals
<1>2. \A d \in Consoles : (Muting(d)' => Muting(d)) /\ (Choosing(d)' => Choosing(d))
  BY ChoosingPlace DEF Muting
<1>3. UNCHANGED pending => (NoneOn <=> NoneOn')
  BY DEF NoneOn
<1>4. SwitchOnItsWay'
  BY <1>2, <1>3 DEF KInv, SwitchOnItsWay
<1>5. (Cleared => Cleared') /\ (Working <=> Working')
  BY DEF Cleared, Working
<1>6. KillOnItsWay'
  BY <1>5 DEF KInv, KillOnItsWay, Killing
<1> QED BY <1>1, <1>4, <1>6

\* The steps of a console.
LEMMA ConsoleKept ==
  ASSUME KInv, NEW c \in Consoles, ConsoleStep(c)
  PROVE  KillOnItsWay' /\ Goals' /\ SwitchOnItsWay'
<1> USE DEF data, chan, tasks, hist
<1>0. console \in [Consoles -> ConsoleStates] /\ console[c] \in ConsoleStates
  BY DEF KInv, Typed, TasksTyped, ConsoleTyped
<1>1. CASE Panic(c)
  <2>1. UNCHANGED <<quiet, queue, synth, byTr, midi, sound>> /\ Cleared' /\ Unplayed'
    BY <1>1, PanicClears DEF Panic
  <2>2. /\ \A d \in Consoles : d # c => console'[d] = console[d]
        /\ console'[c].goal = console[c].goal
        /\ \/ console[c].at = "panic" /\ console'[c].at = "reset"
           \/ console[c].at = "panic2" /\ console'[c].at = "reset2"
    BY <1>1, PlacesMove DEF Panic, ConsoleAt, KInv
  <2>3. (NoneSounds <=> NoneSounds') /\ (Working <=> Working') /\ NoneOn'
    BY <2>1 DEF NoneSounds, Working, Unplayed
  <2>4. Goals'
    BY <2>2 DEF KInv, Goals
  <2>5. SwitchOnItsWay'
    <3>1. \A d \in Consoles : Choosing(d)' => Choosing(d)
      BY <2>2, ChoosingPlace
    <3> QED BY <2>1, <2>3, <3>1 DEF KInv, SwitchOnItsWay
  <2>6. KillOnItsWay'
    BY <2>1, <2>2, <2>3 DEF KInv, KillOnItsWay, Killing
  <2> QED BY <2>4, <2>5, <2>6
<1>2. CASE Reset(c)
  <2>1. UNCHANGED <<quiet, queue, synth, byTr, list, key, voice, pending>> /\ NoneSounds'
    BY <1>2, WritesMove DEF Reset, ResetMidi, KInv
  <2>2. (Cleared <=> Cleared') /\ (Unplayed <=> Unplayed') /\ (NoneOn <=> NoneOn')
    BY <2>1 DEF Cleared, Unplayed, NoneOn
  <2>3. \/ /\ Killing(c, {"reset"}) /\ console'[c].at = "delay" /\ console'[c].goal = "kill"
           /\ midi'.late = Working /\ midi'.at = midi.at
        \/ /\ UNCHANGED midi
           /\ \/ console[c].goal = "param" /\ console[c].at = "reset" /\ console'[c].goal = "param" /\ console'[c].at = "mute"
              \/ console[c].at = "reset2" /\ console'[c].at = "idle"
    <3>1. CASE ConsoleAt(c, "reset") /\ console[c].goal = "kill"
      <4>1. Goes(c, "delay") /\ midi' = [midi EXCEPT !.late = midi.at \notin {"idle", "wait"}]
        BY <1>2, <3>1 DEF Reset, ConsoleAt
      <4>2. midi'.at = midi.at /\ midi'.late = Working
        BY <4>1 DEF KInv, Typed, TasksTyped, MidiTyped, Working
      <4> QED BY <3>1, <4>1, <4>2, PlacesMove DEF KInv, Killing, ConsoleAt
    <3>2. CASE ~(ConsoleAt(c, "reset") /\ console[c].goal = "kill")
      BY <1>2, <3>2, PlacesMove DEF Reset, KInv, ConsoleAt
    <3> QED BY <3>1, <3>2
  <2>4. \A d \in Consoles : d # c => console'[d] = console[d]
    BY <1>2, PlacesMove DEF Reset, KInv
  <2>5. Goals'
    BY <2>3, <2>4 DEF KInv, Goals, Killing
  <2>6. SwitchOnItsWay'
    <3>1. \A d \in Consoles : (Muting(d)' => Muting(d)) /\ (Choosing(d)' => Choosing(d))
      BY <2>3, <2>4, ChoosingPlace DEF Muting
    <3> QED BY <2>1, <2>2, <3>1 DEF KInv, SwitchOnItsWay
  <2>7. KillOnItsWay'
    <3>1. Working' <=> Working
      BY <2>3 DEF Working
    <3> QED BY <2>1, <2>2, <2>3, <2>4, <3>1 DEF KInv, KillOnItsWay, Killing
  <2> QED BY <2>5, <2>6, <2>7
<1>3. CASE DelayEnds(c)
  <2>1. /\ UNCHANGED <<quiet, queue, synth, byTr, midi, list, key, voice, sound, pending>> /\ ~midi.late
        /\ console[c].at = "delay" /\ console'[c].at = "panic2" /\ console'[c].goal = console[c].goal
        /\ \A d \in Consoles : d # c => console'[d] = console[d]
    BY <1>3, PlacesMove DEF DelayEnds, ConsoleAt, KInv
  <2>2. /\ (Cleared <=> Cleared') /\ (Unplayed <=> Unplayed') /\ (NoneOn <=> NoneOn')
        /\ (NoneSounds <=> NoneSounds') /\ (Working <=> Working')
    BY <2>1 DEF Cleared, Unplayed, NoneOn, NoneSounds, Working
  <2>3. Goals'
    BY <2>1 DEF KInv, Goals
  <2>4. SwitchOnItsWay'
    <3>1. \A d \in Consoles : (Muting(d)' => Muting(d)) /\ (Choosing(d)' => Choosing(d))
      BY <2>1, ChoosingPlace DEF Muting
    <3> QED BY <2>1, <2>2, <3>1 DEF KInv, SwitchOnItsWay
  <2>5. KillOnItsWay'
    BY <2>1, <2>2 DEF KInv, KillOnItsWay, Killing
  <2> QED BY <2>3, <2>4, <2>5
<1>4. CASE Mute(c)
  <2>1. UNCHANGED <<quiet, queue, synth, byTr, midi, list, key, voice, pending>> /\ NoneSounds' /\ console[c].at = "mute"
    BY <1>4, WritesMove DEF Mute, KInv, ConsoleAt
  <2>2. (Cleared <=> Cleared') /\ (Unplayed <=> Unplayed') /\ (NoneOn <=> NoneOn') /\ (Working <=> Working')
    BY <2>1 DEF Cleared, Unplayed, NoneOn, Working
  <2>3. console'[c].at = "mode" /\ console'[c].todo = <<console[c].goal = "tr">>
    BY <1>0, <1>4 DEF Mute, ConsoleStates
  <2>4. \A d \in Consoles : d # c => console'[d] = console[d]
    BY <1>0, <1>4 DEF Mute
  <2>5. Goals'
    BY <2>3, <2>4 DEF KInv, Goals
  <2>6. Choosing(c)' => Unplayed
    <3>1. \A b \in BOOLEAN : <<b>> = <<FALSE>> => ~b
      OBVIOUS
    <3>2. Choosing(c)' => console[c].goal # "tr"
      BY <2>3, <3>1 DEF Choosing
    <3>3. console[c].goal # "tr" => Muting(c)
      BY <2>1 DEF KInv, Goals, Muting
    <3> QED BY <3>2, <3>3 DEF KInv, SwitchOnItsWay
  <2>7. SwitchOnItsWay'
    <3>1. \A d \in Consoles : (Muting(d)' => Muting(d)) /\ (Choosing(d)' => Choosing(d) \/ d = c)
      BY <2>3, <2>4, ChoosingPlace DEF Muting
    <3> QED BY <2>1, <2>2, <2>6, <3>1 DEF KInv, SwitchOnItsWay
  <2>8. KillOnItsWay'
    BY <2>1, <2>2, <2>4 DEF KInv, KillOnItsWay, Killing
  <2> QED BY <2>5, <2>7, <2>8
<1>5. CASE SetMode(c)
  <2>1. /\ UNCHANGED <<quiet, queue, midi, list, key, voice, sound, pending>>
        /\ console[c].at = "mode" /\ console'[c].at \in {"idle", "tr"}
        /\ \A d \in Consoles : d # c => console'[d] = console[d]
    BY <1>5, PlacesMove DEF SetMode, ConsoleAt, KInv
  <2>2. /\ (Cleared <=> Cleared') /\ (Unplayed <=> Unplayed') /\ (NoneOn <=> NoneOn')
        /\ (NoneSounds <=> NoneSounds') /\ (Working <=> Working')
    BY <2>1 DEF Cleared, Unplayed, NoneOn, NoneSounds, Working
  <2>3. Goals'
    BY <2>1 DEF KInv, Goals
  <2>4. ~byTr' => Choosing(c)
    <3>1. <<TRUE>> \in Seq({TRUE}) /\ <<TRUE>> # <<>>
      OBVIOUS
    <3>2. Head(<<TRUE>>) \in {TRUE}
      BY <3>1, HeadTailProperties
    <3>3. console[c].todo \in {<<TRUE>>, <<FALSE>>} /\ byTr' = Head(console[c].todo)
      BY <1>5, <2>1 DEF SetMode, KInv, Typed, TasksTyped, ConsoleTyped
    <3> QED BY <2>1, <3>2, <3>3 DEF Choosing
  <2>5. SwitchOnItsWay'
    <3>1. \A d \in Consoles : (Muting(d)' => Muting(d)) /\ (Choosing(d)' => Choosing(d))
      BY <2>1, ChoosingPlace DEF Muting
    <3>2. ~byTr' => NoneSounds /\ NoneOn
      BY <2>4 DEF KInv, SwitchOnItsWay, Unplayed
    <3> QED BY <2>2, <3>1, <3>2 DEF KInv, SwitchOnItsWay
  <2>6. KillOnItsWay'
    BY <2>1, <2>2 DEF KInv, KillOnItsWay, Killing
  <2> QED BY <2>3, <2>5, <2>6
<1>6. CASE UpdateTR(c)
  <2>1. UNCHANGED <<quiet, queue, synth, byTr, midi, list, key, voice, pending>> /\ console[c].at = "tr"
    BY <1>6 DEF UpdateTR, ConsoleAt
  <2>2. console'[c].at = "idle" /\ \A d \in Consoles : d # c => console'[d] = console[d]
    BY <1>6, PlacesMove DEF UpdateTR, KInv
  <2>3. NoneSounds => NoneSounds'
    BY <1>6 DEF UpdateTR, NoneSounds, KInv, Typed, VoicesTyped, Sounds
  <2>4. Unplayed => Unplayed'
    BY <2>1 DEF Unplayed, NoneOn
  <2> QED BY <2>1, <2>2, <2>3, <2>4, AsideKept
<1>7. CASE PulseWidthTake(c) \/ PulseWidthDone(c)
  <2>1. /\ UNCHANGED <<quiet, queue, synth, byTr, midi, list, key, voice, sound, pending>>
        /\ console[c].at \in {"pw", "sweep"}
    BY <1>7 DEF PulseWidthTake, PulseWidthDone, ConsoleAt
  <2>2. console'[c].at \in {"idle", "sweep"} /\ \A d \in Consoles : d # c => console'[d] = console[d]
    <3>1. PulseWidthTake(c) => console'[c].at = "sweep" /\ \A d \in Consoles : d # c => console'[d] = console[d]
      BY <1>0 DEF PulseWidthTake, ConsoleStates
    <3>2. PulseWidthDone(c) => console'[c].at = "idle" /\ \A d \in Consoles : d # c => console'[d] = console[d]
      BY PlacesMove DEF PulseWidthDone, KInv
    <3> QED BY <1>7, <3>1, <3>2
  <2>3. (NoneSounds => NoneSounds') /\ (Unplayed => Unplayed')
    BY <2>1 DEF NoneSounds, Unplayed, NoneOn
  <2> QED BY <2>1, <2>2, <2>3, AsideKept
<1>8. CASE PulseWidthVoice(c)
  <2> DEFINE v == Min(console[c].todo)
  <2>1. v \in Voices /\ console[c].at = "sweep"
    BY <1>8, LeastVoice DEF PulseWidthVoice, ConsoleAt, KInv, Typed, TasksTyped, ConsoleTyped
  <2> HIDE DEF v
  <2>2. /\ UNCHANGED <<quiet, queue, synth, byTr, midi, list, key, voice, sound>>
        /\ SetVoice(c, v, Heard(voice[v]))
    BY <1>8 DEF PulseWidthVoice, v
  <2>3. console'[c].at = "sweep" /\ \A d \in Consoles : d # c => console'[d] = console[d]
    BY <1>0, <1>8 DEF PulseWidthVoice, ConsoleAt, ConsoleStates
  <2>4. Unplayed => Unplayed'
    <3>1. SUFFICES ASSUME Unplayed PROVE NoneOn'
      BY <2>2 DEF Unplayed
    <3>2. ~Heard(voice[v])
      BY <2>1, <3>1 DEF Unplayed, Heard
    <3>3. pending \in Pendings
      BY DEF KInv, Typed, VoicesTyped
    <3> QED BY <2>2, <3>1, <3>2, <3>3 DEF SetVoice, Unplayed, NoneOn, Pendings
  <2>5. (NoneSounds => NoneSounds') /\ (synth # "MIDI" => UNCHANGED pending)
    BY <2>2 DEF NoneSounds, SetVoice
  <2> QED BY <2>1, <2>2, <2>3, <2>4, <2>5, AsideKept
<1>9. CASE WriteVoice(c)
  BY <1>9, VmsTaskKept, WritersDiffer
<1> QED BY <1>1, <1>2, <1>3, <1>4, <1>5, <1>6, <1>7, <1>8, <1>9 DEF ConsoleStep

\* The initial state.
LEMMA InitKept == VmsInit => KInv
<1> SUFFICES ASSUME VmsInit PROVE KInv
  OBVIOUS
<1>1. Typed
  BY InitTyped
<1>2. Holds
  BY DEF VmsInit, Holds, NotPending
<1>3. NoneOn /\ NoneSounds
  BY DEF VmsInit, NoneOn, NoWrite, NoneSounds
<1>4. Cleared /\ Unplayed
  BY <1>3 DEF VmsInit, Cleared, Unplayed, Silent
<1>5. KillOnItsWay /\ Goals /\ SwitchOnItsWay
  BY <1>3, <1>4 DEF VmsInit, KillOnItsWay, Goals, SwitchOnItsWay, Working
<1> QED BY <1>1, <1>2, <1>5 DEF KInv

\* Every step.
LEMMA StepKept == KInv /\ [VmsNext]_vars => KInv'
<1> SUFFICES ASSUME KInv, [VmsNext]_vars PROVE KInv'
  OBVIOUS
<1>1. Typed' /\ Holds'
  BY StepTyped, StepHolds DEF KInv
<1>2. CASE UNCHANGED vars
  <2>1. /\ (Cleared <=> Cleared') /\ (Unplayed <=> Unplayed') /\ (NoneOn <=> NoneOn')
        /\ (NoneSounds <=> NoneSounds') /\ (Working <=> Working')
    BY <1>2 DEF vars, Cleared, Unplayed, NoneOn, NoneSounds, Working
  <2>2. UNCHANGED <<console, quiet, queue, midi, synth, byTr>>
    BY <1>2 DEF vars
  <2>3. KillOnItsWay' /\ Goals'
    BY <2>1, <2>2 DEF KInv, KillOnItsWay, Killing, Goals
  <2>4. SwitchOnItsWay'
    BY <2>1, <2>2 DEF KInv, SwitchOnItsWay, Muting, Choosing
  <2> QED BY <1>1, <2>3, <2>4 DEF KInv
<1>3. CASE VmsNext
  <2>1. KillOnItsWay' /\ Goals' /\ SwitchOnItsWay'
    BY <1>3, VmsTaskKept, MidiTaskKept, BeginsKept, ConsoleKept DEF VmsNext
  <2> QED BY <1>1, <2>1 DEF KInv
<1> QED BY <1>2, <1>3

\* The invariant holds always.
LEMMA KInvAlways == VmsSpec => []KInv
BY InitKept, StepKept, PTL DEF VmsSpec

-----------------------------------------------------------------------------
(* The range of the volume *)

\* The values a voice may have, by limits.
InRange(w) == 0 <= w.factor /\ w.factor <= Unity /\ 0 <= w.current /\ w.current <= MaxVol

\* Every voice has its factor between 0 and 1 and a volume below the maximum.
RangeInv == \A v \in Voices : InRange(voice[v])

\* A share of no more than a thousand thousandths.
LEMMA ShareIsSmaller ==
  ASSUME NEW x \in Int, 0 <= x, NEW p \in Int, p <= 1000
  PROVE  /\ x * p \in Int /\ (x * p) \div 1000 \in Int /\ (x * p) \div 1000 <= x
         /\ 0 <= p => 0 <= (x * p) \div 1000
         /\ p <= 0 => (x * p) \div 1000 <= 0
<1>1. x * p \in Int /\ x * p <= 1000 * x
  OBVIOUS
<1>2. (0 <= p => 0 <= x * p) /\ (p <= 0 => x * p <= 0)
  OBVIOUS
<1>3. ASSUME NEW y \in Int
      PROVE  /\ y \div 1000 \in Int /\ (y <= 1000 * x => y \div 1000 <= x)
             /\ (0 <= y => 0 <= y \div 1000) /\ (y <= 0 => y \div 1000 <= 0)
  OBVIOUS
<1> QED BY <1>1, <1>2, <1>3

\* While its goal is not reached a block keeps the factor between the two ends.
LEMMA EvaluateInRange ==
  ASSUME NoOvershoot, NEW id \in BlockIds, Block(id).target = "volume",
         NEW f \in Int, 0 <= f, f <= Unity, ~Reached(Block(id), Evaluate(Block(id), f))
  PROVE  0 <= Evaluate(Block(id), f) /\ Evaluate(Block(id), f) <= Unity
<1> DEFINE b == Block(id)
           g == Evaluate(b, f)
<1> SUFFICES 0 <= g /\ g <= Unity
  OBVIOUS
<1>1. /\ b.type \in BlockTypes /\ b.goal \in Int /\ 0 <= b.goal /\ b.goal <= Unity /\ b.p1 \in Int
      /\ Unity \in Int /\ g \in Int /\ ~Reached(b, g)
  <2>1. b.goal \in 0 .. Unity /\ Unity \in Nat
    BY BlocksTyped, UnityTyped
  <2>2. b.goal \in Int /\ 0 <= b.goal /\ b.goal <= Unity
    BY <2>1
  <2> QED BY <2>1, <2>2, BlocksTyped, EvaluateTyped
<1>2. b.type = "EXP_INV" => Unity <= 2 * b.goal
  <2>1. CASE id \in DOMAIN DefaultBlocks
    BY <2>1 DEF Block, DefaultBlocks
  <2>2. CASE id \notin DOMAIN DefaultBlocks
    BY <2>2 DEF Block, BlockIds, NoOvershoot
  <2> QED BY <2>1, <2>2
<1> HIDE DEF b
<1>9. b.goal \in Int /\ 0 <= b.goal /\ b.goal <= Unity /\ Unity \in Int /\ g \in Int
  BY <1>1
<1>3. b.type # "JUMP" /\ (b.type # "SIN" => IF Rising(b) THEN g < b.goal ELSE g > b.goal)
  <2>1. b.type # "JUMP" /\ (b.type # "SIN" => ~(IF Rising(b) THEN g >= b.goal ELSE g <= b.goal))
    BY <1>1 DEF Reached
  <2> HIDE DEF g
  <2> QED BY <1>9, <2>1
<1>4. CASE b.type = "EXP"
  <2>1. g = IF b.p1 < 5000 /\ Grow(b, f) < 5000 THEN 0 ELSE Grow(b, f)
    BY <1>4 DEF Evaluate
  <2>2. Rising(b) <=> b.p1 > 1000
    BY <1>4 DEF Rising
  <2>3. CASE b.p1 > 1000
    <3>1. 0 <= Grow(b, f) /\ Grow(b, f) \in Int
      <4> DEFINE x == IF b.p1 > 1000 /\ f < 1000 THEN 1000 ELSE f
      <4>1. x \in Int /\ 0 <= x
        OBVIOUS
      <4> HIDE DEF x
      <4>2. x * b.p1 \in Int /\ 0 <= x * b.p1
        BY <1>1, <2>3, <4>1
      <4>3. (x * b.p1) \div 1000 \in Int /\ 0 <= (x * b.p1) \div 1000
        BY <4>2
      <4>4. Grow(b, f) = (x * b.p1) \div 1000
        BY DEF Grow, x
      <4> QED BY <4>3, <4>4
    <3>2. 0 <= g
      BY <2>1, <3>1
    <3>3. g < b.goal
      BY <1>3, <1>4, <2>2, <2>3
    <3> HIDE DEF g
    <3> QED BY <1>9, <3>2, <3>3
  <2>4. CASE ~(b.p1 > 1000)
    <3>1. b.p1 <= 1000
      BY <1>1, <2>4
    <3>2. Grow(b, f) = (f * b.p1) \div 1000
      BY <2>4 DEF Grow
    <3>3. Grow(b, f) \in Int /\ Grow(b, f) <= f
      BY <1>1, <3>1, <3>2, ShareIsSmaller
    <3>4. g <= f
      BY <2>1, <3>3
    <3>5. b.goal < g
      BY <1>1, <1>3, <1>4, <2>2, <2>4
    <3> HIDE DEF g
    <3> QED BY <1>9, <3>4, <3>5
  <2> QED BY <2>3, <2>4
<1>5. CASE b.type = "EXP_INV"
  <2> DEFINE d == Abs(b.goal - f)
             gap == (d * b.p1) \div 1000
  <2>1. g = b.goal - IF gap < 10000 THEN 0 ELSE gap
    BY <1>5 DEF Evaluate, Approach
  <2>2. Rising(b) <=> b.p1 <= 1000
    BY <1>5 DEF Rising
  <2>3. d \in Int /\ 0 <= d /\ (f <= b.goal => d = b.goal - f) /\ (b.goal <= f => d = f - b.goal)
    BY <1>1 DEF Abs
  <2> HIDE DEF d
  <2>4. CASE b.p1 <= 1000
    <3>1. gap \in Int /\ gap <= d
      BY <1>1, <2>3, <2>4, ShareIsSmaller
    <3>2. g < b.goal
      BY <1>3, <1>5, <2>2, <2>4
    <3> HIDE DEF gap
    <3>3. b.goal - d <= g
      BY <1>1, <2>1, <2>3, <3>1
    <3> HIDE DEF g
    <3>4. Unity <= 2 * b.goal
      BY <1>2, <1>5
    <3> QED BY <1>9, <2>3, <3>2, <3>3, <3>4
  <2>5. CASE ~(b.p1 <= 1000)
    <3>1. 0 <= d * b.p1 /\ d * b.p1 \in Int
      BY <1>1, <2>3, <2>5
    <3>2. gap \in Int /\ 0 <= gap
      BY <3>1
    <3> HIDE DEF gap
    <3>3. g <= b.goal
      BY <1>1, <2>1, <3>2
    <3>4. b.goal < g
      BY <1>1, <1>3, <1>5, <2>2, <2>5
    <3> HIDE DEF g
    <3> QED BY <1>1, <3>3, <3>4
  <2> QED BY <2>4, <2>5
<1>6. CASE b.type = "LIN"
  <2>1. g = f + b.p1 /\ (Rising(b) <=> b.p1 > 0)
    BY <1>6 DEF Evaluate, Rising
  <2>2. IF b.p1 > 0 THEN g < b.goal ELSE g > b.goal
    BY <1>3, <1>6, <2>1
  <2> HIDE DEF g
  <2>3. b.p1 \in Int
    BY <1>1
  <2> QED BY <1>9, <2>1, <2>2, <2>3
<1>7. CASE b.type = "SIN"
  <2>1. g = b.goal
    BY <1>7 DEF Evaluate
  <2> HIDE DEF g
  <2> QED BY <1>9, <2>1
<1> HIDE DEF g
<1> QED BY <1>1, <1>4, <1>5, <1>6, <1>7, <1>3 DEF BlockTypes

\* A factor between its ends gives a volume between its ends.
LEMMA VolumeInRange ==
  ASSUME NEW f \in Int, 0 <= f, f <= Unity, NEW target \in {0, MaxVol}
  PROVE  0 <= Volume(f, target) /\ Volume(f, target) <= MaxVol
<1>1. target \in Int /\ 0 <= target /\ target <= MaxVol /\ MaxVol \in Int
  BY DEF MaxVol
<1>2. CASE f = Unity
  BY <1>1, <1>2 DEF Volume
<1>3. CASE f # Unity
  <2> DEFINE x == f \div 16
  <2>1. x \in Int /\ 0 <= x /\ x <= 62500
    BY DEF Unity
  <2> HIDE DEF x
  <2>2. x * target \in Int /\ 0 <= x * target /\ x * target <= 62500 * target
    BY <1>1, <2>1
  <2>3. ASSUME NEW y \in Int, 0 <= y, y <= 62500 * target
        PROVE  0 <= y \div 62500 /\ y \div 62500 <= target
    BY <1>1, <2>3
  <2>4. 0 <= (x * target) \div 62500 /\ (x * target) \div 62500 <= target /\ (x * target) \div 62500 \in Int
    BY <2>2, <2>3
  <2>5. Volume(f, target) = (x * target) \div 62500
    BY <1>3 DEF Volume, x
  <2> QED BY <1>1, <2>4, <2>5
<1> QED BY <1>2, <1>3

\* Only the blocks set a factor, and only to one in its range.
LEMMA RangeStep ==
  ASSUME NoOvershoot, Typed, RangeInv, [VmsNext]_vars
  PROVE  RangeInv'
<1> USE DEF data, chan, tasks, hist
<1>0. voice \in [Voices -> VoiceStates]
  BY DEF Typed, VoicesTyped
<1>1. CASE UNCHANGED voice
  BY <1>1 DEF RangeInv
<1>2. CASE VmsBlock
  <2> DEFINE i == vms.entry
             v == list[i].voice
             b == Block(list[i].id)
             f == Evaluate(b, voice[v].factor)
  <2>1. v \in Voices /\ list[i].id \in BlockIds
    <3>1. i \in Nat \ {0} /\ i <= Len(list) /\ Len(list) \in Nat
      BY <1>2 DEF VmsBlock, Typed, TasksTyped, ListTyped
    <3>2. i \in 1 .. Len(list)
      BY <3>1
    <3> QED BY <3>2, BlockEntriesTyped DEF Typed
  <2>2. \/ UNCHANGED voice
        \/ SetKnownValue("vms", v, b, b.goal)
        \/ SetKnownValue("vms", v, b, f) /\ ~Reached(b, f)
    BY <1>2 DEF VmsBlock
  <2>3. InRange(voice[v]) /\ voice[v].factor \in Int /\ voice[v].target \in {0, MaxVol}
    BY <1>0, <2>1 DEF RangeInv, VoiceStates
  <2>4. b.goal \in Int /\ 0 <= b.goal /\ b.goal <= Unity
    <3>1. b.goal \in 0 .. Unity /\ Unity \in Nat
      BY <2>1, BlocksTyped, UnityTyped
    <3> QED BY <3>1
  <2> HIDE DEF v, b, f
  <2>5. ASSUME NEW g \in Int, 0 <= g, g <= Unity, b.target = "volume", SetKnownValue("vms", v, b, g)
        PROVE  RangeInv'
    <3>1. voice' = [voice EXCEPT ![v].factor = g, ![v].current = Volume(g, voice[v].target)]
      BY <2>5 DEF SetKnownValue
    <3>2. 0 <= Volume(g, voice[v].target) /\ Volume(g, voice[v].target) <= MaxVol
      BY <2>3, <2>5, VolumeInRange
    <3>3. voice'[v].factor = g /\ voice'[v].current = Volume(g, voice[v].target)
      BY <1>0, <2>1, <3>1 DEF VoiceStates
    <3>4. InRange(voice'[v])
      BY <2>5, <3>2, <3>3 DEF InRange
    <3>5. \A w \in Voices : w # v => voice'[w] = voice[w]
      BY <1>0, <3>1
    <3> QED BY <3>4, <3>5 DEF RangeInv
  <2>6. CASE b.target # "volume" /\ \E g : SetKnownValue("vms", v, b, g)
    <3>1. voice' = [voice EXCEPT ![v].tuned = TRUE]
      BY <2>6 DEF SetKnownValue
    <3>2. \A w \in Voices : voice'[w].factor = voice[w].factor /\ voice'[w].current = voice[w].current
      BY <1>0, <2>1, <3>1 DEF VoiceStates
    <3> QED BY <3>2 DEF RangeInv, InRange
  <2>7. CASE b.target = "volume" /\ SetKnownValue("vms", v, b, f) /\ ~Reached(b, f)
    <3>1. 0 <= f /\ f <= Unity /\ f \in Int
      BY <2>1, <2>3, <2>7, EvaluateInRange, EvaluateTyped DEF InRange, b, f
    <3> QED BY <2>5, <2>7, <3>1
  <2> QED BY <1>1, <2>2, <2>4, <2>5, <2>6, <2>7
<1>3. CASE \E w \in Voices : voice' = [voice EXCEPT ![w].tuned = TRUE]
  <2>1. \A w \in Voices : voice'[w].factor = voice[w].factor /\ voice'[w].current = voice[w].current
    BY <1>0, <1>3 DEF VoiceStates
  <2> QED BY <2>1 DEF RangeInv, InRange
<1>4. CASE \E w \in Voices : voice' = [voice EXCEPT ![w] = [Silent EXCEPT !.target = MaxVol, !.tuned = TRUE]]
  <2>1. InRange([Silent EXCEPT !.target = MaxVol, !.tuned = TRUE])
    BY UnityTyped DEF Silent, InRange, MaxVol
  <2> QED BY <1>0, <1>4, <2>1 DEF RangeInv
<1>5. CASE PanicHandler
  <2>1. \A w \in Voices : voice'[w].factor = voice[w].factor /\ voice'[w].current = 0
    BY <1>0, <1>5 DEF PanicHandler, VoiceStates
  <2>2. 0 <= MaxVol
    BY DEF MaxVol
  <2> QED BY <2>1, <2>2 DEF RangeInv, InRange
<1>6. CASE ChannelVolume
  <2>1. \A w \in Voices : voice'[w].factor = voice[w].factor /\ voice'[w].current = voice[w].current
    BY <1>0, <1>6 DEF ChannelVolume, VoiceStates
  <2> QED BY <2>1 DEF RangeInv, InRange
<1>7. CASE VmsStep \/ Wrap \/ Enqueue
  BY <1>1, <1>2, <1>7 DEF VmsStep, Wrap, Enqueue, VmsTick, VmsTake, VmsDone, WriteVoice
<1>8. CASE MidiStep
  <2>1. BendVoice => \E w \in Voices : voice' = [voice EXCEPT ![w].tuned = TRUE]
    <3> SUFFICES ASSUME BendVoice PROVE Min(midi.todo) \in Voices
      BY DEF BendVoice
    <3> QED BY LeastVoice DEF BendVoice, MidiAt, Typed, TasksTyped, MidiTyped
  <2>2. NoteFill => \E w \in Voices : voice' = [voice EXCEPT ![w] = [Silent EXCEPT !.target = MaxVol, !.tuned = TRUE]]
    BY DEF NoteFill, Typed, TasksTyped, MidiTyped
  <2>3. AllOff => PanicHandler
    BY DEF AllOff
  <2>4. MidiStep => BendVoice \/ NoteFill \/ AllOff \/ ChannelVolume \/ UNCHANGED voice
    BY DEF MidiStep, MidiPoll, NoteOn, NoteOff, Pedal, Bend, BendDone, AllOffDone, NoteFind, NoteClaim, NoteFree,
           NoteSwitch, NoteClear, NoteAdd, WriteVoice
  <2> QED BY <1>1, <1>3, <1>4, <1>5, <1>6, <1>8, <2>1, <2>2, <2>3, <2>4
<1>9. ASSUME NEW c \in Consoles, ConsoleBegins(c) \/ ConsoleStep(c) PROVE RangeInv'
  <2>1. PanicHandler \/ UNCHANGED voice
    BY <1>9 DEF ConsoleBegins, BeginKill, BeginSwitch, BeginTransient, BeginPulseWidth, ConsoleStep, Panic, Reset,
           DelayEnds, Mute, SetMode, UpdateTR, PulseWidthTake, PulseWidthVoice, PulseWidthDone, WriteVoice
  <2> QED BY <1>1, <1>5, <2>1
<1>10. CASE UNCHANGED vars
  BY <1>1, <1>10 DEF vars
<1> QED BY <1>7, <1>8, <1>9, <1>10 DEF VmsNext

-----------------------------------------------------------------------------
(* One block for each value *)

\* Two entries that may be on the list together.
Beside(Solo, d, e) ==
    d.voice = e.voice => Block(d.id).target # Block(e.id).target /\ d.id \notin Solo /\ e.id \notin Solo

\* All entries of the list are.
Apart(Solo, l) == \A i, j \in 1 .. Len(l) : i # j => Beside(Solo, l[i], l[j])

\* No entry is for voice v.
FreeOf(l, v) == \A i \in 1 .. Len(l) : l[i].voice # v

\* From the claim of a voice to its first block nothing runs for it.
OneInv(Solo) ==
    /\ Apart(Solo, list)
    /\ midi.at \in {"free", "fill", "on", "clear", "add"} => FreeOf(list, midi.voice)
    /\ midi.at \in {"find", "claim", "free", "fill", "on", "clear", "add"} => midi.todo \in Seq(Solo)

\* The blocks of the other voices stay apart.
LEMMA WithoutVoiceApart ==
  ASSUME NEW Solo, NEW l \in Seq(BlockEntries), NEW v, Apart(Solo, l)
  PROVE  Apart(Solo, WithoutVoice(l, v)) /\ FreeOf(WithoutVoice(l, v), v)
<1>1. PICK f : Others(f, l, v) /\ WithoutVoice(l, v) = f[Len(l)]
  BY WithoutVoiceIsLast
<1> DEFINE Good(n) == /\ Apart(Solo, f[n]) /\ FreeOf(f[n], v)
                      /\ \A k \in 1 .. Len(f[n]) : \E i \in 1 .. n : f[n][k] = l[i]
           S == {n \in Nat : n <= Len(l) => Good(n)}
<1>2. Len(l) \in Nat
  OBVIOUS
<1>3. 0 \in S
  <2>1. f[0] = <<>>
    BY <1>1 DEF Others
  <2> QED BY <2>1 DEF Apart, FreeOf
<1>4. ASSUME NEW n \in Nat, n \in S PROVE n + 1 \in S
  <2> SUFFICES ASSUME n + 1 <= Len(l) PROVE Good(n + 1)
    OBVIOUS
  <2>1. n + 1 \in 1 .. Len(l) /\ n \in 0 .. Len(l) /\ n + 1 - 1 = n /\ n <= Len(l)
    BY <1>2
  <2>2. Good(n) /\ f[n] \in Seq(BlockEntries)
    BY <1>4, <2>1, <1>1 DEF Others
  <2> DEFINE s == f[n]
             e == l[n + 1]
  <2>3. f[n + 1] = IF e.voice = v THEN s ELSE Append(s, e)
    BY <1>1, <2>1 DEF Others
  <2>4. CASE e.voice = v
    <3>1. f[n + 1] = f[n]
      BY <2>3, <2>4
    <3>2. \A i \in 1 .. n : i \in 1 .. n + 1
      OBVIOUS
    <3> QED BY <2>2, <3>1, <3>2
  <2>5. CASE e.voice # v
    <3>1. f[n + 1] = Append(s, e)
      BY <2>3, <2>5
    <3>2. s \in Seq(BlockEntries) /\ Len(s) \in Nat /\ e \in BlockEntries
      BY <2>1, <2>2, ElementOfSeq
    <3> DEFINE t == Append(s, e)
               m == Len(s)
    <3>3. /\ Len(t) = m + 1 /\ t[m + 1] = e
          /\ \A k \in 1 .. m : t[k] = s[k]
      BY <3>2, AppendProperties
    <3>4. \A k \in 1 .. m : \E i \in 1 .. n : t[k] = l[i]
      BY <2>2, <3>3
    <3> HIDE DEF t
    <3>5. \A k \in 1 .. m + 1 : k \in 1 .. m \/ k = m + 1
      BY <3>2
    <3>6. \A i \in 1 .. n : i \in 1 .. Len(l) /\ i # n + 1 /\ i \in 1 .. n + 1
      BY <2>1
    <3>7. \A k \in 1 .. m : Beside(Solo, t[k], e) /\ Beside(Solo, e, t[k])
      BY <2>1, <3>4, <3>6 DEF Apart
    <3>8. \A i, j \in 1 .. m : i # j => Beside(Solo, t[i], t[j])
      BY <2>2, <3>3 DEF Apart
    <3>9. Apart(Solo, t)
      BY <3>3, <3>5, <3>7, <3>8 DEF Apart
    <3>10. FreeOf(t, v)
      BY <2>2, <2>5, <3>3, <3>5 DEF FreeOf
    <3>11. \A k \in 1 .. Len(t) : \E i \in 1 .. n + 1 : t[k] = l[i]
      <4>1. n + 1 \in 1 .. n + 1
        OBVIOUS
      <4> QED BY <3>3, <3>4, <3>5, <3>6, <4>1
    <3> QED BY <3>1, <3>9, <3>10, <3>11 DEF t
  <2> QED BY <2>4, <2>5
<1> HIDE DEF S
<1>5. Nat \subseteq S
  BY <1>3, <1>4, NatSetInduction
<1>6. Good(Len(l))
  BY <1>2, <1>5 DEF S
<1> QED BY <1>1, <1>6

\* A list of which one entry has given way to others, which come last.
LEMMA ReplacedApart ==
  ASSUME NEW Solo, NEW l \in Seq(BlockEntries), Apart(Solo, l), NEW i \in 1 .. Len(l),
         NEW new \in Seq(BlockEntries), Apart(Solo, new),
         \A k \in 1 .. Len(new) : \A j \in 1 .. Len(l) : j # i => Beside(Solo, new[k], l[j])
  PROVE  Apart(Solo, RemoveAt(l, i) \o new)
<1> DEFINE r == RemoveAt(l, i)
           n == Len(l)
           s == r \o new
<1>1. /\ n \in Nat /\ i \in 1 .. n /\ Len(new) \in Nat
      /\ r \in Seq(BlockEntries) /\ Len(r) = n - 1
      /\ \A j \in 1 .. n - 1 : r[j] = IF j < i THEN l[j] ELSE l[j + 1]
  BY RemoveAtTyped
<1> HIDE DEF r
<1>2. /\ Len(s) = n - 1 + Len(new)
      /\ \A j \in 1 .. n - 1 + Len(new) : s[j] = IF j <= n - 1 THEN r[j] ELSE new[j - (n - 1)]
  <2>1. /\ Len(s) = Len(r) + Len(new)
        /\ \A j \in 1 .. Len(r) + Len(new) : s[j] = IF j <= Len(r) THEN r[j] ELSE new[j - Len(r)]
    BY <1>1, ConcatProperties
  <2> HIDE DEF s
  <2> QED BY <1>1, <2>1
<1> HIDE DEF s
\* Where an entry of the new list comes from.
<1> DEFINE old(j) == IF j < i THEN j ELSE j + 1
<1>3. ASSUME NEW j \in 1 .. Len(s), j <= n - 1
      PROVE  old(j) \in 1 .. n /\ old(j) # i /\ s[j] = l[old(j)]
  <2>1. j \in 1 .. n - 1 /\ j \in 1 .. n - 1 + Len(new)
    BY <1>1, <1>2, <1>3
  <2>2. old(j) \in 1 .. n /\ old(j) # i
    BY <1>1, <2>1
  <2>3. s[j] = r[j]
    BY <1>2, <1>3, <2>1
  <2> QED BY <1>1, <2>1, <2>2, <2>3
<1>4. ASSUME NEW j \in 1 .. Len(s), ~(j <= n - 1)
      PROVE  j - (n - 1) \in 1 .. Len(new) /\ s[j] = new[j - (n - 1)]
  <2>1. j - (n - 1) \in 1 .. Len(new) /\ j \in 1 .. n - 1 + Len(new)
    BY <1>1, <1>2, <1>4
  <2> QED BY <1>2, <1>4, <2>1
<1>5. ASSUME NEW j \in 1 .. Len(s), NEW k \in 1 .. Len(s), j # k
      PROVE  Beside(Solo, s[j], s[k])
  <2>1. CASE j <= n - 1 /\ k <= n - 1
    <3>1. old(j) # old(k)
      BY <1>1, <1>2, <1>5
    <3> HIDE DEF old
    <3> QED BY <1>3, <2>1, <3>1 DEF Apart
  <2>2. CASE j <= n - 1 /\ ~(k <= n - 1)
    <3> HIDE DEF old
    <3>1. Beside(Solo, s[k], s[j])
      BY <1>3, <1>4, <2>2
    <3> QED BY <3>1 DEF Beside
  <2>3. CASE ~(j <= n - 1) /\ k <= n - 1
    <3> HIDE DEF old
    <3> QED BY <1>3, <1>4, <2>3
  <2>4. CASE ~(j <= n - 1) /\ ~(k <= n - 1)
    <3>1. j - (n - 1) # k - (n - 1)
      BY <1>1, <1>2, <1>5
    <3> QED BY <1>4, <2>4, <3>1 DEF Apart
  <2> QED BY <2>1, <2>2, <2>3, <2>4
<1> QED BY <1>5 DEF Apart, s, r

\* No entry of a voice comes with the others.
LEMMA ReplacedFree ==
  ASSUME NEW l \in Seq(BlockEntries), NEW i \in 1 .. Len(l), NEW new \in Seq(BlockEntries), NEW v,
         FreeOf(l, v), FreeOf(new, v)
  PROVE  FreeOf(RemoveAt(l, i) \o new, v)
<1> DEFINE r == RemoveAt(l, i)
           n == Len(l)
<1>1. /\ n \in Nat /\ i \in 1 .. n /\ Len(new) \in Nat
      /\ r \in Seq(BlockEntries) /\ Len(r) = n - 1
      /\ \A j \in 1 .. n - 1 : r[j] = IF j < i THEN l[j] ELSE l[j + 1]
  BY RemoveAtTyped
<1> HIDE DEF r
<1>2. FreeOf(r, v)
  <2> SUFFICES ASSUME NEW j \in 1 .. n - 1 PROVE r[j].voice # v
    BY <1>1 DEF FreeOf
  <2>1. j \in 1 .. n /\ j + 1 \in 1 .. n
    BY <1>1
  <2> QED BY <1>1, <2>1 DEF FreeOf
<1>3. /\ Len(r \o new) = Len(r) + Len(new)
      /\ \A j \in 1 .. Len(r) + Len(new) : (r \o new)[j] = IF j <= Len(r) THEN r[j] ELSE new[j - Len(r)]
  BY <1>1, ConcatProperties
<1>4. ASSUME NEW j \in 1 .. Len(r) + Len(new) PROVE (r \o new)[j].voice # v
  <2>1. CASE j <= Len(r)
    <3>1. j \in 1 .. Len(r)
      BY <1>1, <2>1
    <3> QED BY <1>2, <1>3, <2>1, <3>1 DEF FreeOf
  <2>2. CASE ~(j <= Len(r))
    <3>1. j - Len(r) \in 1 .. Len(new)
      BY <1>1, <2>2
    <3> QED BY <1>3, <2>2, <3>1 DEF FreeOf
  <2> QED BY <2>1, <2>2
<1> QED BY <1>3, <1>4 DEF FreeOf, r

\* The blocks that follow a block of a list may take its place there.
LEMMA BlocksFollow ==
  ASSUME NEW Solo \in SUBSET BlockIds, ForksAt(Solo), ListTyped, Apart(Solo, list),
         NEW i \in 1 .. Len(list), NEW b, b = Block(list[i].id)
  PROVE  /\ Apart(Solo, OffBlock(i, b)) /\ Apart(Solo, NextBlock(i, b))
         /\ \A v : FreeOf(list, v) => FreeOf(OffBlock(i, b), v) /\ FreeOf(NextBlock(i, b), v)
<1> DEFINE w == list[i].voice
           id == list[i].id
           off == OffEntry(w, b)
           next == NextEntries(w, b)
<1>1. /\ list \in Seq(BlockEntries) /\ w \in Voices /\ id \in BlockIds
      /\ b.next \in Seq(BlockIds) /\ b.off \in BlockIds \cup {"none"}
  BY BlockEntriesTyped, BlocksTyped DEF ListTyped
<1>2. /\ \A j, k \in 1 .. Len(b.next) :
            j # k => Block(b.next[j]).target # Block(b.next[k]).target /\ b.next[j] \notin Solo
      /\ id \notin Solo =>
           /\ \A k \in 1 .. Len(b.next) : Block(b.next[k]).target = b.target /\ b.next[k] \notin Solo
           /\ b.off # "none" => Block(b.off).target = b.target /\ b.off \notin Solo
  BY <1>1 DEF ForksAt
<1>3. ASSUME NEW j \in 1 .. Len(list), j # i, list[j].voice = w
      PROVE  b.target # Block(list[j].id).target /\ id \notin Solo /\ list[j].id \notin Solo
  BY <1>3 DEF Apart, Beside
<1>4. ASSUME NEW x \in BlockIds, id \notin Solo => Block(x).target = b.target /\ x \notin Solo
      PROVE  \A j \in 1 .. Len(list) : j # i => Beside(Solo, Entry(w, x), list[j])
  BY <1>3, <1>4 DEF Beside, Entry
<1>5. \A x \in BlockIds : Entry(w, x) \in BlockEntries /\ Entry(w, x).voice = w /\ Entry(w, x).id = x
  BY <1>1 DEF Entry, BlockEntries
<1>6. /\ off \in Seq(BlockEntries) /\ Apart(Solo, off)
      /\ \A k \in 1 .. Len(off) : off[k].voice = w
      /\ \A k \in 1 .. Len(off) : \A j \in 1 .. Len(list) : j # i => Beside(Solo, off[k], list[j])
  <2>1. CASE b.off = "none"
    <3>1. off = <<>>
      BY <2>1 DEF OffEntry
    <3> QED BY <3>1 DEF Apart
  <2>2. CASE b.off # "none"
    <3> DEFINE e == Entry(w, b.off)
    <3>1. off = <<e>> /\ b.off \in BlockIds
      BY <1>1, <2>2 DEF OffEntry
    <3>2. \A j \in 1 .. Len(list) : j # i => Beside(Solo, e, list[j])
      BY <1>2, <1>4, <2>2, <3>1
    <3>3. e \in BlockEntries /\ e.voice = w
      BY <1>5, <3>1
    <3> HIDE DEF e, off
    <3>4. Len(off) = 1 /\ off[1] = e /\ off \in Seq(BlockEntries)
      BY <3>1, <3>3
    <3>5. \A k \in 1 .. Len(off) : k = 1
      BY <3>4
    <3> QED BY <3>2, <3>3, <3>4, <3>5 DEF Apart
  <2> QED BY <2>1, <2>2
<1>7. /\ next \in Seq(BlockEntries) /\ Apart(Solo, next)
      /\ \A k \in 1 .. Len(next) : next[k].voice = w
      /\ \A k \in 1 .. Len(next) : \A j \in 1 .. Len(list) : j # i => Beside(Solo, next[k], list[j])
  <2>1. Len(b.next) \in Nat /\ DOMAIN b.next = 1 .. Len(b.next) /\ \A k \in 1 .. Len(b.next) : b.next[k] \in BlockIds
    BY <1>1, LenProperties, ElementOfSeq
  <2>2. next = [k \in 1 .. Len(b.next) |-> Entry(w, b.next[k])]
    BY <2>1 DEF NextEntries
  <2>3. next \in [1 .. Len(b.next) -> BlockEntries]
    BY <1>5, <2>1, <2>2
  <2>4. next \in Seq(BlockEntries) /\ Len(next) = Len(b.next)
    BY <2>1, <2>3, SeqDef, LenProperties
  <2>5. \A k \in 1 .. Len(next) : next[k] = Entry(w, b.next[k]) /\ next[k].voice = w /\ next[k].id = b.next[k]
    BY <1>5, <2>1, <2>2, <2>4
  <2> HIDE DEF next
  <2>6. Apart(Solo, next)
    BY <1>2, <2>4, <2>5 DEF Apart, Beside
  <2>7. \A k \in 1 .. Len(next) : \A j \in 1 .. Len(list) : j # i => Beside(Solo, next[k], list[j])
    BY <1>2, <1>4, <2>1, <2>4, <2>5
  <2> QED BY <2>4, <2>5, <2>6, <2>7
<1>8. [list EXCEPT ![i].due = "soon"] \in Seq(BlockEntries) /\ Len([list EXCEPT ![i].due = "soon"]) = Len(list)
      /\ \A j \in 1 .. Len(list) : /\ [list EXCEPT ![i].due = "soon"][j].voice = list[j].voice
                                   /\ [list EXCEPT ![i].due = "soon"][j].id = list[j].id
  <2>1. \A j \in 1 .. Len(list) : list[j] \in BlockEntries
    BY <1>1, ElementOfSeq
  <2>2. [list[i] EXCEPT !.due = "soon"] \in BlockEntries
    BY <2>1 DEF BlockEntries
  <2> DEFINE t == [list EXCEPT ![i] = [list[i] EXCEPT !.due = "soon"]]
  <2>3. t \in Seq(BlockEntries) /\ Len(t) = Len(list)
        /\ \A j \in 1 .. Len(list) : t[j] = IF j = i THEN [list[i] EXCEPT !.due = "soon"] ELSE list[j]
    BY <1>1, <2>2, ExceptSeq
  <2> HIDE DEF t
  <2>4. \A j \in 1 .. Len(list) : t[j].voice = list[j].voice /\ t[j].id = list[j].id
    BY <2>1, <2>3 DEF BlockEntries
  <2> QED BY <2>3, <2>4 DEF t
<1> DEFINE rest == [list EXCEPT ![i].due = "soon"]
<1> HIDE DEF off, next
<1>9. Apart(Solo, rest) /\ \A v : FreeOf(list, v) => FreeOf(rest, v)
  <2> HIDE DEF rest
  <2> QED BY <1>8 DEF Apart, Beside, FreeOf, rest
<1>10. OffBlock(i, b) = RemoveAt(list, i) \o off
  BY DEF OffBlock, off
<1>11. NextBlock(i, b) = IF b.persistent THEN rest ELSE RemoveAt(list, i) \o next
  BY DEF NextBlock, next
<1> HIDE DEF rest
<1>12. Apart(Solo, RemoveAt(list, i) \o off) /\ Apart(Solo, RemoveAt(list, i) \o next)
  BY <1>1, <1>6, <1>7, ReplacedApart
<1>13. ASSUME NEW v, FreeOf(list, v)
       PROVE  FreeOf(RemoveAt(list, i) \o off, v) /\ FreeOf(RemoveAt(list, i) \o next, v)
  <2>1. w # v
    BY <1>13 DEF FreeOf
  <2>2. FreeOf(off, v) /\ FreeOf(next, v)
    BY <1>6, <1>7, <2>1 DEF FreeOf
  <2> QED BY <1>1, <1>6, <1>7, <1>13, <2>2, ReplacedFree
<1> QED BY <1>9, <1>10, <1>11, <1>12, <1>13

\* A list whose entries are of the same voices and blocks.
LEMMA SameBlocks ==
  ASSUME NEW Solo, NEW l, NEW m, Len(m) = Len(l), Apart(Solo, l),
         \A j \in 1 .. Len(l) : m[j].voice = l[j].voice /\ m[j].id = l[j].id
  PROVE  Apart(Solo, m) /\ \A v : FreeOf(l, v) => FreeOf(m, v)
BY DEF Apart, Beside, FreeOf

\* A tick and a wrap change when the blocks are due, not which they are.
LEMMA TimeKeepsEntries ==
  ASSUME ListTyped, VmsTick \/ Wrap
  PROVE  /\ Len(list) \in Nat /\ Len(list') = Len(list)
         /\ \A j \in 1 .. Len(list) : list'[j].voice = list[j].voice /\ list'[j].id = list[j].id
<1>1. /\ list \in Seq(BlockEntries) /\ Len(list) \in Nat /\ DOMAIN list = 1 .. Len(list)
      /\ \A j \in 1 .. Len(list) : list[j] \in BlockEntries
  BY LenProperties, ElementOfSeq DEF ListTyped
<1>2. /\ DOMAIN list' = 1 .. Len(list)
      /\ \A j \in 1 .. Len(list) : /\ list'[j] \in BlockEntries
                                   /\ list'[j].voice = list[j].voice /\ list'[j].id = list[j].id
      /\ list' = [j \in 1 .. Len(list) |-> list'[j]]
  BY <1>1 DEF VmsTick, Wrap, BlockEntries
<1>3. list' \in [1 .. Len(list) -> BlockEntries]
  BY <1>2
<1>4. list' \in Seq(BlockEntries) /\ Len(list') = Len(list)
  BY <1>1, <1>3, SeqDef, LenProperties
<1> QED BY <1>1, <1>2, <1>4

\* A block that waits for the next tick is still the same block.
LEMMA WaitingKeepsEntries ==
  ASSUME ListTyped, NEW i \in 1 .. Len(list), NEW t, t = [list EXCEPT ![i].due = "soon"]
  PROVE  /\ Len(list) \in Nat /\ Len(t) = Len(list)
         /\ \A j \in 1 .. Len(list) : t[j].voice = list[j].voice /\ t[j].id = list[j].id
<1>1. /\ list \in Seq(BlockEntries) /\ Len(list) \in Nat
      /\ \A j \in 1 .. Len(list) : list[j] \in BlockEntries
  BY ElementOfSeq DEF ListTyped
<1>2. [list[i] EXCEPT !.due = "soon"] \in BlockEntries
  BY <1>1 DEF BlockEntries
<1> DEFINE m == [list EXCEPT ![i] = [list[i] EXCEPT !.due = "soon"]]
<1>3. Len(m) = Len(list)
      /\ \A j \in 1 .. Len(list) : m[j] = IF j = i THEN [list[i] EXCEPT !.due = "soon"] ELSE list[j]
  BY <1>1, <1>2, ExceptSeq
<1>4. t = m
  OBVIOUS
<1> HIDE DEF m
<1> QED BY <1>1, <1>3, <1>4 DEF BlockEntries

\* As time passes the blocks stay apart.
LEMMA TimeKeepsBlocks ==
  ASSUME NEW Solo, ListTyped, Apart(Solo, list), VmsTick \/ Wrap
  PROVE  Apart(Solo, list') /\ \A v : FreeOf(list, v) => FreeOf(list', v)
BY TimeKeepsEntries, SameBlocks

\* A block that waits stands apart as before.
LEMMA WaitingKeepsBlocks ==
  ASSUME NEW Solo, ListTyped, Apart(Solo, list), NEW i \in 1 .. Len(list)
  PROVE  /\ Apart(Solo, [list EXCEPT ![i].due = "soon"])
         /\ \A v : FreeOf(list, v) => FreeOf([list EXCEPT ![i].due = "soon"], v)
<1>1. PICK t : t = [list EXCEPT ![i].due = "soon"]
  OBVIOUS
<1>2. /\ Len(t) = Len(list)
      /\ \A j \in 1 .. Len(list) : t[j].voice = list[j].voice /\ t[j].id = list[j].id
  BY <1>1, WaitingKeepsEntries
<1>3. Apart(Solo, t) /\ \A v : FreeOf(list, v) => FreeOf(t, v)
  BY <1>2, SameBlocks
<1> QED BY <1>1, <1>3

\* The first block of a voice that has none stands apart.
LEMMA FirstBlock ==
  ASSUME NEW Solo \in SUBSET BlockIds, ListTyped, Apart(Solo, list), NEW v \in Voices, FreeOf(list, v),
         NEW id \in BlockIds
  PROVE  Apart(Solo, Append(list, Entry(v, id)))
<1> DEFINE e == Entry(v, id)
           t == Append(list, e)
           n == Len(list)
<1>1. e \in BlockEntries /\ e.voice = v
  BY DEF Entry, BlockEntries
<1>2. list \in Seq(BlockEntries) /\ n \in Nat
  BY DEF ListTyped
<1> HIDE DEF e
<1>3. /\ Len(t) = n + 1 /\ t[n + 1] = e
      /\ \A k \in 1 .. n : t[k] = list[k]
  BY <1>1, <1>2, AppendProperties
<1> HIDE DEF t
<1>4. \A k \in 1 .. n + 1 : k \in 1 .. n \/ k = n + 1
  BY <1>2
<1>5. \A k \in 1 .. n : Beside(Solo, t[k], e) /\ Beside(Solo, e, t[k])
  BY <1>1, <1>3 DEF FreeOf, Beside
<1>6. Apart(Solo, t)
  BY <1>3, <1>4, <1>5 DEF Apart
<1> QED BY <1>6 DEF t, e

\* The steps of the VMS task.
LEMMA VmsTaskOne ==
  ASSUME NEW Solo \in SUBSET BlockIds, ForksAt(Solo), Typed, Apart(Solo, list), VmsBlock
  PROVE  Apart(Solo, list') /\ \A v : FreeOf(list, v) => FreeOf(list', v)
<1> DEFINE i == vms.entry
           b == Block(list[i].id)
<1>1. i \in 1 .. Len(list) /\ ListTyped
  <2>1. i \in Nat \ {0} /\ i <= Len(list) /\ Len(list) \in Nat
    BY DEF VmsBlock, Typed, TasksTyped, ListTyped
  <2> QED BY <2>1 DEF Typed
<1>2. list' \in {list, OffBlock(i, b), NextBlock(i, b), [list EXCEPT ![i].due = "soon"]}
  BY DEF VmsBlock
<1>3. /\ Apart(Solo, OffBlock(i, b)) /\ Apart(Solo, NextBlock(i, b))
      /\ \A v : FreeOf(list, v) => FreeOf(OffBlock(i, b), v) /\ FreeOf(NextBlock(i, b), v)
  BY <1>1, BlocksFollow
<1>4. /\ Apart(Solo, [list EXCEPT ![i].due = "soon"])
      /\ \A v : FreeOf(list, v) => FreeOf([list EXCEPT ![i].due = "soon"], v)
  BY <1>1, WaitingKeepsBlocks
<1> HIDE DEF i, b
<1> QED BY <1>2, <1>3, <1>4

\* The MIDI task claims a voice, and only then adds its first block.
LEMMA MidiTaskOne ==
  ASSUME NEW Solo \in SUBSET BlockIds, ForksAt(Solo), Typed, OneInv(Solo), MidiStep
  PROVE  OneInv(Solo)'
<1> USE DEF data, chan, tasks, hist
<1>1. CASE UNCHANGED list /\ (midi'.at \in {"wait", "idle", "sweep", "reset"} \/ UNCHANGED midi)
  BY <1>1 DEF OneInv
<1>2. MidiPoll \/ NoteOff \/ Pedal \/ ChannelVolume \/ Bend \/ BendDone \/ AllOffDone \/ BendVoice
        \/ WriteVoice("midi") => UNCHANGED list /\ (midi'.at \in {"wait", "idle", "sweep", "reset"} \/ UNCHANGED midi)
  <2>1. midi.at = midi.at /\ midi \in [at : MidiPlaces, todo : Seq(BlockIds) \cup SUBSET Voices,
                                        note : Notes \cup {NoNote}, voice : Voices, late : BOOLEAN]
    BY DEF Typed, TasksTyped, MidiTyped
  <2>2. NoteOff \/ Pedal \/ ChannelVolume \/ BendDone \/ AllOffDone => UNCHANGED list /\ midi'.at = "wait"
    BY DEF NoteOff, Pedal, ChannelVolume, BendDone, AllOffDone, MidiWaits
  <2>3. MidiPoll => UNCHANGED list /\ midi'.at \in {"wait", "idle"}
    BY <2>1 DEF MidiPoll, MidiGoes
  <2>4. Bend => UNCHANGED list /\ midi'.at = "sweep"
    BY <2>1 DEF Bend
  <2>5. BendVoice => UNCHANGED list /\ midi'.at = "sweep"
    BY <2>1 DEF BendVoice, MidiAt
  <2>6. WriteVoice("midi") => UNCHANGED list /\ UNCHANGED midi
    BY DEF WriteVoice
  <2> QED BY <2>2, <2>3, <2>4, <2>5, <2>6
<1>3. CASE NoteOn
  <2>1. PICK n \in Notes : midi' = [midi EXCEPT !.at = "find", !.todo = Entries[n], !.note = n]
    BY <1>3 DEF NoteOn
  <2>2. midi'.at = "find" /\ midi'.todo = Entries[n]
    BY <2>1 DEF Typed, TasksTyped, MidiTyped
  <2>3. Entries[n] \in Seq(Solo)
    BY DEF ForksAt
  <2>4. UNCHANGED list
    BY <1>3 DEF NoteOn
  <2> QED BY <2>2, <2>3, <2>4 DEF OneInv
<1>4. CASE AllOff
  <2>1. list' = <<>> /\ midi'.at = "reset"
    BY <1>4 DEF AllOff, PanicHandler, MidiGoes, Typed, TasksTyped, MidiTyped
  <2> QED BY <2>1 DEF OneInv, Apart
<1>5. CASE NoteFind
  <2>1. UNCHANGED list /\ midi.at = "find"
    BY <1>5 DEF NoteFind, MidiAt
  <2>2. CASE MidiWaits
    BY <1>1, <2>1, <2>2 DEF MidiWaits
  <2>3. CASE \E v \in NextVoices : midi' = [midi EXCEPT !.at = "claim", !.voice = v]
    <3>1. midi'.at = "claim" /\ midi'.todo = midi.todo
      BY <2>3 DEF Typed, TasksTyped, MidiTyped
    <3> QED BY <2>1, <3>1 DEF OneInv
  <2> QED BY <1>5, <2>2, <2>3 DEF NoteFind
<1>6. CASE NoteClaim
  <2>1. /\ list' = WithoutVoice(list, midi.voice) /\ midi.at = "claim"
        /\ midi'.at = "free" /\ midi'.todo = midi.todo /\ midi'.voice = midi.voice
    BY <1>6 DEF NoteClaim, MidiAt, MidiGoes, Typed, TasksTyped, MidiTyped
  <2>2. Apart(Solo, list') /\ FreeOf(list', midi.voice)
    BY <2>1, WithoutVoiceApart DEF OneInv, Typed, ListTyped
  <2> QED BY <2>1, <2>2 DEF OneInv
<1>7. CASE NoteFree \/ NoteFill \/ NoteSwitch \/ NoteClear
  <2>1. /\ UNCHANGED list /\ midi.at \in {"free", "fill", "on", "clear"}
        /\ midi'.at \in {"fill", "on", "clear", "add"} /\ midi'.todo = midi.todo /\ midi'.voice = midi.voice
    BY <1>7 DEF NoteFree, NoteFill, NoteSwitch, NoteClear, MidiAt, MidiGoes, Typed, TasksTyped, MidiTyped
  <2> QED BY <2>1 DEF OneInv
<1>8. CASE NoteAdd
  <2>1. /\ list' = Append(list, Entry(midi.voice, Head(midi.todo))) /\ midi.at = "add"
        /\ midi'.at = "find" /\ midi'.todo = Tail(midi.todo) /\ midi.todo # <<>>
        /\ midi.voice \in Voices
    BY <1>8 DEF NoteAdd, MidiAt, Typed, TasksTyped, MidiTyped
  <2>2. midi.todo \in Seq(Solo) /\ FreeOf(list, midi.voice) /\ Apart(Solo, list)
    BY <2>1 DEF OneInv
  <2>3. Head(midi.todo) \in Solo /\ Tail(midi.todo) \in Seq(Solo)
    BY <2>1, <2>2, HeadTailProperties
  <2>4. Apart(Solo, list')
    BY <2>1, <2>2, <2>3, FirstBlock DEF Typed
  <2> QED BY <2>1, <2>3, <2>4 DEF OneInv
<1> QED BY <1>1, <1>2, <1>3, <1>4, <1>5, <1>6, <1>7, <1>8 DEF MidiStep

\* A step of any task.
LEMMA StepOne ==
  ASSUME NEW Solo \in SUBSET BlockIds, ForksAt(Solo), Typed, OneInv(Solo), [VmsNext]_vars
  PROVE  OneInv(Solo)'
<1> USE DEF data, chan, tasks, hist
<1>1. ASSUME Apart(Solo, list'), \A v : FreeOf(list, v) => FreeOf(list', v),
             midi'.at = midi.at, midi'.todo = midi.todo, midi'.voice = midi.voice
      PROVE  OneInv(Solo)'
  BY <1>1 DEF OneInv
<1>2. CASE UNCHANGED list /\ midi'.at = midi.at /\ midi'.todo = midi.todo /\ midi'.voice = midi.voice
  BY <1>2 DEF OneInv
<1>3. CASE VmsTick \/ Wrap
  <2>1. UNCHANGED midi
    BY <1>3 DEF VmsTick, Wrap
  <2> QED BY <1>1, <1>3, <2>1, TimeKeepsBlocks DEF Typed, OneInv
<1>4. CASE VmsBlock
  <2>1. UNCHANGED midi
    BY <1>4 DEF VmsBlock
  <2> QED BY <1>1, <1>4, <2>1, VmsTaskOne DEF OneInv
<1>5. CASE VmsTake \/ VmsDone \/ WriteVoice("vms") \/ Enqueue \/ UNCHANGED vars
  BY <1>2, <1>5 DEF VmsTake, VmsDone, WriteVoice, Enqueue, vars
<1>6. ASSUME NEW c \in Consoles, ConsoleBegins(c) \/ ConsoleStep(c) PROVE OneInv(Solo)'
  <2>1. CASE Panic(c)
    <3>1. list' = <<>> /\ UNCHANGED midi
      BY <2>1 DEF Panic, PanicHandler
    <3>2. Apart(Solo, list') /\ \A v : FreeOf(list', v)
      BY <3>1 DEF Apart, FreeOf
    <3> QED BY <1>1, <3>1, <3>2
  <2>2. CASE Reset(c)
    <3>1. UNCHANGED list /\ midi'.at = midi.at /\ midi'.todo = midi.todo /\ midi'.voice = midi.voice
      BY <2>2 DEF Reset, Typed, TasksTyped, MidiTyped
    <3> QED BY <1>2, <3>1
  <2>3. Panic(c) \/ Reset(c) \/ UNCHANGED <<list, midi>>
    BY <1>6 DEF ConsoleBegins, BeginKill, BeginSwitch, BeginTransient, BeginPulseWidth, ConsoleStep,
           DelayEnds, Mute, SetMode, UpdateTR, PulseWidthTake, PulseWidthVoice, PulseWidthDone, WriteVoice
  <2> QED BY <1>2, <2>1, <2>2, <2>3
<1> QED BY <1>3, <1>4, <1>5, <1>6, MidiTaskOne DEF VmsNext, VmsStep

-----------------------------------------------------------------------------
(* Every voice that is heard has a block *)

\* An entry of l shapes the volume of voice v.
HasVolume(l, v) == \E i \in 1 .. Len(l) : l[i].voice = v /\ Block(l[i].id).target = "volume"

\* The MIDI task is at one of these steps of starting a note on voice v.
Starting(v, where) == midi.at \in where /\ midi.voice = v

\* A voice has a volume only as long as a block looks after it, or a new note is taking it.
VolumeIsShaped ==
    \A v \in Voices : voice[v].current # 0 => HasVolume(list, v) \/ Starting(v, {"free", "fill"})

\* What a voice that is heard is waiting for.
Led(v) ==
    \/ HasVolume(list, v)
    \/ \E t \in Writers : ~NotPending(t) /\ pending[t].voice = v
    \/ Starting(v, {"fill", "on", "clear"})
    \/ midi.at = "reset" \/ \E c \in Consoles : console[c].at \in {"reset", "reset2"}

\* A voice that is heard is led.
HeardIsLed == \A v \in Voices : synth = "MIDI" /\ sound[v] = "midi" => Led(v)

\* Who has decided to switch a voice on has seen a volume that is still there.
OnHasVolume == \A t \in Writers : pending[t].on => voice[pending[t].voice].current # 0

\* The MIDI task silences the voice it is starting a note on.
ClaimSilences ==
    midi.at \in {"free", "add"} /\ ~NotPending("midi") =>
        ~pending["midi"].on /\ pending["midi"].voice = midi.voice

\* Nobody has decided to write a voice.
NonePending == \A t \in Writers : NotPending(t)

\* When the mode becomes MIDI nothing is left from the time before.
MidiOnItsWay ==
    \A c \in Consoles :
      /\ console[c].at = "mute" /\ console[c].goal = "tr" => mode # "MIDI"
      /\ Muting(c) /\ synth # "MIDI" => NonePending
      /\ console[c].at = "mode" /\ console[c].goal = "MIDI" /\ synth # "MIDI" => NonePending /\ NoneSounds

\* Nobody has used the command tr.
NoTransient ==
    /\ ~byTr
    /\ \A c \in Consoles : /\ console[c].at = "mute" => console[c].goal = "param"
                           /\ console[c].at = "mode" => console[c].todo = <<FALSE>>

\* Either it is not used, or one console does one thing at a time.
ModesMeet == IF CanTransient THEN MidiOnItsWay ELSE NoTransient

\* A task that works on the voices, with the semaphore.
AtWork(t) ==
    \/ t = "vms" /\ vms.at = "run"
    \/ t = "midi" /\ MidiHolds
    \/ t \in Consoles /\ console[t].at = "sweep"

\* Only such a task has decided to write one.
PendingAtWork == \A t \in Writers : ~NotPending(t) => AtWork(t)

\* The invariant of the blocks and the voices, and of the tasks.
AllLed == VolumeIsShaped /\ HeardIsLed /\ OnHasVolume /\ ClaimSilences
LedInv == AllLed /\ PendingAtWork /\ ModesMeet

\* A list with the same entries, whenever they are due, and perhaps more.
LEMMA SameVolume ==
  ASSUME NEW l, NEW m, Len(l) \in Nat, Len(m) \in Nat, Len(m) >= Len(l),
         \A j \in 1 .. Len(l) : m[j].voice = l[j].voice /\ m[j].id = l[j].id
  PROVE  \A v : HasVolume(l, v) => HasVolume(m, v)
<1> SUFFICES ASSUME NEW v, HasVolume(l, v) PROVE HasVolume(m, v)
  OBVIOUS
<1>1. PICK i \in 1 .. Len(l) : l[i].voice = v /\ Block(l[i].id).target = "volume"
  BY DEF HasVolume
<1>2. i \in 1 .. Len(m) /\ m[i].voice = v /\ Block(m[i].id).target = "volume"
  BY <1>1
<1> QED BY <1>2 DEF HasVolume

\* The blocks of the other voices stay.
LEMMA WithoutVoiceVolume ==
  ASSUME NEW l \in Seq(BlockEntries), NEW v, NEW u, u # v, HasVolume(l, u)
  PROVE  HasVolume(WithoutVoice(l, v), u)
<1>1. PICK f : Others(f, l, v) /\ WithoutVoice(l, v) = f[Len(l)]
  BY WithoutVoiceIsLast
<1>2. PICK p \in 1 .. Len(l) : l[p].voice = u /\ Block(l[p].id).target = "volume"
  BY DEF HasVolume
<1>3. Len(l) \in Nat
  OBVIOUS
<1> DEFINE S == {n \in Nat : p <= n /\ n <= Len(l) => HasVolume(f[n], u)}
<1>4. 0 \in S
  BY <1>2
<1>5. ASSUME NEW n \in Nat, n \in S PROVE n + 1 \in S
  <2> SUFFICES ASSUME p <= n + 1, n + 1 <= Len(l) PROVE HasVolume(f[n + 1], u)
    OBVIOUS
  <2> DEFINE s == f[n]
             e == l[n + 1]
  <2>1. n + 1 \in 1 .. Len(l) /\ n \in 0 .. Len(l) /\ n + 1 - 1 = n
    BY <1>3
  <2>2. s \in Seq(BlockEntries) /\ Len(s) \in Nat /\ e \in BlockEntries
    <3>1. s \in Seq(BlockEntries)
      BY <1>1, <2>1 DEF Others
    <3>2. e \in BlockEntries
      BY <2>1, ElementOfSeq
    <3> QED BY <3>1, <3>2
  <2>3. f[n + 1] = IF e.voice = v THEN s ELSE Append(s, e)
    BY <1>1, <2>1 DEF Others
  <2> HIDE DEF s, e
  <2>4. /\ Len(Append(s, e)) = Len(s) + 1 /\ Append(s, e)[Len(s) + 1] = e
        /\ \A k \in 1 .. Len(s) : Append(s, e)[k] = s[k]
    BY <2>2, AppendProperties
  <2> DEFINE t == Append(s, e)
  <2> HIDE DEF t
  <2>5. CASE p <= n
    <3>1. HasVolume(s, u)
      BY <1>5, <2>5 DEF s
    <3>2. HasVolume(t, u)
      <4>1. Len(t) \in Nat /\ Len(t) >= Len(s) /\ \A k \in 1 .. Len(s) : t[k].voice = s[k].voice /\ t[k].id = s[k].id
        BY <2>2, <2>4 DEF t
      <4> QED BY <2>2, <3>1, <4>1, SameVolume
    <3> QED BY <2>3, <3>1, <3>2 DEF t
  <2>6. CASE p = n + 1
    <3>1. e.voice = u /\ Block(e.id).target = "volume"
      BY <1>2, <2>6 DEF e
    <3>2. f[n + 1] = t /\ Len(t) = Len(s) + 1 /\ t[Len(s) + 1] = e
      BY <2>3, <2>4, <3>1 DEF t
    <3>3. Len(s) + 1 \in 1 .. Len(t)
      BY <2>2, <3>2
    <3> QED BY <3>1, <3>2, <3>3 DEF HasVolume
  <2> QED BY <2>5, <2>6
<1> HIDE DEF S
<1>6. Nat \subseteq S
  BY <1>4, <1>5, NatSetInduction
<1> QED BY <1>1, <1>2, <1>3, <1>6 DEF S

\* Entries take the place of one: the others stay, and the new ones count.
LEMMA ReplacedVolume ==
  ASSUME NEW l \in Seq(BlockEntries), NEW i \in 1 .. Len(l), NEW m \in Seq(BlockEntries), NEW u
  PROVE  /\ HasVolume(l, u) /\ ~(l[i].voice = u /\ Block(l[i].id).target = "volume")
              => HasVolume(RemoveAt(l, i) \o m, u)
         /\ HasVolume(m, u) => HasVolume(RemoveAt(l, i) \o m, u)
<1> DEFINE r == RemoveAt(l, i)
<1>1. /\ r \in Seq(BlockEntries) /\ Len(r) = Len(l) - 1 /\ Len(l) \in Nat /\ Len(m) \in Nat
      /\ \A j \in 1 .. Len(l) - 1 : r[j] = IF j < i THEN l[j] ELSE l[j + 1]
  BY RemoveAtTyped
<1> HIDE DEF r
<1>2. /\ Len(r \o m) = Len(r) + Len(m)
      /\ \A j \in 1 .. Len(r) + Len(m) : (r \o m)[j] = IF j <= Len(r) THEN r[j] ELSE m[j - Len(r)]
  BY <1>1, ConcatProperties
<1> DEFINE t == r \o m
<1> HIDE DEF t
<1>3. ASSUME HasVolume(l, u), ~(l[i].voice = u /\ Block(l[i].id).target = "volume")
      PROVE  HasVolume(t, u)
  <2>1. PICK k \in 1 .. Len(l) : l[k].voice = u /\ Block(l[k].id).target = "volume"
    BY <1>3 DEF HasVolume
  <2>2. k # i
    BY <1>3, <2>1
  <2>3. PICK j \in 1 .. Len(l) - 1 : r[j] = l[k]
    <3>1. CASE k < i
      <4>1. k \in 1 .. Len(l) - 1
        BY <1>1, <3>1
      <4> QED BY <1>1, <3>1, <4>1
    <3>2. CASE k > i
      <4>1. k - 1 \in 1 .. Len(l) - 1 /\ ~(k - 1 < i) /\ k - 1 + 1 = k
        BY <1>1, <3>2
      <4> QED BY <1>1, <4>1
    <3> QED BY <2>2, <3>1, <3>2
  <2>4. j \in 1 .. Len(t) /\ t[j] = l[k]
    BY <1>1, <1>2, <2>3 DEF t
  <2> QED BY <2>1, <2>4 DEF HasVolume
<1>4. ASSUME HasVolume(m, u)
      PROVE  HasVolume(t, u)
  <2>1. PICK k \in 1 .. Len(m) : m[k].voice = u /\ Block(m[k].id).target = "volume"
    BY <1>4 DEF HasVolume
  <2>2. Len(r) + k \in 1 .. Len(r) + Len(m) /\ ~(Len(r) + k <= Len(r)) /\ Len(r) + k - Len(r) = k
    BY <1>1
  <2>3. t[Len(r) + k] = m[k] /\ Len(t) = Len(r) + Len(m)
    BY <1>2, <2>2 DEF t
  <2> QED BY <2>1, <2>2, <2>3 DEF HasVolume
<1> QED BY <1>3, <1>4 DEF t, r

\* What becomes of the voice the MIDI task is starting a note on, when it does not begin
\* or end a stretch with the semaphore.
StartGoesOn ==
    /\ \A v : Starting(v, {"free", "fill"}) => Starting(v, {"free", "fill"})'
    /\ \A v : Starting(v, {"fill", "on", "clear"}) => Starting(v, {"fill", "on", "clear"})'
    /\ midi.at = "reset" => midi'.at = "reset"
    /\ midi'.at \in {"free", "add"} => midi'.at = midi.at /\ midi'.voice = midi.voice

\* A console that is to reset the voices still is.
ResetsGoOn ==
    \A c \in Consoles : console[c].at \in {"reset", "reset2"} => console'[c].at \in {"reset", "reset2"}

\* Voices and blocks stay, and nobody decides or writes.
LEMMA LedStays ==
  ASSUME AllLed, UNCHANGED <<sound, pending, synth>>, StartGoesOn, ResetsGoOn,
         \A v \in Voices : voice'[v].current = voice[v].current,
         \A v \in Voices : HasVolume(list, v) => HasVolume(list', v),
         pending \in Pendings
  PROVE  AllLed'
<1>1. VolumeIsShaped'
  BY DEF AllLed, VolumeIsShaped, StartGoesOn
<1>2. HeardIsLed'
  <2> SUFFICES ASSUME NEW v \in Voices, synth = "MIDI", sound[v] = "midi" PROVE Led(v)'
    BY DEF HeardIsLed
  <2>1. Led(v)
    BY DEF AllLed, HeardIsLed
  <2>2. \A t \in Writers : NotPending(t)' <=> NotPending(t)
    BY DEF NotPending
  <2> QED BY <2>1, <2>2 DEF Led, StartGoesOn, ResetsGoOn
<1>3. OnHasVolume'
  BY DEF AllLed, OnHasVolume, Pendings
<1>4. ClaimSilences'
  BY DEF AllLed, ClaimSilences, StartGoesOn, NotPending
<1> QED BY <1>1, <1>2, <1>3, <1>4 DEF AllLed

\* A voice that was decided on is written: on, if it has a volume.
LEMMA LedWritten ==
  ASSUME Typed, Holds, AllLed, NEW t \in Writers, Write(t), UNCHANGED <<voice, synth>>, StartGoesOn, ResetsGoOn,
         \A v \in Voices : HasVolume(list, v) => HasVolume(list', v)
  PROVE  AllLed'
<1>1. pending \in Pendings /\ sound \in Sounds
  BY DEF Typed, VoicesTyped
<1>2. /\ NotPending(t)' /\ \A u \in Writers : u # t => pending'[u] = pending[u]
      /\ \A u \in Writers : pending'[u].on => pending'[u] = pending[u]
  BY <1>1 DEF Write, NotPending, Pendings, NoWrite
<1>3. VolumeIsShaped'
  BY DEF AllLed, VolumeIsShaped, StartGoesOn
<1>4. HeardIsLed'
  <2> SUFFICES ASSUME NEW v \in Voices, synth = "MIDI", sound'[v] = "midi" PROVE Led(v)'
    BY DEF HeardIsLed
  <2>1. CASE ~NotPending(t) /\ pending[t].voice = v
    <3>1. pending[t].on /\ sem = t
      BY <1>1, <2>1 DEF Write, Holds, Sounds
    <3>2. HasVolume(list, v) \/ Starting(v, {"free", "fill"})
      BY <2>1, <3>1 DEF AllLed, OnHasVolume, VolumeIsShaped
    <3>3. ~Starting(v, {"free"})
      BY <2>1, <3>1 DEF AllLed, ClaimSilences, Starting, Holds
    <3>4. HasVolume(list', v) \/ Starting(v, {"fill", "on", "clear"})'
      BY <3>2, <3>3 DEF StartGoesOn, Starting
    <3> QED BY <3>4 DEF Led
  <2>2. CASE ~(~NotPending(t) /\ pending[t].voice = v)
    <3>1. sound[v] = "midi"
      BY <1>1, <2>2 DEF Write, Sounds, Pendings
    <3>2. Led(v)
      BY <3>1 DEF AllLed, HeardIsLed
    <3>3. \A u \in Writers : ~NotPending(u) /\ pending[u].voice = v => ~NotPending(u)' /\ pending'[u].voice = v
      BY <1>2, <2>2 DEF NotPending
    <3> QED BY <3>2, <3>3 DEF Led, StartGoesOn, ResetsGoOn
  <2> QED BY <2>1, <2>2
<1>5. OnHasVolume'
  BY <1>2 DEF AllLed, OnHasVolume
<1>6. ClaimSilences'
  <2>1. t = "midi" => NotPending("midi")'
    BY <1>2
  <2>2. t # "midi" => pending'["midi"] = pending["midi"]
    BY <1>2, WritersDiffer
  <2> QED BY <2>1, <2>2 DEF AllLed, ClaimSilences, StartGoesOn, NotPending
<1> QED BY <1>3, <1>4, <1>5, <1>6 DEF AllLed

\* A task decides on a voice, as its volume says.
LEMMA LedDecided ==
  ASSUME Typed, Holds, AllLed, NEW t \in Writers, sem = t, NotPending(t), t = "midi" => midi.at = "sweep",
         NEW v \in Voices, NEW on \in BOOLEAN, SetVoice(t, v, on), on => voice'[v].current # 0,
         UNCHANGED <<sound, synth>>, StartGoesOn, ResetsGoOn,
         \A u \in Voices : u # v => voice'[u].current = voice[u].current,
         \A u \in Voices : u # v /\ HasVolume(list, u) => HasVolume(list', u),
         voice'[v].current # 0 => HasVolume(list', v) \/ Starting(v, {"free", "fill"})'
  PROVE  AllLed'
<1>1. pending \in Pendings /\ sound \in Sounds
  BY DEF Typed, VoicesTyped
<1>2. \A u \in Writers : NotPending(u)
  BY DEF Holds
<1>3. /\ \A u \in Writers : u # t => pending'[u] = NoWrite
      /\ synth = "MIDI" => pending'[t] = [voice |-> v, on |-> on, who |-> "midi"]
      /\ synth # "MIDI" => pending'[t] = NoWrite
  BY <1>1, <1>2 DEF SetVoice, NotPending, Pendings
<1>4. VolumeIsShaped'
  BY DEF AllLed, VolumeIsShaped, StartGoesOn
<1>5. HeardIsLed'
  <2> SUFFICES ASSUME NEW u \in Voices, synth = "MIDI", sound[u] = "midi" PROVE Led(u)'
    BY DEF HeardIsLed
  <2>1. CASE u = v
    <3>1. ~NotPending(t)' /\ pending'[t].voice = v
      BY <1>3 DEF NotPending, NoWrite
    <3> QED BY <2>1, <3>1 DEF Led
  <2>2. CASE u # v
    <3>1. Led(u)
      BY DEF AllLed, HeardIsLed
    <3> QED BY <1>2, <2>2, <3>1 DEF Led, StartGoesOn, ResetsGoOn
  <2> QED BY <2>1, <2>2
<1>6. OnHasVolume'
  <2> SUFFICES ASSUME NEW u \in Writers, pending'[u].on PROVE voice'[pending'[u].voice].current # 0
    BY DEF OnHasVolume
  <2>1. u = t /\ synth = "MIDI"
    BY <1>3 DEF NoWrite
  <2> QED BY <1>3, <2>1
<1>7. ClaimSilences'
  <2>1. midi'.at \in {"free", "add"} => t # "midi"
    BY DEF StartGoesOn
  <2> QED BY <1>3, <2>1, WritersDiffer DEF ClaimSilences, NotPending
<1> QED BY <1>4, <1>5, <1>6, <1>7 DEF AllLed

\* The notes are cleared away, and a reset of the voices follows.
LEMMA LedPanicked ==
  ASSUME KInv, PanicHandler, UNCHANGED <<sound, pending, synth>>,
         midi'.at = "reset" \/ \E c \in Consoles : console'[c].at \in {"reset", "reset2"}
  PROVE  AllLed' /\ NonePending'
<1>1. \A v \in Voices : voice'[v].current = 0
  BY PanicClears DEF Unplayed
<1>2. \A t \in Writers : NotPending(t) /\ NotPending(t)'
  BY WritersDiffer DEF KInv, Holds, NotPending, PanicHandler
<1>3. \A t \in Writers : ~pending'[t].on
  BY <1>2 DEF NotPending, NoWrite
<1>4. VolumeIsShaped' /\ HeardIsLed' /\ OnHasVolume'
  BY <1>1, <1>3 DEF VolumeIsShaped, HeardIsLed, Led, OnHasVolume
<1>5. ClaimSilences'
  BY <1>2, WritersDiffer DEF ClaimSilences
<1> QED BY <1>2, <1>4, <1>5 DEF AllLed, NonePending

\* All voices are switched off.
LEMMA LedKilled ==
  ASSUME AllLed, KillAudio, UNCHANGED <<pending, voice, list>>,
         \A v : Starting(v, {"free", "fill"}) => Starting(v, {"free", "fill"})',
         midi'.at \in {"free", "add"} => midi'.at = midi.at /\ midi'.voice = midi.voice
  PROVE  AllLed'
<1>1. VolumeIsShaped'
  BY DEF AllLed, VolumeIsShaped
<1>2. HeardIsLed'
  BY DEF KillAudio, HeardIsLed
<1>3. OnHasVolume' /\ ClaimSilences'
  BY DEF AllLed, OnHasVolume, ClaimSilences, NotPending
<1> QED BY <1>1, <1>2, <1>3 DEF AllLed

\* As time passes every voice keeps the blocks of its volume.
LEMMA TimeKeepsVolume ==
  ASSUME ListTyped, VmsTick \/ Wrap
  PROVE  \A v : HasVolume(list, v) => HasVolume(list', v)
<1>1. /\ Len(list) \in Nat /\ Len(list') \in Nat /\ Len(list') >= Len(list)
      /\ \A j \in 1 .. Len(list) : list'[j].voice = list[j].voice /\ list'[j].id = list[j].id
  BY TimeKeepsEntries
<1> QED BY <1>1, SameVolume

\* A block that waits looks after its voice as before.
LEMMA WaitingKeepsVolume ==
  ASSUME ListTyped, NEW i \in 1 .. Len(list)
  PROVE  \A v : HasVolume(list, v) => HasVolume([list EXCEPT ![i].due = "soon"], v)
<1>1. PICK t : t = [list EXCEPT ![i].due = "soon"]
  OBVIOUS
<1>2. /\ Len(list) \in Nat /\ Len(t) \in Nat /\ Len(t) >= Len(list)
      /\ \A j \in 1 .. Len(list) : t[j].voice = list[j].voice /\ t[j].id = list[j].id
  BY <1>1, WaitingKeepsEntries
<1> QED BY <1>1, <1>2, SameVolume

\* A block of the list that is released or ends leaves every voice the blocks of its
\* volume, unless it leaves its own voice silent.
LEMMA FollowersShape ==
  ASSUME EndsSilent, ListTyped, NEW i \in 1 .. Len(list), NEW b, b = Block(list[i].id)
  PROVE  /\ b.normal => \A u : HasVolume(list, u) => HasVolume(OffBlock(i, b), u)
         /\ b.type # "SIN" => \A u : HasVolume(list, u) =>
              \/ HasVolume(NextBlock(i, b), u)
              \/ u = list[i].voice /\ b.target = "volume" /\ b.goal = 0
<1> DEFINE w == list[i].voice
           off == OffEntry(w, b)
           next == NextEntries(w, b)
<1>1. /\ list \in Seq(BlockEntries) /\ w \in Voices /\ list[i].id \in BlockIds
      /\ b.next \in Seq(BlockIds) /\ b.off \in BlockIds \cup {"none"}
  BY BlockEntriesTyped, BlocksTyped DEF ListTyped
<1>2. b.target = "volume" =>
        /\ b.normal => b.off # "none" /\ Block(b.off).target = "volume"
        /\ b.type # "SIN" /\ ~b.persistent /\ b.goal # 0 => \E k \in 1 .. Len(b.next) : Block(b.next[k]).target = "volume"
  BY <1>1 DEF EndsSilent
<1>3. \A x \in BlockIds : Entry(w, x) \in BlockEntries /\ Entry(w, x).voice = w /\ Entry(w, x).id = x
  BY <1>1 DEF Entry, BlockEntries
<1>4. off \in Seq(BlockEntries) /\ (b.off # "none" => Len(off) = 1 /\ off[1].voice = w /\ off[1].id = b.off)
  <2>1. CASE b.off = "none"
    BY <2>1 DEF OffEntry
  <2>2. CASE b.off # "none"
    <3> DEFINE e == Entry(w, b.off)
    <3>1. off = <<e>> /\ e \in BlockEntries /\ e.voice = w /\ e.id = b.off
      BY <1>1, <1>3, <2>2 DEF OffEntry
    <3> HIDE DEF e, off
    <3> QED BY <3>1
  <2> QED BY <2>1, <2>2
<1>5. /\ next \in Seq(BlockEntries) /\ Len(next) = Len(b.next)
      /\ \A k \in 1 .. Len(b.next) : next[k].voice = w /\ next[k].id = b.next[k]
  <2>1. Len(b.next) \in Nat /\ DOMAIN b.next = 1 .. Len(b.next) /\ \A k \in 1 .. Len(b.next) : b.next[k] \in BlockIds
    BY <1>1, LenProperties, ElementOfSeq
  <2>2. next = [k \in 1 .. Len(b.next) |-> Entry(w, b.next[k])]
    BY <2>1 DEF NextEntries
  <2>3. next \in [1 .. Len(b.next) -> BlockEntries]
    BY <1>3, <2>1, <2>2
  <2>4. next \in Seq(BlockEntries) /\ Len(next) = Len(b.next)
    BY <2>1, <2>3, SeqDef, LenProperties
  <2> QED BY <1>3, <2>1, <2>2, <2>4
<1>6. OffBlock(i, b) = RemoveAt(list, i) \o off
  BY DEF OffBlock
<1>7. NextBlock(i, b) = IF b.persistent THEN [list EXCEPT ![i].due = "soon"] ELSE RemoveAt(list, i) \o next
  BY DEF NextBlock
<1> HIDE DEF off, next
<1>8. ASSUME b.normal, NEW u, HasVolume(list, u)
      PROVE  HasVolume(RemoveAt(list, i) \o off, u)
  <2>1. ASSUME w = u, b.target = "volume" PROVE HasVolume(off, u)
    <3>1. b.off # "none" /\ Block(b.off).target = "volume"
      BY <1>2, <1>8, <2>1
    <3>2. Len(off) = 1 /\ off[1].voice = u /\ off[1].id = b.off
      BY <1>4, <2>1, <3>1
    <3>3. 1 \in 1 .. Len(off) /\ off[1].voice = u /\ Block(off[1].id).target = "volume"
      BY <3>1, <3>2
    <3> QED BY <3>3 DEF HasVolume
  <2> QED BY <1>1, <1>4, <1>8, <2>1, ReplacedVolume
<1>9. ASSUME b.type # "SIN", NEW u, HasVolume(list, u), ~(u = w /\ b.target = "volume" /\ b.goal = 0)
      PROVE  HasVolume(NextBlock(i, b), u)
  <2>1. CASE b.persistent
    BY <1>7, <1>9, <2>1, WaitingKeepsVolume
  <2>2. CASE ~b.persistent
    <3>1. w = u /\ b.target = "volume" => HasVolume(next, u)
      BY <1>2, <1>5, <1>9, <2>2 DEF HasVolume
    <3>2. HasVolume(RemoveAt(list, i) \o next, u)
      BY <1>1, <1>5, <1>9, <3>1, ReplacedVolume
    <3> QED BY <1>7, <2>2, <3>2
  <2> QED BY <2>1, <2>2
<1> QED BY <1>6, <1>8, <1>9

\* Nothing of the start of a note, and no console, moves.
LEMMA NothingMoves ==
  ASSUME UNCHANGED <<midi, console>>
  PROVE  StartGoesOn /\ ResetsGoOn
BY DEF StartGoesOn, ResetsGoOn, Starting

\* A block is evaluated.
LEMMA VmsBlockLed ==
  ASSUME EndsSilent, Typed, Holds, AllLed, VmsBlock
  PROVE  AllLed'
<1>0. PICK i, v, b, f : /\ i = vms.entry /\ v = list[i].voice /\ b = Block(list[i].id)
                        /\ f = Evaluate(b, voice[v].factor)
  OBVIOUS
<1>1. /\ i \in 1 .. Len(list) /\ ListTyped /\ pending \in Pendings /\ voice \in [Voices -> VoiceStates]
      /\ list[i].voice \in Voices /\ v \in Voices
  <2>1. i \in Nat \ {0} /\ i <= Len(list) /\ Len(list) \in Nat /\ ListTyped
    BY <1>0 DEF VmsBlock, Typed, TasksTyped, ListTyped
  <2>2. i \in 1 .. Len(list)
    BY <2>1
  <2>3. list[i].voice \in Voices
    BY <2>1, <2>2, BlockEntriesTyped
  <2> QED BY <1>0, <2>1, <2>2, <2>3 DEF Typed, VoicesTyped
<1>2. UNCHANGED <<mode, synth, sem, sound, midi, console>> /\ StartGoesOn /\ ResetsGoOn
  BY NothingMoves DEF VmsBlock
<1>3. sem = "vms" /\ "vms" \in Writers /\ NotPending("vms")
  BY WritersDiffer DEF VmsBlock, Holds
<1>4. \/ UNCHANGED <<list, voice, pending>>
      \/ Released(v, b) /\ list' = OffBlock(i, b) /\ UNCHANGED <<voice, pending>>
      \/ b.type # "SIN" /\ list' = NextBlock(i, b) /\ SetKnownValue("vms", v, b, b.goal)
      \/ list' = [list EXCEPT ![i].due = "soon"] /\ SetKnownValue("vms", v, b, f)
  <2>1. Reached(b, f) => b.type # "SIN"
    BY DEF Reached
  <2> QED BY <1>0, <2>1 DEF VmsBlock
<1>5. /\ b.normal => \A u : HasVolume(list, u) => HasVolume(OffBlock(i, b), u)
      /\ b.type # "SIN" => \A u : HasVolume(list, u) =>
           \/ HasVolume(NextBlock(i, b), u)
           \/ u = v /\ b.target = "volume" /\ b.goal = 0
  BY <1>0, <1>1, FollowersShape
<1>6. \A u : HasVolume(list, u) => HasVolume([list EXCEPT ![i].due = "soon"], u)
  BY <1>1, WaitingKeepsVolume
<1>7. b.target = "volume" => HasVolume(list, v)
  BY <1>0, <1>1 DEF HasVolume
<1>8. ASSUME UNCHANGED <<voice, pending>>, \A u : HasVolume(list, u) => HasVolume(list', u)
      PROVE  AllLed'
  BY <1>1, <1>2, <1>8, LedStays
<1>9. ASSUME NEW g, SetKnownValue("vms", v, b, g),
             \A u : HasVolume(list, u) => HasVolume(list', u) \/ (u = v /\ b.target = "volume" /\ g = 0)
      PROVE  AllLed'
  <2>1. PICK on \in BOOLEAN : SetVoice("vms", v, on) /\ (on => voice'[v].current # 0)
    <3>1. CASE b.target = "volume"
      <4>1. SetVoice("vms", v, Heard(voice'[v])) /\ Heard(voice'[v]) \in BOOLEAN
        BY <1>9, <3>1 DEF SetKnownValue, Heard
      <4> QED BY <4>1 DEF Heard
    <3>2. CASE b.target # "volume"
      <4>1. /\ voice' = [voice EXCEPT ![v].tuned = TRUE] /\ SetVoice("vms", v, voice[v].current # 0)
            /\ (voice[v].current # 0) \in BOOLEAN
        BY <1>9, <3>2 DEF SetKnownValue
      <4>2. voice'[v].current = voice[v].current
        BY <1>1, <4>1 DEF VoiceStates
      <4> QED BY <4>1, <4>2
    <3> QED BY <3>1, <3>2
  <2>2. \A u \in Voices : u # v => voice'[u].current = voice[u].current
    BY <1>1, <1>9 DEF SetKnownValue
  <2>3. voice'[v].current # 0 => HasVolume(list', v) \/ Starting(v, {"free", "fill"})'
    <3>1. CASE b.target = "volume"
      <4>1. voice'[v].current = Volume(g, voice[v].target)
        BY <1>1, <1>9, <3>1 DEF SetKnownValue, VoiceStates
      <4>2. Volume(0, voice[v].target) = 0
        <5>1. voice[v].target \in {0, MaxVol} /\ MaxVol \in Int /\ 0 \div 16 = 0 /\ Unity # 0
          BY <1>1 DEF VoiceStates, MaxVol, Unity
        <5>2. (0 \div 16) * voice[v].target = 0 /\ 0 \div 62500 = 0
          BY <5>1
        <5> QED BY <5>1, <5>2 DEF Volume
      <4> QED BY <1>7, <1>9, <3>1, <4>1, <4>2
    <3>2. CASE b.target # "volume"
      <4>1. voice'[v].current = voice[v].current
        BY <1>1, <1>9, <3>2 DEF SetKnownValue, VoiceStates
      <4>2. voice[v].current # 0 => HasVolume(list, v) \/ Starting(v, {"free", "fill"})
        BY <1>1 DEF AllLed, VolumeIsShaped
      <4> QED BY <1>2, <1>9, <3>2, <4>1, <4>2 DEF StartGoesOn
    <3> QED BY <3>1, <3>2
  <2>4. \A u \in Voices : u # v /\ HasVolume(list, u) => HasVolume(list', u)
    BY <1>9
  <2> QED BY <1>1, <1>2, <1>3, <2>1, <2>2, <2>3, <2>4, LedDecided
<1>10. CASE UNCHANGED <<list, voice, pending>>
  BY <1>8, <1>10
<1>11. CASE Released(v, b) /\ list' = OffBlock(i, b) /\ UNCHANGED <<voice, pending>>
  BY <1>5, <1>8, <1>11 DEF Released
<1>12. CASE b.type # "SIN" /\ list' = NextBlock(i, b) /\ SetKnownValue("vms", v, b, b.goal)
  BY <1>5, <1>9, <1>12
<1>13. CASE list' = [list EXCEPT ![i].due = "soon"] /\ SetKnownValue("vms", v, b, f)
  BY <1>6, <1>9, <1>13
<1> QED BY <1>4, <1>10, <1>11, <1>12, <1>13

\* The VMS task, and the writes between two steps.
LEMMA VmsTaskLed ==
  ASSUME EndsSilent, Typed, Holds, AllLed, VmsStep \/ Wrap \/ \E t \in Writers : WriteVoice(t)
  PROVE  AllLed'
<1> USE DEF data, chan, tasks, hist
<1>1. CASE VmsTick \/ Wrap \/ VmsTake
  <2>1. UNCHANGED <<sound, pending, synth, voice, midi, console>>
    BY <1>1 DEF VmsTick, Wrap, VmsTake
  <2>2. \A v : HasVolume(list, v) => HasVolume(list', v)
    <3>1. VmsTake => UNCHANGED list
      BY DEF VmsTake
    <3> QED BY <1>1, <3>1, TimeKeepsVolume DEF Typed
  <2> QED BY <2>1, <2>2, NothingMoves, LedStays DEF Typed, VoicesTyped
<1>2. CASE VmsBlock
  BY <1>2, VmsBlockLed
<1>3. ASSUME NEW t \in Writers, Write(t), UNCHANGED <<voice, synth, list, midi, console>>
      PROVE  AllLed'
  BY <1>3, NothingMoves, LedWritten
<1>4. CASE VmsDone
  BY <1>3, <1>4, WritersDiffer DEF VmsDone
<1>5. CASE \E t \in Writers : WriteVoice(t)
  BY <1>3, <1>5 DEF WriteVoice
<1> QED BY <1>1, <1>2, <1>4, <1>5, WritersDiffer DEF VmsStep

\* When the MIDI task may run, the others have nothing to write.
LEMMA MidiFindsNone ==
  ASSUME Typed, PendingAtWork, MidiMayRun, ~MidiHolds
  PROVE  NonePending
<1>1. vms.at # "run"
  BY DEF MidiMayRun, VmsReady, Typed, TasksTyped
<1>2. \A c \in Consoles : console[c].at # "sweep"
  BY DEF MidiMayRun, ConsoleReady
<1> QED BY <1>1, <1>2 DEF PendingAtWork, AtWork, NonePending

\* The MIDI task, when it starts no note.
LEMMA MessageLed ==
  ASSUME KInv, AllLed,
         MidiPoll \/ NoteOn \/ NoteOff \/ Pedal \/ ChannelVolume \/ Bend \/ BendVoice \/ BendDone \/ AllOff \/ AllOffDone
  PROVE  AllLed'
<1> USE DEF data, chan, tasks, hist
<1>0. /\ pending \in Pendings /\ voice \in [Voices -> VoiceStates]
      /\ midi \in [at : MidiPlaces, todo : Seq(BlockIds) \cup SUBSET Voices, note : Notes \cup {NoNote},
                   voice : Voices, late : BOOLEAN]
  BY DEF KInv, Typed, VoicesTyped, TasksTyped, MidiTyped
<1>1. ASSUME UNCHANGED console PROVE ResetsGoOn
  BY <1>1 DEF ResetsGoOn
<1>2. ASSUME midi.at \notin {"free", "fill", "on", "clear", "reset"}, midi'.at \notin {"free", "add"} PROVE StartGoesOn
  BY <1>2 DEF StartGoesOn, Starting
<1>3. CASE MidiPoll \/ NoteOn \/ NoteOff \/ Pedal \/ ChannelVolume \/ Bend
  <2>1. /\ UNCHANGED <<sound, pending, synth, list, console>>
        /\ midi.at \in {"idle", "wait"} /\ midi'.at \in {"wait", "idle", "find", "sweep"}
    <3>1. MidiPoll => /\ UNCHANGED <<sound, pending, synth, list, console>>
                      /\ midi.at \in {"idle", "wait"} /\ midi'.at \in {"wait", "idle"}
      BY PlacesMove DEF MidiPoll, MidiAt, KInv
    <3>2. NoteOff \/ Pedal \/ ChannelVolume =>
            UNCHANGED <<sound, pending, synth, list, console>> /\ midi.at = "wait" /\ midi'.at = "wait"
      BY DEF NoteOff, Pedal, ChannelVolume, Receive, MidiAt, MidiWaits
    <3>3. NoteOn \/ Bend =>
            UNCHANGED <<sound, pending, synth, list, console>> /\ midi.at = "wait" /\ midi'.at \in {"find", "sweep"}
      BY <1>0 DEF NoteOn, Bend, Receive, MidiAt
    <3> QED BY <1>3, <3>1, <3>2, <3>3
  <2>2. \A v \in Voices : voice'[v].current = voice[v].current
    <3>1. ChannelVolume => \A v \in Voices : voice'[v].current = voice[v].current
      BY <1>0 DEF ChannelVolume, VoiceStates
    <3>2. MidiPoll \/ NoteOn \/ NoteOff \/ Pedal \/ Bend => UNCHANGED voice
      BY DEF MidiPoll, NoteOn, NoteOff, Pedal, Bend
    <3> QED BY <1>3, <3>1, <3>2
  <2>3. StartGoesOn /\ ResetsGoOn
    BY <1>1, <1>2, <2>1
  <2> QED BY <1>0, <2>1, <2>2, <2>3, LedStays
<1>4. CASE BendVoice
  <2>1. PICK v : v = Min(midi.todo)
    OBVIOUS
  <2>2. /\ midi.at = "sweep" /\ NotPending("midi") /\ voice' = [voice EXCEPT ![v].tuned = TRUE]
        /\ SetVoice("midi", v, voice[v].current # 0) /\ midi' = [midi EXCEPT !.todo = @ \ {v}]
        /\ UNCHANGED <<sound, synth, list, console>>
    BY <1>4, <2>1 DEF BendVoice, MidiAt
  <2>3. v \in Voices
    BY <1>4, <2>1, LeastVoice DEF BendVoice, MidiAt, KInv, Typed, TasksTyped, MidiTyped
  <2>4. sem = "midi" /\ "midi" \in Writers
    BY <2>2, WritersDiffer DEF KInv, Holds
  <2>5. \A u \in Voices : voice'[u].current = voice[u].current
    BY <1>0, <2>2, <2>3 DEF VoiceStates
  <2>6. StartGoesOn /\ ResetsGoOn
    BY <1>0, <1>1, <1>2, <2>2
  <2>7. voice[v].current # 0 => HasVolume(list, v)
    BY <2>2, <2>3 DEF AllLed, VolumeIsShaped, Starting
  <2>8. PICK on \in BOOLEAN : on = (voice[v].current # 0)
    OBVIOUS
  <2>9. SetVoice("midi", v, on) /\ (on => voice'[v].current # 0)
    BY <2>2, <2>3, <2>5, <2>8
  <2>10. voice'[v].current # 0 => HasVolume(list', v) \/ Starting(v, {"free", "fill"})'
    BY <2>2, <2>3, <2>5, <2>7
  <2> QED BY <2>2, <2>3, <2>4, <2>5, <2>6, <2>9, <2>10, LedDecided DEF KInv
<1>5. CASE BendDone
  <2>1. /\ midi.at = "sweep" /\ midi'.at = "wait" /\ Write("midi") /\ UNCHANGED <<voice, synth, list, console>>
        /\ "midi" \in Writers
    BY <1>5, WritersDiffer DEF BendDone, MidiAt, MidiWaits
  <2>2. StartGoesOn /\ ResetsGoOn
    BY <1>1, <1>2, <2>1
  <2> QED BY <2>1, <2>2, LedWritten DEF KInv
<1>6. CASE AllOff
  <2>1. PanicHandler /\ UNCHANGED <<sound, pending, synth>> /\ midi'.at = "reset"
    BY <1>6, PlacesMove DEF AllOff, KInv
  <2> QED BY <2>1, LedPanicked
<1>7. CASE AllOffDone
  <2>1. KillAudio /\ UNCHANGED <<pending, voice, list>> /\ midi.at = "reset" /\ midi'.at = "wait"
    BY <1>7 DEF AllOffDone, ResetMidi, MidiAt, MidiWaits
  <2> QED BY <2>1, LedKilled DEF Starting
<1> QED BY <1>3, <1>4, <1>5, <1>6, <1>7

\* The MIDI task, when it starts a note.
LEMMA NoteLed ==
  ASSUME KInv, AllLed, PendingAtWork,
         NoteFind \/ NoteClaim \/ NoteFree \/ NoteFill \/ NoteSwitch \/ NoteClear \/ NoteAdd
  PROVE  AllLed'
<1> USE DEF data, chan, tasks, hist
<1>0. /\ pending \in Pendings /\ voice \in [Voices -> VoiceStates] /\ "midi" \in Writers /\ list \in Seq(BlockEntries)
      /\ midi \in [at : MidiPlaces, todo : Seq(BlockIds) \cup SUBSET Voices, note : Notes \cup {NoNote},
                   voice : Voices, late : BOOLEAN]
  BY WritersDiffer DEF KInv, Typed, VoicesTyped, TasksTyped, MidiTyped, ListTyped
<1>1. ASSUME UNCHANGED console PROVE ResetsGoOn
  BY <1>1 DEF ResetsGoOn
<1>2. PICK v \in Voices : v = midi.voice
  BY <1>0
<1>3. CASE NoteFind \/ NoteSwitch
  <2>1. /\ UNCHANGED <<sound, pending, synth, list, console, voice>>
        /\ \/ midi.at = "find" /\ midi'.at \in {"wait", "claim"}
           \/ midi.at = "on" /\ midi'.at = "clear" /\ midi'.voice = midi.voice
    <3>1. NoteFind => UNCHANGED <<sound, pending, synth, list, console, voice>>
                      /\ midi.at = "find" /\ midi'.at \in {"wait", "claim"}
      <4>1. NoteFind => /\ UNCHANGED <<sound, pending, synth, list, console, voice>> /\ midi.at = "find"
                        /\ MidiWaits \/ \E w \in NextVoices : midi' = [midi EXCEPT !.at = "claim", !.voice = w]
        BY DEF NoteFind, MidiAt
      <4>2. ASSUME NEW w, midi' = [midi EXCEPT !.at = "claim", !.voice = w] PROVE midi'.at = "claim"
        BY <1>0, <4>2
      <4>3. (\E w \in NextVoices : midi' = [midi EXCEPT !.at = "claim", !.voice = w]) => midi'.at = "claim"
        BY <4>2
      <4>4. MidiWaits => midi'.at = "wait"
        BY DEF MidiWaits
      <4> QED BY <4>1, <4>3, <4>4
    <3>2. NoteSwitch => UNCHANGED <<sound, pending, synth, list, console, voice>>
                        /\ midi.at = "on" /\ midi'.at = "clear" /\ midi'.voice = midi.voice
      BY <1>0 DEF NoteSwitch, MidiAt, MidiGoes
    <3> QED BY <1>3, <3>1, <3>2
  <2>2. StartGoesOn /\ ResetsGoOn
    BY <1>1, <2>1 DEF StartGoesOn, Starting
  <2> QED BY <1>0, <2>1, <2>2, LedStays
<1>4. CASE NoteFree \/ NoteAdd
  <2>1. /\ Write("midi") /\ UNCHANGED <<voice, synth, console>>
        /\ \/ midi.at = "free" /\ midi'.at = "fill" /\ midi'.voice = midi.voice /\ UNCHANGED list
           \/ midi.at = "add" /\ midi'.at = "find" /\ midi.todo \in Seq(BlockIds) /\ midi.todo # <<>>
              /\ list' = Append(list, Entry(midi.voice, Head(midi.todo)))
    <3>1. NoteFree => /\ Write("midi") /\ UNCHANGED <<voice, synth, console, list>>
                      /\ midi.at = "free" /\ midi'.at = "fill" /\ midi'.voice = midi.voice
      BY <1>0 DEF NoteFree, MidiAt, MidiGoes
    <3>2. NoteAdd => /\ Write("midi") /\ UNCHANGED <<voice, synth, console>> /\ midi.at = "add" /\ midi'.at = "find"
                     /\ list' = Append(list, Entry(midi.voice, Head(midi.todo)))
      BY <1>0 DEF NoteAdd, MidiAt
    <3>3. midi.at = "add" => midi.todo \in Seq(BlockIds) /\ midi.todo # <<>>
      BY DEF KInv, Typed, TasksTyped, MidiTyped
    <3> QED BY <1>4, <3>1, <3>2, <3>3
  <2>2. StartGoesOn /\ ResetsGoOn
    BY <1>1, <2>1 DEF StartGoesOn, Starting
  <2>3. \A u : HasVolume(list, u) => HasVolume(list', u)
    <3>1. CASE UNCHANGED list
      BY <3>1
    <3>2. CASE /\ list' = Append(list, Entry(midi.voice, Head(midi.todo)))
               /\ midi.todo \in Seq(BlockIds) /\ midi.todo # <<>>
      <4>1. PICK e : e = Entry(midi.voice, Head(midi.todo))
        OBVIOUS
      <4>2. Head(midi.todo) \in BlockIds
        BY <3>2, HeadTailProperties
      <4>3. e \in BlockEntries
        BY <1>0, <4>1, <4>2 DEF Entry, BlockEntries
      <4>4. list' = Append(list, e)
        BY <3>2, <4>1
      <4>5. Len(list') = Len(list) + 1 /\ \A j \in 1 .. Len(list) : list'[j] = list[j]
        BY <1>0, <4>3, <4>4, AppendProperties
      <4>6. Len(list) \in Nat /\ Len(list') \in Nat /\ Len(list') >= Len(list)
        BY <1>0, <4>5
      <4> QED BY <4>5, <4>6, SameVolume
    <3> QED BY <2>1, <3>1, <3>2
  <2> QED BY <1>0, <2>1, <2>2, <2>3, LedWritten DEF KInv
<1>5. ASSUME midi.at \in {"claim", "clear"}, midi'.at \in {"free", "add"}, midi'.voice = v, sem = "free",
             SetVoice("midi", v, FALSE), UNCHANGED <<voice, sound, synth, console>>,
             \A u : u # v /\ HasVolume(list, u) => HasVolume(list', u),
             voice[v].current # 0 => HasVolume(list', v) \/ midi'.at = "free"
      PROVE  AllLed'
  <2>1. NonePending
    BY <1>5, WritersDiffer DEF KInv, Holds, NonePending
  <2>2. /\ \A t \in Writers : t # "midi" => pending'[t] = NoWrite
        /\ synth = "MIDI" => pending'["midi"] = [voice |-> v, on |-> FALSE, who |-> "midi"]
        /\ synth # "MIDI" => pending'["midi"] = NoWrite
    BY <1>0, <1>5, <2>1 DEF SetVoice, NonePending, NotPending, Pendings
  <2>3. \A t \in Writers : ~pending'[t].on
    BY <2>2 DEF NoWrite
  <2>4. VolumeIsShaped'
    <3> SUFFICES ASSUME NEW u \in Voices, voice'[u].current # 0
                 PROVE  HasVolume(list', u) \/ Starting(u, {"free", "fill"})'
      BY DEF VolumeIsShaped
    <3>1. voice[u].current # 0
      BY <1>5
    <3>2. u # v => HasVolume(list, u)
      BY <1>2, <1>5, <3>1 DEF AllLed, VolumeIsShaped, Starting
    <3> QED BY <1>5, <3>1, <3>2 DEF Starting
  <2>5. HeardIsLed'
    <3> SUFFICES ASSUME NEW u \in Voices, synth = "MIDI", sound[u] = "midi" PROVE Led(u)'
      BY <1>5 DEF HeardIsLed
    <3>1. CASE u = v
      <4>1. ~NotPending("midi")' /\ pending'["midi"].voice = v
        BY <2>2 DEF NotPending, NoWrite
      <4> QED BY <1>0, <3>1, <4>1 DEF Led
    <3>2. CASE u # v
      <4>1. Led(u)
        BY DEF AllLed, HeardIsLed
      <4>2. HasVolume(list, u) \/ \E c \in Consoles : console[c].at \in {"reset", "reset2"}
        BY <1>2, <1>5, <2>1, <3>2, <4>1 DEF Led, Starting, NonePending
      <4> QED BY <1>5, <3>2, <4>2 DEF Led
    <3> QED BY <3>1, <3>2
  <2>6. OnHasVolume' /\ ClaimSilences'
    BY <1>0, <1>5, <2>2, <2>3 DEF OnHasVolume, ClaimSilences, NotPending
  <2> QED BY <2>4, <2>5, <2>6 DEF AllLed
<1>6. CASE NoteClaim \/ NoteClear
  <2>1. /\ midi'.voice = v /\ sem = "free" /\ SetVoice("midi", v, FALSE)
        /\ UNCHANGED <<voice, sound, synth, console>>
        /\ \/ midi.at = "claim" /\ midi'.at = "free" /\ list' = WithoutVoice(list, v)
           \/ midi.at = "clear" /\ midi'.at = "add" /\ UNCHANGED list
    BY <1>0, <1>2, <1>6 DEF NoteClaim, NoteClear, MidiAt, MidiGoes
  <2>2. \A u : u # v /\ HasVolume(list, u) => HasVolume(list', u)
    BY <1>0, <2>1, WithoutVoiceVolume
  <2>3. midi.at = "clear" /\ voice[v].current # 0 => HasVolume(list, v)
    BY DEF AllLed, VolumeIsShaped, Starting
  <2>4. voice[v].current # 0 => HasVolume(list', v) \/ midi'.at = "free"
    BY <2>1, <2>3
  <2>5. midi.at \in {"claim", "clear"} /\ midi'.at \in {"free", "add"}
    BY <2>1
  <2> QED BY <1>5, <2>1, <2>2, <2>4, <2>5
<1>7. CASE NoteFill
  <2>1. /\ midi.at = "fill" /\ midi'.at = "on" /\ midi'.voice = v /\ MidiMayRun
        /\ voice' = [voice EXCEPT ![v] = [Silent EXCEPT !.target = MaxVol, !.tuned = TRUE]]
        /\ UNCHANGED <<sound, pending, synth, list, console>>
    BY <1>0, <1>2, <1>7 DEF NoteFill, MidiAt, MidiGoes
  <2>2. voice'[v].current = 0 /\ \A u \in Voices : u # v => voice'[u] = voice[u]
    BY <1>0, <2>1 DEF Silent
  <2>3. NonePending /\ \A t \in Writers : ~pending[t].on
    BY <2>1, MidiFindsNone DEF KInv, MidiHolds, NonePending, NotPending, NoWrite
  <2>4. VolumeIsShaped'
    BY <1>2, <2>1, <2>2 DEF AllLed, VolumeIsShaped, Starting
  <2>5. HeardIsLed'
    <3> SUFFICES ASSUME NEW u \in Voices, synth = "MIDI", sound[u] = "midi" PROVE Led(u)'
      BY <2>1 DEF HeardIsLed
    <3>1. CASE u = v
      BY <2>1, <3>1 DEF Led, Starting
    <3>2. CASE u # v
      BY <1>2, <2>1, <2>3, <3>2 DEF AllLed, HeardIsLed, Led, Starting, NonePending
    <3> QED BY <3>1, <3>2
  <2> QED BY <2>1, <2>3, <2>4, <2>5 DEF AllLed, OnHasVolume, ClaimSilences
<1> QED BY <1>3, <1>4, <1>6, <1>7

\* A step of a console leaves the others where they are.
LEMMA OthersStay ==
  ASSUME console \in [Consoles -> ConsoleStates], NEW c \in Consoles, ConsoleBegins(c) \/ ConsoleStep(c)
  PROVE  \A d \in Consoles : d # c => console'[d] = console[d]
BY DEF ConsoleBegins, BeginKill, BeginSwitch, BeginTransient, BeginPulseWidth, ConsoleStep, Panic, Reset,
       DelayEnds, Mute, SetMode, UpdateTR, PulseWidthTake, PulseWidthVoice, PulseWidthDone, WriteVoice, Goes, Rests, tasks

\* A console that brings the mode MIDI back finds nothing that sounds.
LEMMA MidiBeginsSilent ==
  ASSUME KInv, ModesMeet, synth # "MIDI", NEW c \in Consoles, console[c].at = "mode", console[c].goal = "MIDI"
  PROVE  NoneSounds
<1>1. CASE CanTransient
  BY <1>1 DEF ModesMeet, MidiOnItsWay
<1>2. CASE ~CanTransient
  BY <1>2 DEF ModesMeet, NoTransient, KInv, SwitchOnItsWay
<1> QED BY <1>1, <1>2

\* The consoles, and the message that arrives.
LEMMA ConsoleLed ==
  ASSUME KInv, AllLed, ModesMeet,
         Enqueue \/ \E c \in Consoles : ConsoleBegins(c) \/ ConsoleStep(c)
  PROVE  AllLed'
<1> USE DEF data, chan, tasks, hist
<1>0. pending \in Pendings /\ sound \in Sounds /\ console \in [Consoles -> ConsoleStates]
  BY DEF KInv, Typed, VoicesTyped, TasksTyped, ConsoleTyped
<1>1. ASSUME UNCHANGED midi PROVE StartGoesOn
  BY <1>1 DEF StartGoesOn, Starting
<1>2. CASE Enqueue
  BY <1>0, <1>2, LedStays, NothingMoves DEF Enqueue
<1>3. ASSUME NEW c \in Consoles, ConsoleBegins(c) \/ ConsoleStep(c)
      PROVE  AllLed'
  <2>0. ASSUME console[c].at \notin {"reset", "reset2"} PROVE ResetsGoOn
    BY <1>0, <1>3, <2>0, OthersStay DEF ResetsGoOn
  <2>1. CASE ConsoleBegins(c) \/ DelayEnds(c) \/ PulseWidthTake(c) \/ PulseWidthDone(c)
    <3>1. /\ UNCHANGED <<sound, pending, synth, voice, list, midi>>
          /\ console[c].at \in {"idle", "delay", "pw", "sweep"}
      BY <2>1 DEF ConsoleBegins, BeginKill, BeginSwitch, BeginTransient, BeginPulseWidth, Command, ConsoleAt,
             DelayEnds, PulseWidthTake, PulseWidthDone
    <3> QED BY <1>0, <1>1, <2>0, <3>1, LedStays
  <2>2. CASE Panic(c)
    <3>1. PanicHandler /\ UNCHANGED <<sound, pending, synth>> /\ console'[c].at \in {"reset", "reset2"}
      BY <2>2, PlacesMove DEF Panic, KInv
    <3> QED BY <3>1, LedPanicked
  <2>3. CASE Reset(c) \/ Mute(c)
    <3>1. KillAudio /\ UNCHANGED <<pending, voice, list>> /\ midi'.at = midi.at /\ midi'.voice = midi.voice
      <4>1. midi' = midi \/ \E late : midi' = [midi EXCEPT !.late = late]
        BY <2>3 DEF Reset, Mute
      <4>2. midi'.at = midi.at /\ midi'.voice = midi.voice
        BY <4>1 DEF KInv, Typed, TasksTyped, MidiTyped
      <4> QED BY <2>3, <4>2 DEF Reset, ResetMidi, Mute
    <3> QED BY <3>1, LedKilled DEF Starting
  <2>4. CASE SetMode(c)
    <3>1. /\ UNCHANGED <<sound, pending, voice, list, midi>> /\ console[c].at = "mode"
          /\ synth' = console[c].goal
      BY <2>4 DEF SetMode, ConsoleAt
    <3>2. CASE synth' = synth
      BY <1>0, <1>1, <2>0, <3>1, <3>2, LedStays
    <3>3. CASE synth' # synth
      <4>1. synth' = "MIDI" => NoneSounds
        BY <3>1, <3>3, MidiBeginsSilent
      <4>2. HeardIsLed'
        BY <3>1, <4>1 DEF HeardIsLed, NoneSounds
      <4>3. VolumeIsShaped' /\ OnHasVolume' /\ ClaimSilences'
        BY <3>1 DEF AllLed, VolumeIsShaped, Starting, OnHasVolume, ClaimSilences, NotPending
      <4> QED BY <4>2, <4>3 DEF AllLed
    <3> QED BY <3>2, <3>3
  <2>5. CASE UpdateTR(c)
    <3>1. /\ UNCHANGED <<pending, voice, list, midi, synth>> /\ console[c].at = "tr"
          /\ \A v \in Voices : sound'[v] = "midi" => sound[v] = "midi"
      BY <1>0, <2>5 DEF UpdateTR, ConsoleAt, Sounds
    <3>2. StartGoesOn /\ ResetsGoOn
      BY <1>1, <2>0, <3>1
    <3>3. HeardIsLed'
      <4> SUFFICES ASSUME NEW v \in Voices, synth = "MIDI", sound'[v] = "midi" PROVE Led(v)'
        BY <3>1 DEF HeardIsLed
      <4>1. Led(v)
        BY <3>1 DEF AllLed, HeardIsLed
      <4> QED BY <3>1, <3>2, <4>1 DEF Led, StartGoesOn, ResetsGoOn, NotPending
    <3>4. VolumeIsShaped' /\ OnHasVolume' /\ ClaimSilences'
      BY <3>1 DEF AllLed, VolumeIsShaped, Starting, OnHasVolume, ClaimSilences, NotPending
    <3> QED BY <3>3, <3>4 DEF AllLed
  <2>6. CASE PulseWidthVoice(c)
    <3>1. PICK v : v = Min(console[c].todo)
      OBVIOUS
    <3>2. /\ console[c].at = "sweep" /\ NotPending(c) /\ SetVoice(c, v, Heard(voice[v]))
          /\ UNCHANGED <<sound, synth, voice, list, midi>>
      BY <2>6, <3>1 DEF PulseWidthVoice, ConsoleAt
    <3>3. v \in Voices
      BY <2>6, <3>1, LeastVoice DEF PulseWidthVoice, ConsoleAt, KInv, Typed, TasksTyped, ConsoleTyped
    <3>4. sem = c /\ c \in Writers /\ c # "midi"
      BY <3>2, WritersDiffer DEF KInv, Holds
    <3>5. StartGoesOn /\ ResetsGoOn
      BY <1>1, <2>0, <3>2
    <3>6. voice'[v].current # 0 => HasVolume(list', v) \/ Starting(v, {"free", "fill"})'
      BY <3>2, <3>3 DEF AllLed, VolumeIsShaped, Starting
    <3>7. PICK on \in BOOLEAN : on = Heard(voice[v])
      BY DEF Heard
    <3>8. SetVoice(c, v, on) /\ (on => voice'[v].current # 0)
      BY <3>2, <3>7 DEF Heard
    <3>9. \A u \in Voices : /\ u # v => voice'[u].current = voice[u].current
                            /\ u # v /\ HasVolume(list, u) => HasVolume(list', u)
      BY <3>2
    <3> QED BY <3>2, <3>3, <3>4, <3>5, <3>6, <3>8, <3>9, LedDecided DEF KInv
  <2>7. CASE WriteVoice(c)
    <3>1. Write(c) /\ UNCHANGED <<voice, synth, list, midi, console>> /\ c \in Writers
      BY <2>7, WritersDiffer DEF WriteVoice
    <3> QED BY <3>1, NothingMoves, LedWritten DEF KInv
  <2> QED BY <1>3, <2>1, <2>2, <2>3, <2>4, <2>5, <2>6, <2>7 DEF ConsoleStep
<1> QED BY <1>2, <1>3

\* Who decides is at work, and stays so until he has written.
LEMMA AtWorkKept ==
  ASSUME KInv, PendingAtWork, [VmsNext]_vars
  PROVE  PendingAtWork'
<1> USE DEF data, chan, tasks, hist
<1>0. /\ pending \in Pendings /\ console \in [Consoles -> ConsoleStates]
      /\ midi \in [at : MidiPlaces, todo : Seq(BlockIds) \cup SUBSET Voices, note : Notes \cup {NoNote},
                   voice : Voices, late : BOOLEAN]
      /\ vms \in [at : {"delay", "want", "run"}, entry : Nat \ {0}]
  BY DEF KInv, Typed, VoicesTyped, TasksTyped, MidiTyped, ConsoleTyped
\* Nobody decides, and who is at work stays there.
<1>1. ASSUME UNCHANGED pending, vms.at = "run" => vms'.at = "run", MidiHolds => MidiHolds',
             \A c \in Consoles : console[c].at = "sweep" => console'[c].at = "sweep"
      PROVE  PendingAtWork'
  BY <1>1 DEF PendingAtWork, AtWork, NotPending
\* A task that is at work afterwards decides, or one that was writes.
<1>2. ASSUME NEW t \in Writers, AtWork(t)' \/ NotPending(t)', \A u \in Writers : u # t => pending'[u] = pending[u],
             \A u \in Writers : u # t /\ AtWork(u) => AtWork(u)'
      PROVE  PendingAtWork'
  BY <1>2 DEF PendingAtWork, NotPending
<1>3. \A t \in Writers : Write(t) => NotPending(t)' /\ \A u \in Writers : u # t => pending'[u] = pending[u]
  BY <1>0 DEF Write, NotPending, Pendings
<1>4. \A t \in Writers : \A v, on : SetVoice(t, v, on) => \A u \in Writers : u # t => pending'[u] = pending[u]
  BY <1>0 DEF SetVoice, Pendings
<1>5. \A t \in Writers : AtWork(t) => sem = t
  BY DEF KInv, Holds, AtWork, MidiHolds
<1>6. CASE VmsStep \/ Wrap
  <2>1. UNCHANGED <<midi, console>>
    BY <1>6 DEF VmsStep, VmsTick, Wrap, VmsTake, VmsBlock, VmsDone, WriteVoice
  <2>2. CASE VmsTick \/ Wrap \/ VmsTake
    <3>1. UNCHANGED pending /\ (vms.at = "run" => vms'.at = "run")
      BY <1>0, <2>2 DEF VmsTick, Wrap, VmsTake
    <3> QED BY <1>1, <2>1, <3>1 DEF MidiHolds
  <2>3. CASE VmsBlock
    <3>1. vms'.at = "run" /\ (UNCHANGED pending \/ \E v, on : SetVoice("vms", v, on))
      BY <1>0, <2>3 DEF VmsBlock, SetKnownValue
    <3>2. \A u \in Writers : u # "vms" => pending'[u] = pending[u]
      BY <1>4, <3>1, WritersDiffer
    <3>3. AtWork("vms")' /\ \A u \in Writers : u # "vms" /\ AtWork(u) => AtWork(u)'
      BY <2>1, <3>1, WritersDiffer DEF AtWork, MidiHolds
    <3> QED BY <1>2, <3>2, <3>3, WritersDiffer
  <2>4. CASE VmsDone
    <3>1. Write("vms")
      BY <2>4 DEF VmsDone
    <3>2. \A u \in Writers : u # "vms" /\ AtWork(u) => AtWork(u)'
      BY <2>1, WritersDiffer DEF AtWork, MidiHolds
    <3> QED BY <1>2, <1>3, <3>1, <3>2, WritersDiffer
  <2>5. CASE WriteVoice("vms")
    <3>1. Write("vms") /\ \A u \in Writers : AtWork(u) => AtWork(u)'
      BY <2>5 DEF WriteVoice, AtWork, MidiHolds
    <3> QED BY <1>2, <1>3, <3>1, WritersDiffer
  <2> QED BY <1>6, <2>2, <2>3, <2>4, <2>5 DEF VmsStep
<1>7. CASE MidiStep
  <2>1. UNCHANGED <<vms, console>>
    BY <1>7 DEF MidiStep, MidiPoll, NoteOn, NoteOff, Pedal, ChannelVolume, Bend, BendVoice, BendDone, AllOff,
           AllOffDone, NoteFind, NoteClaim, NoteFree, NoteFill, NoteSwitch, NoteClear, NoteAdd, WriteVoice
  <2>2. \A u \in Writers : u # "midi" /\ AtWork(u) => AtWork(u)'
    BY <2>1, WritersDiffer DEF AtWork
  <2>3. CASE UNCHANGED pending /\ ~MidiHolds
    BY <1>1, <2>1, <2>3
  <2>4. MidiPoll \/ NoteOn \/ NoteOff \/ Pedal \/ ChannelVolume \/ Bend \/ AllOff \/ AllOffDone \/ NoteFind
          \/ NoteFill \/ NoteSwitch => UNCHANGED pending /\ ~MidiHolds
    BY DEF MidiPoll, NoteOn, NoteOff, Pedal, ChannelVolume, Bend, AllOff, AllOffDone, NoteFind, NoteFill, NoteSwitch,
       Receive, MidiAt, MidiHolds
  <2>5. CASE BendVoice \/ NoteClaim \/ NoteClear
    <3>1. (\E v, on : SetVoice("midi", v, on)) /\ MidiHolds'
      <4>1. BendVoice => (\E v, on : SetVoice("midi", v, on)) /\ midi'.at = "sweep"
        BY <1>0 DEF BendVoice, MidiAt
      <4>2. NoteClaim \/ NoteClear => SetVoice("midi", midi.voice, FALSE) /\ midi'.at \in {"free", "add"}
        BY <1>0 DEF NoteClaim, NoteClear, MidiGoes
      <4> QED BY <2>5, <4>1, <4>2 DEF MidiHolds
    <3>2. AtWork("midi")'
      BY <3>1 DEF AtWork
    <3> QED BY <1>2, <1>4, <2>2, <3>1, <3>2, WritersDiffer
  <2>6. CASE BendDone \/ NoteFree \/ NoteAdd \/ WriteVoice("midi")
    <3>1. Write("midi")
      BY <2>6 DEF BendDone, NoteFree, NoteAdd, WriteVoice
    <3> QED BY <1>2, <1>3, <2>2, <3>1, WritersDiffer
  <2> QED BY <1>7, <2>3, <2>4, <2>5, <2>6 DEF MidiStep
<1>8. CASE Enqueue \/ UNCHANGED vars
  BY <1>1, <1>8 DEF Enqueue, vars, MidiHolds
<1>9. ASSUME NEW c \in Consoles, ConsoleBegins(c) \/ ConsoleStep(c)
      PROVE  PendingAtWork'
  <2>1. vms'.at = vms.at /\ midi'.at = midi.at
    <3>1. UNCHANGED vms /\ (midi' = midi \/ \E late : midi' = [midi EXCEPT !.late = late])
      BY <1>9 DEF ConsoleBegins, BeginKill, BeginSwitch, BeginTransient, BeginPulseWidth, ConsoleStep, Panic, Reset,
             DelayEnds, Mute, SetMode, UpdateTR, PulseWidthTake, PulseWidthVoice, PulseWidthDone, WriteVoice
    <3> QED BY <1>0, <3>1
  <2>2. \A d \in Consoles : d # c => console'[d] = console[d]
    BY <1>0, <1>9, OthersStay
  <2>3. c \in Writers /\ \A u \in Writers : u # c /\ AtWork(u) => AtWork(u)'
    BY <2>1, <2>2, WritersDiffer DEF AtWork, MidiHolds
  <2>4. CASE PulseWidthVoice(c)
    <3>1. console'[c].at = "sweep" /\ \E v, on : SetVoice(c, v, on)
      BY <1>0, <2>4 DEF PulseWidthVoice, ConsoleAt, ConsoleStates
    <3>2. AtWork(c)'
      BY <3>1 DEF AtWork
    <3> QED BY <1>2, <1>4, <2>3, <3>1, <3>2
  <2>5. CASE WriteVoice(c)
    BY <1>2, <1>3, <2>3, <2>5 DEF WriteVoice
  <2>6. CASE PulseWidthDone(c)
    <3>1. NotPending(c)' /\ UNCHANGED pending
      BY <2>6 DEF PulseWidthDone, NotPending
    <3> QED BY <1>2, <2>3, <3>1
  <2>7. CASE ~PulseWidthVoice(c) /\ ~WriteVoice(c) /\ ~PulseWidthDone(c)
    <3>1. UNCHANGED pending /\ console[c].at # "sweep"
      BY <1>9, <2>7 DEF ConsoleBegins, BeginKill, BeginSwitch, BeginTransient, BeginPulseWidth, Command, ConsoleAt,
             ConsoleStep, Panic, Reset, DelayEnds, Mute, SetMode, UpdateTR, PulseWidthTake
    <3> QED BY <1>1, <2>1, <2>2, <3>1 DEF MidiHolds
  <2> QED BY <2>4, <2>5, <2>6, <2>7
<1> QED BY <1>6, <1>7, <1>8, <1>9 DEF VmsNext

\* From the reset to the new mode nothing is begun, and nothing is left when it is MIDI.
LEMMA MidiOnItsWayKept ==
  ASSUME KInv, \A c, d \in Consoles : c = d, MidiOnItsWay, [VmsNext]_vars
  PROVE  MidiOnItsWay'
<1> USE DEF data, chan, tasks, hist
<1>0. pending \in Pendings /\ sound \in Sounds /\ console \in [Consoles -> ConsoleStates]
  BY DEF KInv, Typed, VoicesTyped, TasksTyped, ConsoleTyped
<1>1. ASSUME UNCHANGED <<mode, synth, console>>,
             synth # "MIDI" /\ NonePending => NonePending' /\ (NoneSounds => NoneSounds')
      PROVE  MidiOnItsWay'
  BY <1>1 DEF MidiOnItsWay, Muting
<1>2. \A t \in Writers : Write(t) /\ NonePending => NonePending' /\ (NoneSounds => NoneSounds')
  BY <1>0 DEF Write, NonePending, NotPending, NoneSounds, Pendings
<1>3. UNCHANGED <<sound, pending>> => (NonePending => NonePending') /\ (NoneSounds => NoneSounds')
  BY DEF NonePending, NotPending, NoneSounds
<1>4. CASE VmsStep \/ Wrap \/ Enqueue \/ UNCHANGED vars
  <2>1. UNCHANGED <<mode, synth, console>>
    BY <1>4 DEF VmsStep, VmsTick, Wrap, VmsTake, VmsBlock, VmsDone, WriteVoice, Enqueue, vars
  <2>2. Write("vms") \/ (UNCHANGED sound /\ (synth # "MIDI" => UNCHANGED pending))
    <3>1. VmsBlock => UNCHANGED sound /\ (synth # "MIDI" => UNCHANGED pending)
      BY DEF VmsBlock, SetKnownValue, SetVoice
    <3>2. VmsTick \/ Wrap \/ VmsTake \/ Enqueue \/ UNCHANGED vars => UNCHANGED <<sound, pending>>
      BY DEF VmsTick, Wrap, VmsTake, Enqueue, vars
    <3>3. VmsDone \/ WriteVoice("vms") => Write("vms")
      BY DEF VmsDone, WriteVoice
    <3>4. CASE VmsTick \/ Wrap \/ VmsTake \/ Enqueue \/ UNCHANGED vars
      <4>1. UNCHANGED <<sound, pending>>
        BY <3>2, <3>4
      <4> QED BY <4>1
    <3>5. VmsStep => VmsTick \/ VmsTake \/ VmsBlock \/ VmsDone \/ WriteVoice("vms")
      BY DEF VmsStep
    <3> QED BY <1>4, <3>1, <3>3, <3>4, <3>5
  <2> QED BY <1>1, <1>2, <1>3, <2>1, <2>2, WritersDiffer
<1>5. CASE MidiStep
  <2>1. MidiMayRun /\ UNCHANGED console
    BY <1>5 DEF MidiStep, MidiPoll, NoteOn, NoteOff, Pedal, ChannelVolume, Bend, BendVoice, BendDone, AllOff,
           AllOffDone, NoteFind, NoteClaim, NoteFree, NoteFill, NoteSwitch, NoteClear, NoteAdd, WriteVoice, Receive, MidiAt
  <2>2. \A c \in Consoles : console[c].at \notin {"reset", "mute", "mode"}
    BY <2>1 DEF MidiMayRun, ConsoleReady
  <2> QED BY <2>1, <2>2 DEF MidiOnItsWay, Muting
<1>6. ASSUME NEW c \in Consoles, ConsoleBegins(c) \/ ConsoleStep(c)
      PROVE  MidiOnItsWay'
  <2>1. \A d \in Consoles : d = c
    OBVIOUS
  <2>2. ASSUME console'[c].at \notin {"reset", "mute", "mode"} PROVE MidiOnItsWay'
    BY <2>1, <2>2 DEF MidiOnItsWay, Muting
  <2>3. CASE BeginTransient(c)
    <3>1. mode' # "MIDI" /\ console'[c].goal = "tr" /\ console'[c].at = "mute"
      BY <1>0, <2>3 DEF BeginTransient, ConsoleStates
    <3> QED BY <2>1, <3>1 DEF MidiOnItsWay, Muting
  <2>4. CASE BeginKill(c) \/ BeginSwitch(c) \/ BeginPulseWidth(c)
    <3>1. Goes(c, "pw") \/ \E goal : console' = [console EXCEPT ![c].at = "panic", ![c].goal = goal]
      BY <2>4 DEF BeginKill, BeginSwitch, BeginPulseWidth
    <3>2. console'[c].at \in {"pw", "panic"}
      BY <1>0, <3>1 DEF Goes, ConsoleStates
    <3> QED BY <2>2, <3>2
  <2>5. CASE Panic(c)
    <3>1. UNCHANGED pending /\ sem = "free" /\ console'[c].at \in {"reset", "reset2"}
      BY <2>5, PlacesMove DEF Panic, PanicHandler, KInv
    <3>2. NonePending'
      BY <3>1, WritersDiffer DEF KInv, Holds, NonePending, NotPending
    <3> QED BY <2>1, <3>1, <3>2 DEF MidiOnItsWay
  <2>6. CASE Reset(c)
    <3>1. /\ UNCHANGED <<mode, synth, pending>>
          /\ \/ console'[c].at \in {"delay", "idle"}
             \/ console[c].at = "reset" /\ console[c].goal = "param" /\ console'[c].at = "mute" /\ console'[c].goal = "param"
      BY <2>6, PlacesMove DEF Reset, ConsoleAt, KInv
    <3>2. NonePending => NonePending'
      BY <3>1 DEF NonePending, NotPending
    <3> QED BY <2>1, <2>2, <3>1, <3>2 DEF MidiOnItsWay, Muting
  <2>7. CASE Mute(c)
    <3>1. /\ UNCHANGED <<mode, synth, pending>> /\ console[c].at = "mute" /\ NoneSounds'
          /\ console'[c].at = "mode" /\ console'[c].goal = mode
      BY <1>0, <2>7, WritesMove DEF Mute, ConsoleAt, ConsoleStates, KInv
    <3>2. NonePending => NonePending'
      BY <3>1 DEF NonePending, NotPending
    <3>3. console[c].goal \in {"param", "tr"}
      BY <3>1 DEF KInv, Goals
    <3> QED BY <2>1, <3>1, <3>2, <3>3 DEF MidiOnItsWay, Muting
  <2>8. CASE DelayEnds(c) \/ SetMode(c) \/ UpdateTR(c) \/ PulseWidthTake(c) \/ PulseWidthVoice(c) \/ PulseWidthDone(c)
    <3>1. \/ Rests(c) \/ Goes(c, "panic2") \/ Goes(c, "tr")
          \/ \E todo : console' = [console EXCEPT ![c].at = "sweep", ![c].todo = todo]
          \/ console[c].at = "sweep" /\ \E todo : console' = [console EXCEPT ![c].todo = todo]
      BY <2>8 DEF DelayEnds, SetMode, UpdateTR, PulseWidthTake, PulseWidthVoice, PulseWidthDone, ConsoleAt
    <3>2. console'[c].at \in {"idle", "panic2", "tr", "sweep"}
      <4>1. ASSUME NEW todo, console' = [console EXCEPT ![c].at = "sweep", ![c].todo = todo] PROVE console'[c].at = "sweep"
        BY <1>0, <4>1 DEF ConsoleStates
      <4>2. ASSUME console[c].at = "sweep", NEW todo, console' = [console EXCEPT ![c].todo = todo]
            PROVE  console'[c].at = "sweep"
        BY <1>0, <4>2 DEF ConsoleStates
      <4>3. Rests(c) \/ Goes(c, "panic2") \/ Goes(c, "tr") => console'[c].at \in {"idle", "panic2", "tr"}
        BY PlacesMove DEF KInv
      <4> QED BY <3>1, <4>1, <4>2, <4>3
    <3> QED BY <2>2, <3>2
  <2>9. CASE WriteVoice(c)
    <3>1. UNCHANGED <<mode, synth, console>> /\ Write(c) /\ c \in Writers
      BY <2>9, WritersDiffer DEF WriteVoice
    <3> QED BY <1>1, <1>2, <3>1
  <2> QED BY <1>6, <2>3, <2>4, <2>5, <2>6, <2>7, <2>8, <2>9 DEF ConsoleBegins, ConsoleStep
<1> QED BY <1>4, <1>5, <1>6 DEF VmsNext

\* Without the command nobody is seen to use it.
LEMMA NoTransientKept ==
  ASSUME Typed, Goals, ~CanTransient, NoTransient, [VmsNext]_vars
  PROVE  NoTransient'
<1> USE DEF data, chan, tasks, hist
<1>0. console \in [Consoles -> ConsoleStates]
  BY DEF Typed, TasksTyped, ConsoleTyped
<1>1. CASE UNCHANGED <<byTr, console>>
  BY <1>1 DEF NoTransient
<1>2. CASE VmsStep \/ Wrap \/ MidiStep \/ Enqueue \/ UNCHANGED vars
  <2>1. VmsStep \/ Wrap \/ Enqueue \/ UNCHANGED vars => UNCHANGED <<byTr, console>>
    BY DEF VmsStep, VmsTick, Wrap, VmsTake, VmsBlock, VmsDone, WriteVoice, Enqueue, vars
  <2>2. MidiStep => UNCHANGED <<byTr, console>>
    BY DEF MidiStep, MidiPoll, NoteOn, NoteOff, Pedal, ChannelVolume, Bend, BendVoice, BendDone, AllOff,
           AllOffDone, NoteFind, NoteClaim, NoteFree, NoteFill, NoteSwitch, NoteClear, NoteAdd, WriteVoice, Receive
  <2> QED BY <1>1, <1>2, <2>1, <2>2
<1>3. ASSUME NEW c \in Consoles, ConsoleBegins(c) \/ ConsoleStep(c)
      PROVE  NoTransient'
  <2>1. \A d \in Consoles : d # c => console'[d] = console[d]
    BY <1>0, <1>3, OthersStay
  <2>2. ASSUME ~byTr', console'[c].at \notin {"mute", "mode"}
        PROVE  NoTransient'
    BY <2>1, <2>2 DEF NoTransient
  <2>3. CASE ConsoleBegins(c)
    <3>1. UNCHANGED byTr /\ (Goes(c, "pw") \/ \E goal : console' = [console EXCEPT ![c].at = "panic", ![c].goal = goal])
      BY <2>3 DEF ConsoleBegins, BeginKill, BeginSwitch, BeginTransient, BeginPulseWidth
    <3>2. console'[c].at \in {"pw", "panic"}
      BY <1>0, <3>1 DEF Goes, ConsoleStates
    <3> QED BY <2>2, <3>1, <3>2 DEF NoTransient
  <2>4. CASE Panic(c) \/ DelayEnds(c) \/ UpdateTR(c)
    <3>1. UNCHANGED byTr /\ (Rests(c) \/ Goes(c, "reset") \/ Goes(c, "reset2") \/ Goes(c, "panic2"))
      BY <2>4 DEF Panic, DelayEnds, UpdateTR
    <3>2. console'[c].at \in {"idle", "reset", "reset2", "panic2"}
      BY <3>1, PlacesMove
    <3> QED BY <2>2, <3>1, <3>2 DEF NoTransient
  <2>5. CASE Reset(c)
    <3>1. /\ UNCHANGED byTr
          /\ \/ Goes(c, "delay") \/ Rests(c)
             \/ console[c].goal = "param" /\ Goes(c, "mute")
      BY <2>5 DEF Reset
    <3>2. \/ console'[c].at \in {"delay", "idle"}
          \/ console'[c].at = "mute" /\ console'[c].goal = "param"
      BY <3>1, PlacesMove
    <3> QED BY <2>1, <3>1, <3>2 DEF NoTransient
  <2>6. CASE Mute(c)
    <3>1. UNCHANGED byTr /\ console[c].at = "mute" /\ console'[c].at = "mode"
          /\ console'[c].todo = <<console[c].goal = "tr">>
      BY <1>0, <2>6 DEF Mute, ConsoleAt, ConsoleStates
    <3>2. (console[c].goal = "tr") = FALSE
      BY <3>1 DEF NoTransient
    <3> QED BY <2>1, <3>1, <3>2 DEF NoTransient
  <2>7. CASE SetMode(c)
    <3>1. byTr' = Head(<<FALSE>>) /\ (Goes(c, "tr") \/ Rests(c))
      BY <2>7 DEF SetMode, ConsoleAt, NoTransient
    <3>2. console'[c].at \in {"tr", "idle"} /\ ~byTr'
      BY <3>1, PlacesMove
    <3> QED BY <2>2, <3>2
  <2>8. CASE PulseWidthTake(c) \/ PulseWidthVoice(c) \/ PulseWidthDone(c)
    <3>1. UNCHANGED byTr
      BY <2>8 DEF PulseWidthTake, PulseWidthVoice, PulseWidthDone
    <3>2. PulseWidthTake(c) \/ PulseWidthVoice(c) => console'[c].at = "sweep"
      BY <1>0 DEF PulseWidthTake, PulseWidthVoice, ConsoleAt, ConsoleStates
    <3>3. PulseWidthDone(c) => console'[c].at = "idle"
      BY PlacesMove DEF PulseWidthDone
    <3> QED BY <2>2, <2>8, <3>1, <3>2, <3>3 DEF NoTransient
  <2>9. CASE WriteVoice(c)
    BY <1>1, <2>9 DEF WriteVoice
  <2> QED BY <1>3, <2>3, <2>4, <2>5, <2>6, <2>7, <2>8, <2>9 DEF ConsoleStep
<1> QED BY <1>2, <1>3 DEF VmsNext

\* Every step.
LEMMA StepLed ==
  ASSUME EndsSilent, TransientAlone
  PROVE  KInv /\ LedInv /\ [VmsNext]_vars => LedInv'
<1> SUFFICES ASSUME KInv, LedInv, [VmsNext]_vars PROVE LedInv'
  OBVIOUS
<1>1. Typed /\ Holds /\ Goals /\ AllLed /\ PendingAtWork /\ ModesMeet
  BY DEF KInv, LedInv
<1>2. AllLed'
  <2>1. CASE VmsStep \/ Wrap
    BY <1>1, <2>1, VmsTaskLed
  <2>2. CASE MidiStep
    BY <1>1, <2>2, VmsTaskLed, MessageLed, NoteLed, WritersDiffer DEF MidiStep
  <2>3. CASE Enqueue \/ \E c \in Consoles : ConsoleBegins(c) \/ ConsoleStep(c)
    BY <1>1, <2>3, ConsoleLed
  <2>4. CASE UNCHANGED vars
    <3>1. UNCHANGED <<sound, pending, synth, voice, list, midi, console>>
      BY <2>4 DEF vars
    <3> QED BY <1>1, <3>1, NothingMoves, LedStays DEF Typed, VoicesTyped
  <2> QED BY <2>1, <2>2, <2>3, <2>4 DEF VmsNext
<1>3. PendingAtWork'
  BY <1>1, AtWorkKept
<1>4. ModesMeet'
  <2>1. CASE CanTransient
    BY <1>1, <2>1, MidiOnItsWayKept DEF ModesMeet, TransientAlone
  <2>2. CASE ~CanTransient
    BY <1>1, <2>2, NoTransientKept DEF ModesMeet
  <2> QED BY <2>1, <2>2
<1> QED BY <1>2, <1>3, <1>4 DEF LedInv

-----------------------------------------------------------------------------
(* The theorems *)

\* After tsk_midi_kill nothing sounds and nothing is about to, until a new message comes:
\* with any number of voices, of consoles that kill and switch at once, and any program of
\* blocks (tsk_midi.c, tsk_midi_kill).
THEOREM KillIsComplete == VmsSpec => []KillSilences
<1>1. KInv => KillSilences
  BY DEF KInv, KillOnItsWay, Killing, ConsolesIdle, KillSilences, Cleared, Unplayed, NoneSounds
<1> QED BY <1>1, KInvAlways, PTL

\* Once the parameter synth has been switched away from MIDI no MIDI voice sounds, whatever
\* note was being started meanwhile (interrupter.c, callback_SynthFunction).
THEOREM SwitchIsComplete == VmsSpec => []SwitchSilences
<1>1. KInv => SwitchSilences
  BY DEF KInv, SwitchOnItsWay, SwitchSilences, NoneSounds
<1> QED BY <1>1, KInvAlways, PTL

\* The types, the factors between 0 and 1 and the volumes between 0 and their maximum,
\* for every program of blocks that cannot shoot over its goals.
THEOREM TypeCorrect ==
  ASSUME NoOvershoot
  PROVE  VmsSpec => []VmsTypeOK
<1>1. VmsInit => RangeInv
  <2>1. 0 <= Unity /\ 0 <= MaxVol
    BY UnityTyped DEF MaxVol
  <2> QED BY <2>1 DEF VmsInit, RangeInv, InRange, Silent
<1>2. Typed /\ RangeInv /\ [VmsNext]_vars => RangeInv'
  BY RangeStep
<1>3. KInv => Typed
  BY DEF KInv
<1>4. Typed /\ RangeInv => VmsTypeOK
  <2> SUFFICES ASSUME Typed, RangeInv PROVE VmsTypeOK
    OBVIOUS
  <2>1. Unity \in Nat /\ MaxVol \in Nat
    BY UnityTyped DEF MaxVol
  <2>2. \A v \in Voices : /\ voice[v].factor \in 0 .. Unity /\ voice[v].current \in 0 .. MaxVol
                          /\ voice[v].target \in {0, MaxVol} /\ voice[v].tuned \in BOOLEAN
    <3> SUFFICES ASSUME NEW v \in Voices
                 PROVE  /\ voice[v].factor \in 0 .. Unity /\ voice[v].current \in 0 .. MaxVol
                        /\ voice[v].target \in {0, MaxVol} /\ voice[v].tuned \in BOOLEAN
      OBVIOUS
    <3>1. voice[v] \in VoiceStates /\ InRange(voice[v])
      BY DEF Typed, VoicesTyped, RangeInv
    <3>2. voice[v].factor \in Int /\ voice[v].current \in Int
      BY <3>1 DEF VoiceStates
    <3>3. voice[v].factor \in 0 .. Unity /\ voice[v].current \in 0 .. MaxVol
      BY <2>1, <3>1, <3>2 DEF InRange
    <3> QED BY <3>1, <3>3 DEF VoiceStates
  <2>3. vms \in [at : {"delay", "want", "run"}, entry : Nat]
    BY DEF Typed, TasksTyped
  <2>4. midi.at \in MidiPlaces /\ \A c \in Consoles : console[c].at \in ConsolePlaces
    BY DEF Typed, TasksTyped, MidiTyped, ConsoleTyped, ConsoleStates
  <2>5. \A t \in Writers : pending[t].who \in {"nobody", "midi"}
    BY DEF Typed, VoicesTyped, Pendings
  <2> QED BY <2>2, <2>3, <2>4, <2>5 DEF VmsTypeOK, Typed, SharedTyped, Modes, VoicesTyped, Sounds, StartedTyped,
             ListTyped, BlockEntries, MidiPlaces, ConsolePlaces
<1> QED BY <1>1, <1>2, <1>3, <1>4, KInvAlways, PTL DEF VmsSpec

\* Each voice has at most one block per value, whatever is pressed, released, stolen,
\* killed or switched, with any program of blocks that forks well (VMS.c, VMS_nextBlock:
\* "a voice can have multiple blocks assigned to it").
THEOREM OneBlockEach ==
  ASSUME WellForked
  PROVE  VmsSpec => []OneBlockPerValue
<1>1. PICK Solo \in SUBSET BlockIds : ForksAt(Solo)
  BY DEF WellForked
<1>2. VmsInit => OneInv(Solo)
  BY DEF VmsInit, OneInv, Apart, FreeOf
<1>3. Typed /\ OneInv(Solo) /\ [VmsNext]_vars => OneInv(Solo)'
  BY <1>1, StepOne
<1>4. KInv => Typed
  BY DEF KInv
<1>5. Typed /\ OneInv(Solo) => OneBlockPerValue
  <2> SUFFICES ASSUME Typed, OneInv(Solo) PROVE OneBlockPerValue
    OBVIOUS
  <2>1. DOMAIN list = 1 .. Len(list)
    BY LenProperties DEF Typed, ListTyped
  <2> QED BY <2>1 DEF OneInv, Apart, Beside, OneBlockPerValue
<1> QED BY <1>2, <1>3, <1>4, <1>5, KInvAlways, PTL DEF VmsSpec

\* A voice that MIDI has switched on has a block that will switch it off, or somebody is
\* just about to do so: with any number of voices and keys, and any program of blocks whose
\* volume ends in silence; and with any number of consoles, unless one of them gives the
\* command tr (VMS.c, VMSWrapper.c).
THEOREM NoNoteLeftBehind ==
  ASSUME EndsSilent, TransientAlone
  PROVE  VmsSpec => []HeardHasBlock
<1>1. VmsInit => LedInv
  <2> SUFFICES ASSUME VmsInit PROVE LedInv
    OBVIOUS
  <2>1. AllLed
    BY DEF VmsInit, AllLed, VolumeIsShaped, HeardIsLed, OnHasVolume, ClaimSilences, NotPending, NoWrite, Silent
  <2>2. PendingAtWork /\ ModesMeet
    BY DEF VmsInit, PendingAtWork, NotPending, ModesMeet, MidiOnItsWay, NoTransient, Muting
  <2> QED BY <2>1, <2>2 DEF LedInv
<1>2. KInv /\ LedInv /\ [VmsNext]_vars => LedInv'
  BY StepLed
<1>3. KInv /\ LedInv => HeardHasBlock
  <2> SUFFICES ASSUME KInv, LedInv PROVE HeardHasBlock
    OBVIOUS
  <2>1. DOMAIN list = 1 .. Len(list)
    BY LenProperties DEF KInv, Typed, ListTyped
  <2> QED BY <2>1 DEF LedInv, AllLed, HeardIsLed, Led, HasVolume, Starting, HeardHasBlock
<1> QED BY <1>1, <1>2, <1>3, KInvAlways, PTL DEF VmsSpec
=============================================================================
