---------------------------- MODULE Stores_proofs ----------------------------
(***************************************************************************)
(* Proofs about what is stored.  Nvm: the row cache of nvm.c keeps the     *)
(* promise of RowStore, and the parser of the upload stays inside its      *)
(* memory, for every row size, layout of the flash and upload.  Eeprom:    *)
(* the configuration survives power failures and updates, for every row    *)
(* size and every set of firmwares.                                        *)
(***************************************************************************)
EXTENDS Nvm, Eeprom, SequenceTheorems, WellFoundedInduction, NaturalsInduction, TLAPS

-----------------------------------------------------------------------------
(* Numbers and rows *)

\* A set of natural numbers that is not empty has a least element.
LEMMA LeastNumber ==
  ASSUME NEW S \in SUBSET Nat, S # {}
  PROVE  \E n \in S : \A m \in S : n <= m
<1> DEFINE below == OpToRel(<, Nat)
<1>1. \A m, n \in Nat : m < n => <<m, n>> \in below
  BY Zenon DEF OpToRel
<1>2. IsWellFoundedOn(below, Nat)
  BY NatLessThanWellFounded
<1> HIDE DEF below
<1>3. PICK n \in S : \A m \in S : ~ (<<m, n>> \in below)
  BY <1>2, WFMin, Zenon
<1>4. \A m \in S : ~ (m < n)
  BY <1>1, <1>3, Zenon
<1> QED BY <1>4

\* A set that has 0 and with each number its successor has every number.
LEMMA EveryNumber ==
  ASSUME NEW S, 0 \in S, \A n \in Nat : n \in S => n + 1 \in S
  PROVE  Nat \subseteq S
<1> SUFFICES ASSUME Nat \ S # {} PROVE FALSE
  OBVIOUS
<1>1. PICK n \in Nat \ S : \A m \in Nat \ S : n <= m
  BY LeastNumber
<1>2. n # 0 /\ n - 1 \in Nat /\ n - 1 \in S
  BY <1>1
<1> QED BY <1>1, <1>2

\* The row of a cell and its place in the row.
LEMMA CellOfRow ==
  ASSUME NEW c \in Nat
  PROVE  /\ RowNumber(c) \in Nat /\ c % RowSize \in 0 .. RowSize - 1
         /\ c = RowNumber(c) * RowSize + (c % RowSize)
<1>1. ASSUME NEW R \in Nat \ {0}
      PROVE  c \div R \in Nat /\ c % R \in 0 .. R - 1 /\ c = (c \div R) * R + (c % R)
  OBVIOUS
<1> QED BY <1>1, NvmAssumption DEF RowNumber

\* Quotients ascend as their numbers do.
LEMMA QuotientsAscend ==
  ASSUME NEW R \in Nat \ {0}, NEW c \in Nat, NEW d \in Nat, c <= d
  PROVE  c \div R \in Nat /\ d \div R \in Nat /\ c \div R <= d \div R
<1> DEFINE x == c \div R
           y == d \div R
<1>2. /\ x \in Nat /\ c % R \in 0 .. R - 1 /\ c = x * R + (c % R)
      /\ y \in Nat /\ d % R \in 0 .. R - 1 /\ d = y * R + (d % R)
  OBVIOUS
<1> HIDE DEF x, y
<1> SUFFICES ASSUME x >= y + 1 PROVE FALSE
  BY <1>2 DEF x, y
<1>3. x * R >= y * R + R
  <2>1. PICK k \in Nat : x = y + 1 + k
    <3>1. x - y - 1 \in Nat /\ x = y + 1 + (x - y - 1)
      BY <1>2
    <3> QED BY <3>1
  <2>2. x * R = y * R + R + k * R
    BY <1>2, <2>1
  <2>3. k * R \in Nat /\ y * R \in Nat
    BY <1>2
  <2> QED BY <2>2, <2>3
<1>4. ASSUME NEW a \in Int, NEW b \in Int, NEW e \in Int, NEW f \in Int,
             a >= b + R, e \in 0 .. R - 1, f \in 0 .. R - 1, c = a + e, d = b + f
      PROVE  FALSE
  BY <1>4
<1>5. x * R \in Int /\ y * R \in Int
  BY <1>2
<1> QED BY <1>2, <1>3, <1>4, <1>5

\* Rows follow one another as their cells do.
LEMMA RowsAscend ==
  ASSUME NEW c \in Nat, NEW d \in Nat, c <= d
  PROVE  RowNumber(c) <= RowNumber(d)
BY NvmAssumption, QuotientsAscend DEF RowNumber

-----------------------------------------------------------------------------
(* The row cache *)

\* What a cell of the flash may hold.
Contents == {Blank} \cup Sent

\* The cache stands for memory m: without a row the flash has all of it, with one the row
\* that was written last is in RAM and every other one in the flash.
Caches(s, m) ==
    \/ s.last = NoPage /\ s.held = <<>> /\ \A c \in FlashCells : s.flash[c] = m[c]
    \/ /\ s.last \in Nat /\ s.page = s.last /\ DOMAIN s.held = 0 .. RowSize - 1
       /\ \A c \in FlashCells :
            m[c] = IF RowNumber(c) = s.last THEN s.held[c % RowSize] ELSE s.flash[c]

\* Memory n is m with the part of some data that falls into a row.
PutInRow(n, m, row, index, data) ==
    \A c \in FlashCells :
      n[c] = IF RowNumber(c) = row /\ c - index + 1 \in DOMAIN data THEN data[c - index + 1] ELSE m[c]

\* Flash f is that of cache s with the row it held as it is in memory m, unless it is row.
Evicted(f, s, m, row) ==
    \A c \in FlashCells : f[c] = IF RowNumber(c) = s.last /\ s.last # row THEN m[c] ELSE s.flash[c]

\* Writing into one row: the row that was in RAM goes to the flash unless it is the same.
LEMMA PatchCaches ==
  ASSUME NEW s, NEW m, Caches(s, m), NEW row \in Nat, NEW index \in Nat, NEW data,
         NEW n, PutInRow(n, m, row, index, data)
  PROVE  /\ Caches(PatchRow(s, row, index, data), n)
         /\ PatchRow(s, row, index, data).last = row
         /\ Evicted(PatchRow(s, row, index, data).flash, s, m, row)
<1> DEFINE u == TurnTo(s, row)
           at(o) == row * RowSize + o - index + 1
           patch == [o \in 0 .. RowSize - 1 |-> IF at(o) \in DOMAIN data THEN data[at(o)] ELSE u.held[o]]
           t == PatchRow(s, row, index, data)
<1>1. t = [u EXCEPT !.held = patch]
  BY DEF PatchRow
<1>2. /\ u.last = row /\ u.page = row
      /\ u.flash = IF s.last \in {NoPage, row} THEN s.flash ELSE WriteRow(s.flash, s.last, s.held)
      /\ u.held = IF s.last = row THEN s.held ELSE FlashRow(s.flash, row)
  BY DEF TurnTo
<1>3. t.last = row /\ t.page = row /\ t.flash = u.flash /\ t.held = patch
  BY <1>1 DEF TurnTo
<1>4. NoPage \notin Nat /\ FlashCells \subseteq Nat
  BY NvmAssumption DEF NoPage, FlashCells
<1>5. ASSUME NEW c \in FlashCells
      PROVE  t.flash[c] = IF RowNumber(c) = s.last /\ s.last # row THEN m[c] ELSE s.flash[c]
  <2>0. RowNumber(c) \in Nat
    BY <1>4, CellOfRow
  <2>1. CASE s.last \in {NoPage, row}
    BY <1>2, <1>3, <1>4, <2>0, <2>1
  <2>2. CASE s.last \notin {NoPage, row}
    <3>1. t.flash = WriteRow(s.flash, s.last, s.held)
      BY <1>2, <1>3, <2>2
    <3>2. t.flash[c] = IF RowNumber(c) = s.last THEN s.held[c % RowSize] ELSE s.flash[c]
      BY <3>1 DEF WriteRow
    <3> QED BY <2>2, <3>2 DEF Caches
  <2> QED BY <2>1, <2>2
<1>6. ASSUME NEW c \in FlashCells, RowNumber(c) = row
      PROVE  u.held[c % RowSize] = m[c] /\ at(c % RowSize) = c - index + 1 /\ c % RowSize \in 0 .. RowSize - 1
  <2>1. c % RowSize \in 0 .. RowSize - 1 /\ c = row * RowSize + (c % RowSize)
    BY <1>4, <1>6, CellOfRow
  <2>2. at(c % RowSize) = c - index + 1
    <3>1. ASSUME NEW a \in Int, NEW o \in Int, c = a + o PROVE a + o - index + 1 = c - index + 1
      BY <3>1
    <3>2. row * RowSize \in Int /\ c % RowSize \in Int
      BY <2>1, NvmAssumption
    <3> QED BY <2>1, <3>1, <3>2
  <2> HIDE DEF at
  <2>3. CASE s.last = row
    <3>1. u.held = s.held /\ s.last # NoPage
      BY <1>2, <1>4, <2>3
    <3> HIDE DEF u
    <3>2. m[c] = s.held[c % RowSize]
      BY <1>6, <2>3, <3>1 DEF Caches
    <3> QED BY <2>1, <2>2, <3>1, <3>2
  <2>4. CASE s.last # row
    <3>1. u.held[c % RowSize] = s.flash[c]
      BY <1>2, <2>1, <2>4 DEF FlashRow
    <3>2. m[c] = s.flash[c]
      BY <1>6, <2>4 DEF Caches
    <3> QED BY <2>1, <2>2, <3>1, <3>2
  <2> QED BY <2>1, <2>2, <2>3, <2>4
<1>7. ASSUME NEW c \in FlashCells
      PROVE  n[c] = IF RowNumber(c) = row THEN patch[c % RowSize] ELSE t.flash[c]
  <2>1. CASE RowNumber(c) = row
    <3> HIDE DEF at, u
    <3>0. n[c] = IF c - index + 1 \in DOMAIN data THEN data[c - index + 1] ELSE m[c]
      BY <2>1 DEF PutInRow
    <3>1. patch[c % RowSize] = IF c - index + 1 \in DOMAIN data THEN data[c - index + 1] ELSE m[c]
      BY <1>6, <2>1
    <3> QED BY <2>1, <3>0, <3>1
  <2>2. CASE RowNumber(c) # row
    <3>1. n[c] = m[c]
      BY <2>2 DEF PutInRow
    <3>2. RowNumber(c) = s.last /\ s.last # row => t.flash[c] = m[c]
      BY <1>5
    <3>3. ~(RowNumber(c) = s.last) => t.flash[c] = s.flash[c] /\ m[c] = s.flash[c]
      BY <1>5 DEF Caches
    <3> QED BY <2>2, <3>1, <3>2, <3>3
  <2> QED BY <2>1, <2>2
<1>8. DOMAIN patch = 0 .. RowSize - 1
  OBVIOUS
<1> HIDE DEF t, patch
<1>9. Caches(t, n)
  BY <1>3, <1>7, <1>8 DEF Caches
<1> QED BY <1>3, <1>5, <1>9 DEF t, Evicted

\* The states of the cache after each row of a write.
Patches(h, rows, s, index, data) ==
    h = [n \in 0 .. rows |-> IF n = 0 THEN s
                             ELSE PatchRow(h[n - 1], RowNumber(index) + n - 1, index, data)]

\* They exist, by induction over the number of rows.
LEMMA PatchesExist ==
  ASSUME NEW s, NEW index, NEW data
  PROVE  \A rows \in Nat : \E h : Patches(h, rows, s, index, data)
<1> DEFINE S == {rows \in Nat : \E h : Patches(h, rows, s, index, data)}
<1>1. 0 \in S
  <2> DEFINE h == [n \in 0 .. 0 |-> s]
  <2>1. Patches(h, 0, s, index, data)
    <3> DEFINE F(n) == IF n = 0 THEN s ELSE PatchRow(h[n - 1], RowNumber(index) + n - 1, index, data)
    <3>1. \A n \in 0 .. 0 : F(n) = s
      OBVIOUS
    <3> HIDE DEF F
    <3>2. [n \in 0 .. 0 |-> F(n)] = [n \in 0 .. 0 |-> s]
      BY <3>1
    <3> QED BY <3>2 DEF F, Patches
  <2> QED BY <2>1
<1>2. ASSUME NEW rows \in Nat, rows \in S PROVE rows + 1 \in S
  <2>1. PICK g : Patches(g, rows, s, index, data)
    BY <1>2
  <2> DEFINE step(f, n) == IF n = 0 THEN s ELSE PatchRow(f[n - 1], RowNumber(index) + n - 1, index, data)
  <2>2. g = [n \in 0 .. rows |-> step(g, n)]
    BY <2>1 DEF Patches
  <2> DEFINE last == PatchRow(g[rows], RowNumber(index) + (rows + 1) - 1, index, data)
             h == [n \in 0 .. rows + 1 |-> IF n <= rows THEN g[n] ELSE last]
  <2>3. \A n \in 0 .. rows : h[n] = g[n] /\ n \in 0 .. rows + 1
    <3>1. \A n \in 0 .. rows : n <= rows /\ n \in 0 .. rows + 1
      BY <1>2
    <3> HIDE DEF last
    <3> QED BY <3>1
  <2>4. rows + 1 \in 0 .. rows + 1 /\ ~(rows + 1 <= rows) /\ rows + 1 # 0 /\ rows + 1 - 1 = rows /\ rows \in 0 .. rows
    BY <1>2
  <2>5. h[rows + 1] = last
    <3> HIDE DEF last
    <3> QED BY <2>4
  <2>6. ASSUME NEW n \in 0 .. rows + 1 PROVE h[n] = step(h, n)
    <3>1. CASE n = rows + 1
      <4>1. step(h, n) = PatchRow(h[rows], RowNumber(index) + (rows + 1) - 1, index, data)
        BY <2>4, <3>1
      <4> HIDE DEF step, h
      <4> QED BY <2>3, <2>4, <2>5, <3>1, <4>1
    <3>2. CASE n # rows + 1
      <4>1. n \in 0 .. rows /\ (n # 0 => n - 1 \in 0 .. rows)
        BY <3>2, <1>2
      <4>2. g[n] = step(g, n)
        <5> HIDE DEF step
        <5>1. \A k \in 0 .. rows : g[k] = step(g, k)
          BY <2>2
        <5> QED BY <4>1, <5>1
      <4>3. n # 0 => h[n - 1] = g[n - 1]
        <5> HIDE DEF h
        <5> QED BY <2>3, <4>1
      <4>4. h[n] = g[n]
        <5> HIDE DEF h
        <5> QED BY <2>3, <4>1
      <4> HIDE DEF h
      <4> QED BY <4>2, <4>3, <4>4
    <3> QED BY <3>1, <3>2
  <2>7. h = [n \in 0 .. rows + 1 |-> h[n]]
    OBVIOUS
  <2> HIDE DEF h, step
  <2>8. h = [n \in 0 .. rows + 1 |-> step(h, n)]
    BY <2>6, <2>7
  <2>9. Patches(h, rows + 1, s, index, data)
    BY <2>8 DEF Patches, step
  <2> QED BY <1>2, <2>9
<1> HIDE DEF S
<1>3. Nat \subseteq S
  BY <1>1, <1>2, EveryNumber
<1> QED BY <1>3 DEF S

\* The write ends with the last of them, and each comes from the one before.
LEMMA WriteBufferIsLast ==
  ASSUME NEW s, NEW index, NEW data, NEW rows \in Nat,
         rows = RowNumber(index + Len(data) - 1) - RowNumber(index) + 1
  PROVE  \E h : /\ h[0] = s /\ h[rows] = WriteBuffer(s, index, data)
                /\ \A n \in 1 .. rows : h[n] = PatchRow(h[n - 1], RowNumber(index) + n - 1, index, data)
<1> DEFINE h == CHOOSE f : Patches(f, rows, s, index, data)
<1>1. WriteBuffer(s, index, data) = h[rows]
  BY DEF WriteBuffer, Patches
<1>2. Patches(h, rows, s, index, data)
  BY PatchesExist, Zenon
<1> HIDE DEF h
<1> DEFINE step(n) == IF n = 0 THEN s ELSE PatchRow(h[n - 1], RowNumber(index) + n - 1, index, data)
<1>3. h = [n \in 0 .. rows |-> step(n)]
  BY <1>2 DEF Patches
<1>4. \A n \in 0 .. rows : h[n] = step(n)
  <2> HIDE DEF step
  <2> QED BY <1>3
<1>5. 0 \in 0 .. rows /\ \A n \in 1 .. rows : n \in 0 .. rows /\ n # 0
  OBVIOUS
<1>6. h[0] = s
  BY <1>4, <1>5
<1>7. \A n \in 1 .. rows : h[n] = PatchRow(h[n - 1], RowNumber(index) + n - 1, index, data)
  BY <1>4, <1>5
<1> QED BY <1>1, <1>6, <1>7

\* Where the data of a write go.
LEMMA DataPlace ==
  ASSUME NEW index \in Nat, NEW V, NEW data \in Seq(V), data # <<>>
  PROVE  /\ RowNumber(index) \in Nat /\ RowNumber(index + Len(data) - 1) \in Nat
         /\ RowNumber(index) <= RowNumber(index + Len(data) - 1)
         /\ \A c \in FlashCells :
              /\ RowNumber(c) \in Nat
              /\ c - index + 1 \in DOMAIN data =>
                   /\ RowNumber(index) <= RowNumber(c)
                   /\ RowNumber(c) <= RowNumber(index + Len(data) - 1)
<1> DEFINE last == index + Len(data) - 1
<1>1. Len(data) \in Nat /\ Len(data) # 0 /\ DOMAIN data = 1 .. Len(data)
  BY EmptySeq, LenProperties
<1>2. last \in Nat /\ index <= last
  BY <1>1
<1>3. FlashCells \subseteq Nat
  BY NvmAssumption DEF FlashCells
<1>4. ASSUME NEW c \in FlashCells, c - index + 1 \in DOMAIN data
      PROVE  c \in Nat /\ index <= c /\ c <= last
  <2>1. c - index + 1 \in 1 .. Len(data) /\ c \in Nat
    BY <1>1, <1>3, <1>4
  <2> QED BY <2>1, <1>1
<1> HIDE DEF last
<1> QED BY <1>2, <1>3, <1>4, CellOfRow, RowsAscend DEF last

\* Flash f is that of cache s after a write that made memory w of m: the rows it passed
\* through are as they are now, and the row that was in RAM is as it was before.
Swept(f, s, m, w, first, final) ==
    \A c \in FlashCells :
      f[c] = IF first <= RowNumber(c) /\ RowNumber(c) < final THEN w[c]
             ELSE IF RowNumber(c) = s.last /\ s.last # first THEN m[c] ELSE s.flash[c]

\* A write leaves a cache of what has been written.
LEMMA WriteCaches ==
  ASSUME NEW s, NEW m, Caches(s, m), NEW index \in Nat, NEW V, NEW data \in Seq(V), data # <<>>
  PROVE  /\ Caches(WriteBuffer(s, index, data), Put(m, index, data))
         /\ WriteBuffer(s, index, data).last = RowNumber(index + Len(data) - 1)
         /\ Swept(WriteBuffer(s, index, data).flash, s, m, Put(m, index, data),
                  RowNumber(index), RowNumber(index + Len(data) - 1))
<1> DEFINE t == WriteBuffer(s, index, data)
           w == Put(m, index, data)
           first == RowNumber(index)
           final == RowNumber(index + Len(data) - 1)
           rows == final - first + 1
           in(c) == c - index + 1 \in DOMAIN data
           mid(n) == [c \in FlashCells |-> IF RowNumber(c) < first + n THEN w[c] ELSE m[c]]
<1>1. /\ first \in Nat /\ final \in Nat /\ first <= final
      /\ \A c \in FlashCells : /\ RowNumber(c) \in Nat
                               /\ in(c) => first <= RowNumber(c) /\ RowNumber(c) <= final
  BY DataPlace
<1>2. rows \in Nat /\ rows # 0
  BY <1>1
<1>3. PICK h : /\ h[0] = s /\ h[rows] = t
               /\ \A n \in 1 .. rows : h[n] = PatchRow(h[n - 1], first + n - 1, index, data)
  BY <1>2, WriteBufferIsLast
<1>4. \A c \in FlashCells : w[c] = IF in(c) THEN data[c - index + 1] ELSE m[c]
  BY DEF Put
<1> DEFINE after(n, c) == IF first <= RowNumber(c) /\ RowNumber(c) < first + n - 1 THEN w[c]
                          ELSE IF RowNumber(c) = s.last /\ s.last # first THEN m[c] ELSE s.flash[c]
           P(n) == /\ Caches(h[n], mid(n)) /\ h[n].last = first + n - 1
                   /\ \A c \in FlashCells : h[n].flash[c] = after(n, c)
           S == {n \in Nat : n + 1 <= rows => P(n + 1)}
<1> HIDE DEF w, first, final, t, in
<1>5. \A c \in FlashCells : w[c] = m[c] \/ (first <= RowNumber(c) /\ in(c) /\ RowNumber(c) <= final)
  BY <1>1, <1>4
<1>6. ASSUME NEW n \in Nat, NEW c \in FlashCells
      PROVE  mid(n + 1)[c] = IF RowNumber(c) = first + n /\ in(c) THEN data[c - index + 1]
                             ELSE mid(n)[c]
  <2>1. RowNumber(c) \in Nat /\ first \in Nat
    BY <1>1
  <2>2. CASE RowNumber(c) < first + n
    <3>1. RowNumber(c) < first + (n + 1) /\ RowNumber(c) # first + n
      BY <2>1, <2>2
    <3> QED BY <2>2, <3>1
  <2>3. CASE RowNumber(c) = first + n
    <3>1. RowNumber(c) < first + (n + 1) /\ ~(RowNumber(c) < first + n)
      BY <2>1, <2>3
    <3> QED BY <2>3, <3>1, <1>4
  <2>4. CASE RowNumber(c) > first + n
    <3>1. ~(RowNumber(c) < first + (n + 1)) /\ RowNumber(c) # first + n /\ ~(RowNumber(c) < first + n)
      BY <2>1, <2>4
    <3> QED BY <3>1
  <2> QED BY <2>1, <2>2, <2>3, <2>4
<1>7. ASSUME NEW c \in FlashCells PROVE mid(0)[c] = m[c]
  <2>1. RowNumber(c) < first + 0 => w[c] = m[c]
    BY <1>1, <1>5
  <2> QED BY <2>1
<1> HIDE DEF mid
<1>8. 0 \in S
  <2> SUFFICES P(1)
    BY DEF mid
  <2>1. 1 \in 1 .. rows /\ 1 - 1 = 0 /\ first + 1 - 1 = first /\ first + 0 = first /\ 0 + 1 = 1
    BY <1>1, <1>2
  <2>2. h[1] = PatchRow(s, first, index, data)
    BY <1>3, <2>1
  <2>3. \A c \in FlashCells : mid(1)[c] = IF RowNumber(c) = first /\ in(c) THEN data[c - index + 1] ELSE m[c]
    BY <1>6, <1>7, <2>1
  <2>4. /\ Caches(h[1], mid(1)) /\ h[1].last = first
        /\ \A c \in FlashCells :
             h[1].flash[c] = IF RowNumber(c) = s.last /\ s.last # first THEN m[c] ELSE s.flash[c]
    <3>1. PutInRow(mid(1), m, first, index, data) /\ first \in Nat
      BY <1>1, <2>3 DEF PutInRow, in
    <3>2. /\ Caches(PatchRow(s, first, index, data), mid(1))
          /\ PatchRow(s, first, index, data).last = first
          /\ Evicted(PatchRow(s, first, index, data).flash, s, m, first)
      BY <3>1, PatchCaches
    <3> QED BY <2>2, <3>2 DEF Evicted
  <2>5. \A c \in FlashCells : ~(first <= RowNumber(c) /\ RowNumber(c) < first + 1 - 1)
    BY <1>1
  <2> QED BY <2>1, <2>4, <2>5
<1>9. ASSUME NEW n \in Nat, n \in S PROVE n + 1 \in S
  <2> SUFFICES ASSUME n + 1 + 1 <= rows PROVE P(n + 1 + 1)
    OBVIOUS
  <2> DEFINE k == n + 1
  <2>1. /\ k \in Nat /\ k + 1 \in 1 .. rows /\ k <= rows /\ (k + 1) - 1 = k /\ first + (k + 1) - 1 = first + k
        /\ first + k \in Nat
    BY <1>1, <1>2
  <2>2. P(k)
    BY <1>9, <2>1
  <2>3. h[k + 1] = PatchRow(h[k], first + k, index, data)
    BY <1>3, <2>1
  <2> HIDE DEF k
  <2>4. \A c \in FlashCells : mid(k + 1)[c] = IF RowNumber(c) = first + k /\ in(c) THEN data[c - index + 1] ELSE mid(k)[c]
    BY <1>6, <2>1
  <2>5. /\ Caches(h[k + 1], mid(k + 1)) /\ h[k + 1].last = first + k
        /\ \A c \in FlashCells :
             h[k + 1].flash[c] = IF RowNumber(c) = h[k].last /\ h[k].last # first + k THEN mid(k)[c] ELSE h[k].flash[c]
    <3>1. PutInRow(mid(k + 1), mid(k), first + k, index, data) /\ Caches(h[k], mid(k))
      BY <2>2, <2>4 DEF PutInRow, in
    <3>2. /\ Caches(PatchRow(h[k], first + k, index, data), mid(k + 1))
          /\ PatchRow(h[k], first + k, index, data).last = first + k
          /\ Evicted(PatchRow(h[k], first + k, index, data).flash, h[k], mid(k), first + k)
      BY <2>1, <3>1, PatchCaches
    <3> QED BY <2>3, <3>2 DEF Evicted
  <2>6. ASSUME NEW c \in FlashCells PROVE h[k + 1].flash[c] = after(k + 1, c)
    <3>1. h[k].last = first + k - 1 /\ h[k].last # first + k /\ RowNumber(c) \in Nat /\ first \in Nat /\ n \in Nat /\ k = n + 1
      BY <1>1, <2>1, <2>2 DEF k
    <3>2. CASE RowNumber(c) = first + k - 1
      <4>1. RowNumber(c) < first + k /\ first <= RowNumber(c) /\ RowNumber(c) < first + (k + 1) - 1
        BY <3>1, <3>2
      <4>2. mid(k)[c] = w[c]
        BY <4>1 DEF mid
      <4> QED BY <2>5, <3>1, <3>2, <4>1, <4>2
    <3>3. CASE RowNumber(c) # first + k - 1
      <4>1. RowNumber(c) < first + (k + 1) - 1 <=> RowNumber(c) < first + k - 1
        BY <3>1, <3>3
      <4>2. h[k + 1].flash[c] = h[k].flash[c]
        BY <2>5, <3>1, <3>3
      <4> QED BY <2>2, <4>1, <4>2
    <3> QED BY <3>2, <3>3
  <2> HIDE DEF after
  <2>7. P(k + 1)
    BY <2>1, <2>5, <2>6
  <2> QED BY <2>7 DEF k
<1> HIDE DEF S
<1>10. Nat \subseteq S
  BY <1>8, <1>9, EveryNumber
<1>11. P(rows)
  <2>1. rows - 1 \in Nat /\ (rows - 1) + 1 = rows /\ (rows - 1) + 1 <= rows
    BY <1>2
  <2> HIDE DEF rows, P
  <2> QED BY <1>10, <2>1 DEF S
<1>12. \A c \in FlashCells : mid(rows)[c] = w[c]
  <2> SUFFICES ASSUME NEW c \in FlashCells PROVE mid(rows)[c] = w[c]
    OBVIOUS
  <2>1. RowNumber(c) < first + rows \/ w[c] = m[c]
    BY <1>1, <1>5
  <2> QED BY <2>1 DEF mid
<1>13. Caches(t, w)
  BY <1>3, <1>11, <1>12 DEF Caches
<1>14. t.last = final
  BY <1>1, <1>3, <1>11
<1>15. \A c \in FlashCells : t.flash[c] = after(rows, c)
  BY <1>3, <1>11
<1>16. first + rows - 1 = final
  BY <1>1
<1> HIDE DEF rows
<1> QED BY <1>13, <1>14, <1>15, <1>16 DEF t, w, first, final, Swept

\* What can have been written.
Memories == [FlashCells -> Contents]

\* Writing puts contents into the memory.
LEMMA PutTyped ==
  ASSUME NEW m \in Memories, NEW index \in Nat, NEW data \in Seq(Contents)
  PROVE  Put(m, index, data) \in Memories
<1>1. \A i \in DOMAIN data : data[i] \in Contents
  BY LenProperties, ElementOfSeq
<1> QED BY <1>1 DEF Put, Memories

\* After a save the cache holds a row, and stands for what has been written.
LEMMA KeepCaches ==
  ASSUME NEW s, Keep(s), NEW m, Caches(s, m), s.last \in Nat, written' = m
  PROVE  Caches(Store, written)' /\ held' # <<>>
<1>1. flash' = s.flash /\ held' = s.held /\ page' = s.page /\ lastPage' = s.last
  BY DEF Keep
<1>2. /\ (Store').flash = s.flash /\ (Store').held = s.held
      /\ (Store').page = s.page /\ (Store').last = s.last
  BY <1>1 DEF Store
<1>3. Caches(Store, written)'
  BY <1>2 DEF Caches
<1>4. NoPage \notin Nat
  BY DEF NoPage
<1>5. DOMAIN held' = 0 .. RowSize - 1
  BY <1>1, <1>4 DEF Caches
<1>6. 0 \in 0 .. RowSize - 1 /\ 0 \notin DOMAIN <<>>
  BY NvmAssumption
<1> QED BY <1>3, <1>5, <1>6

\* One write.
LEMMA SaveKeeps ==
  ASSUME Caches(Store, written), written \in Memories,
         NEW index \in Nat, NEW data \in Seq(Contents), data # <<>>, Save(index, data)
  PROVE  /\ Caches(Store, written)' /\ held' # <<>> /\ written' \in Memories
         /\ Rows!Write
<1> DEFINE t == WriteBuffer(Store, index, data)
           w == Put(written, index, data)
           first == RowNumber(index)
           final == RowNumber(index + Len(data) - 1)
<1>1. Keep(t) /\ written' = w
  BY DEF Save
<1>2. Caches(t, w) /\ t.last = final /\ Swept(t.flash, Store, written, w, first, final)
  BY WriteCaches
<1>3. final \in Nat
  BY DataPlace
<1> HIDE DEF t, w, first, final
<1>4. Caches(Store, written)' /\ held' # <<>>
  BY <1>1, <1>2, <1>3, KeepCaches
<1>5. written' \in Memories
  BY <1>1, PutTyped DEF w
<1>6. flash' = t.flash /\ Store.flash = flash
  BY <1>1 DEF Keep, Store
<1>7. ASSUME NEW c \in FlashCells
      PROVE  \E old \in {flash, written, written'} :
               \A d \in FlashCells : RowNumber(d) = RowNumber(c) => flash'[d] = old[d]
  <2>1. CASE first <= RowNumber(c) /\ RowNumber(c) < final
    BY <1>1, <1>2, <1>6, <2>1 DEF Swept
  <2>2. CASE ~(first <= RowNumber(c) /\ RowNumber(c) < final) /\ RowNumber(c) = Store.last /\ Store.last # first
    BY <1>2, <1>6, <2>2 DEF Swept
  <2>3. CASE ~(first <= RowNumber(c) /\ RowNumber(c) < final) /\ ~(RowNumber(c) = Store.last /\ Store.last # first)
    BY <1>2, <1>6, <2>3 DEF Swept
  <2> QED BY <2>1, <2>2, <2>3
<1> QED BY <1>4, <1>5, <1>7 DEF Rows!Write, Memories, Contents

\* A header of one cell and the entries behind it: the row of the header is not left before
\* the entries that fall into it have been written.
LEMMA SaveBothKeeps ==
  ASSUME Caches(Store, written), written \in Memories,
         NEW index \in Nat, NEW header \in Seq(Contents), Len(header) = 1,
         NEW entries \in Seq(Contents), entries # <<>>, SaveBoth(index, header, entries)
  PROVE  /\ Caches(Store, written)' /\ held' # <<>> /\ written' \in Memories
         /\ Rows!Write
<1> DEFINE s == WriteBuffer(Store, index, header)
           m == Put(written, index, header)
           t == WriteBuffer(s, index + 1, entries)
           w == Put(m, index + 1, entries)
           r == RowNumber(index)
           first == RowNumber(index + 1)
           final == RowNumber(index + 1 + Len(entries) - 1)
<1>1. /\ header # <<>> /\ index + Len(header) - 1 = index /\ index + Len(header) = index + 1
      /\ index + 1 \in Nat /\ index <= index + 1
  <2>1. Len(<<>>) = 0
    OBVIOUS
  <2>2. header # <<>>
    BY <2>1
  <2> QED BY <2>2
<1>2. Keep(t) /\ written' = w
  BY <1>1 DEF SaveBoth
<1>3. Caches(s, m) /\ s.last = r /\ Swept(s.flash, Store, written, m, r, r)
  <2>1. /\ Caches(WriteBuffer(Store, index, header), Put(written, index, header))
        /\ WriteBuffer(Store, index, header).last = RowNumber(index + Len(header) - 1)
        /\ Swept(WriteBuffer(Store, index, header).flash, Store, written, Put(written, index, header),
                 RowNumber(index), RowNumber(index + Len(header) - 1))
    BY <1>1, WriteCaches
  <2> QED BY <1>1, <2>1
<1>4. Caches(t, w) /\ t.last = final /\ Swept(t.flash, s, m, w, first, final)
  <2>1. Caches(s, m) /\ index + 1 \in Nat
    BY <1>1, <1>3
  <2> HIDE DEF s, m
  <2>2. /\ Caches(WriteBuffer(s, index + 1, entries), Put(m, index + 1, entries))
        /\ WriteBuffer(s, index + 1, entries).last = RowNumber(index + 1 + Len(entries) - 1)
        /\ Swept(WriteBuffer(s, index + 1, entries).flash, s, m, Put(m, index + 1, entries),
                 RowNumber(index + 1), RowNumber(index + 1 + Len(entries) - 1))
    BY <2>1, WriteCaches
  <2> QED BY <2>2
<1>5. /\ first \in Nat /\ final \in Nat
      /\ \A c \in FlashCells :
           /\ RowNumber(c) \in Nat
           /\ c - (index + 1) + 1 \in DOMAIN entries => first <= RowNumber(c) /\ RowNumber(c) <= final
  BY <1>1, DataPlace
<1>6. r \in Nat /\ r <= first
  BY <1>1, CellOfRow, RowsAscend
<1>7. \A c \in FlashCells : c - (index + 1) + 1 \notin DOMAIN entries => w[c] = m[c]
  BY DEF Put
<1>8. Caches(Store, written)' /\ held' # <<>>
  <2> HIDE DEF t, w, final
  <2> QED BY <1>2, <1>4, <1>5, KeepCaches
<1>9. m \in Memories /\ w \in Memories
  <2>1. m \in Memories
    BY PutTyped
  <2> HIDE DEF m
  <2> QED BY <1>1, <2>1, PutTyped
<1>10. flash' = t.flash /\ Store.flash = flash
  BY <1>2 DEF Keep, Store
<1> HIDE DEF s, m, t, w, r, first, final
<1>11. ASSUME NEW c \in FlashCells
       PROVE  \E old \in {flash, written, written'} :
                \A d \in FlashCells : RowNumber(d) = RowNumber(c) => flash'[d] = old[d]
  <2>0. RowNumber(c) \in Nat
    BY <1>5
  <2>1. CASE first <= RowNumber(c) /\ RowNumber(c) < final
    BY <1>2, <1>4, <1>10, <2>1 DEF Swept
  <2>2. CASE ~(first <= RowNumber(c) /\ RowNumber(c) < final) /\ RowNumber(c) = r /\ r # first
    <3>1. ~(first <= r)
      BY <1>5, <1>6, <2>2
    <3>2. ASSUME NEW d \in FlashCells, RowNumber(d) = RowNumber(c) PROVE flash'[d] = written'[d]
      <4>1. w[d] = m[d]
        BY <1>5, <1>7, <2>2, <3>1, <3>2
      <4>2. t.flash[d] = m[d]
        BY <1>3, <1>4, <2>2, <3>2 DEF Swept
      <4> QED BY <1>2, <1>10, <4>1, <4>2
    <3> QED BY <3>2
  <2>3. CASE ~(first <= RowNumber(c) /\ RowNumber(c) < final) /\ ~(RowNumber(c) = r /\ r # first)
    <3>1. \A d \in FlashCells : RowNumber(d) = RowNumber(c) => t.flash[d] = s.flash[d]
      BY <1>3, <1>4, <2>3 DEF Swept
    <3>2. ~(r <= RowNumber(c) /\ RowNumber(c) < r)
      BY <1>6, <2>0
    <3>3. CASE RowNumber(c) = Store.last /\ Store.last # r
      BY <1>3, <1>10, <3>1, <3>2, <3>3 DEF Swept
    <3>4. CASE ~(RowNumber(c) = Store.last /\ Store.last # r)
      BY <1>3, <1>10, <3>1, <3>2, <3>4 DEF Swept
    <3> QED BY <3>3, <3>4
  <2> QED BY <2>1, <2>2, <2>3
<1> QED BY <1>2, <1>8, <1>9, <1>11 DEF Rows!Write, Memories, Contents

\* A flush of a cache that holds a row leaves nothing behind.
LEMMA FlushKeeps ==
  ASSUME Caches(Store, written), written \in Memories, held # <<>>,
         Keep(FlushStore(Store)), UNCHANGED written
  PROVE  Caches(Store, written)' /\ Rows!Flush
<1>1. /\ flash' = WriteRow(flash, page, held) /\ held' = <<>> /\ lastPage' = NoPage
  BY DEF Keep, FlushStore, Store
<1>2. /\ lastPage \in Nat /\ page = lastPage
      /\ \A c \in FlashCells :
           written[c] = IF RowNumber(c) = lastPage THEN held[c % RowSize] ELSE flash[c]
  BY DEF Caches, Store
<1>3. flash' = written
  BY <1>1, <1>2 DEF WriteRow, Memories
<1>4. Caches(Store, written)'
  BY <1>1, <1>3 DEF Caches, Store
<1> QED BY <1>3, <1>4 DEF Rows!Flush

-----------------------------------------------------------------------------
(* The packets of an upload *)

\* What a host can send: headers and entries of maps, blocks, the flush.
TablePacketSet == [kind : {"header", "entry"}, cell : CellValues]
BlockPacketSet == [kind : {"block"}, id : Nat, cell : CellValues]
SavedPacketSet == TablePacketSet \cup BlockPacketSet
FlushPacketSet == [kind : {"flush"}]
PacketSet == SavedPacketSet \cup FlushPacketSet

\* The header in front of the entry at place k of some packets announces it.
Announced(s, k) ==
    \E h \in 1 .. k - 1 :
      /\ s[h].kind = "header" /\ k - h <= s[h].cell.count
      /\ \A j \in h + 1 .. k : s[j].kind = "entry"

\* Every entry is announced.
AllAnnounced(s) == \A k \in 1 .. Len(s) : s[k].kind = "entry" => Announced(s, k)

\* What is written to the flash as soon as it is received.
Saving(q) == q.kind = "block" \/ (q.kind = "header" /\ q.cell.count = 0)

\* Packets behind one another: those of the second part are announced as before.
LEMMA ConcatAnnounced ==
  ASSUME NEW V, NEW r \in Seq(V), NEW s \in Seq(V), AllAnnounced(r), AllAnnounced(s)
  PROVE  AllAnnounced(r \o s)
<1> DEFINE t == r \o s
           n == Len(r)
<1>1. /\ n \in Nat /\ Len(s) \in Nat /\ Len(t) = n + Len(s)
      /\ \A k \in 1 .. n + Len(s) : t[k] = IF k <= n THEN r[k] ELSE s[k - n]
  BY ConcatProperties, LenProperties
<1> HIDE DEF t, n
<1> SUFFICES ASSUME NEW k \in 1 .. n + Len(s), t[k].kind = "entry" PROVE Announced(t, k)
  BY <1>1 DEF AllAnnounced, t
<1>2. CASE k <= n
  <2>1. k \in 1 .. n /\ t[k] = r[k] /\ \A j \in 1 .. k : j \in 1 .. n + Len(s) /\ j <= n
    BY <1>1, <1>2
  <2>2. PICK h \in 1 .. k - 1 : /\ r[h].kind = "header" /\ k - h <= r[h].cell.count
                                /\ \A j \in h + 1 .. k : r[j].kind = "entry"
    BY <2>1 DEF AllAnnounced, Announced, n
  <2>3. h \in 1 .. k /\ \A j \in h + 1 .. k : j \in 1 .. k
    BY <2>1
  <2>4. \A j \in 1 .. k : t[j] = r[j]
    BY <1>1, <2>1
  <2> QED BY <2>2, <2>3, <2>4 DEF Announced
<1>3. CASE ~(k <= n)
  <2>1. k - n \in 1 .. Len(s) /\ t[k] = s[k - n]
    BY <1>1, <1>3
  <2>2. PICK g \in 1 .. k - n - 1 : /\ s[g].kind = "header" /\ (k - n) - g <= s[g].cell.count
                                    /\ \A j \in g + 1 .. k - n : s[j].kind = "entry"
    BY <2>1 DEF AllAnnounced, Announced
  <2> DEFINE h == g + n
  <2>3. /\ h \in 1 .. k - 1 /\ h - n = g /\ ~(h <= n) /\ h \in 1 .. n + Len(s) /\ k - h = (k - n) - g
    BY <1>1, <2>1
  <2>4. \A j \in h + 1 .. k : j \in 1 .. n + Len(s) /\ ~(j <= n) /\ j - n \in g + 1 .. k - n
    BY <1>1, <2>1
  <2>5. t[h] = s[g] /\ \A j \in h + 1 .. k : t[j] = s[j - n]
    BY <1>1, <2>3, <2>4
  <2> HIDE DEF h
  <2> QED BY <2>2, <2>3, <2>4, <2>5 DEF Announced
<1> QED BY <1>2, <1>3

\* Sequences without an entry.
LEMMA NothingToAnnounce ==
  ASSUME NEW s, \A k \in 1 .. Len(s) : s[k].kind # "entry"
  PROVE  AllAnnounced(s)
BY DEF AllAnnounced

\* The maps of an upload.
Maps == [from : Nat, to : Nat, entries : Seq(CellValues)]

\* The packets of a map: a header that announces just its entries.
LEMMA MapPacketsGood ==
  ASSUME NEW m \in Maps
  PROVE  MapPackets(m) \in Seq(TablePacketSet) /\ AllAnnounced(MapPackets(m))
<1> DEFINE n == Len(m.entries)
           head == <<[kind |-> "header", cell |-> HeaderOf(m)]>>
           tail == [i \in DOMAIN m.entries |-> [kind |-> "entry", cell |-> m.entries[i]]]
           t == head \o tail
<1>1. /\ n \in Nat /\ DOMAIN m.entries = 1 .. n /\ m.from \in Nat /\ m.to \in Nat
      /\ \A i \in 1 .. n : m.entries[i] \in CellValues
  BY LenProperties, ElementOfSeq DEF Maps
<1>2. HeaderOf(m) \in CellValues /\ HeaderOf(m).count = n
  BY <1>1 DEF HeaderOf, CellValues
<1>3. head \in Seq(TablePacketSet) /\ Len(head) = 1 /\ head[1] = [kind |-> "header", cell |-> HeaderOf(m)]
  BY <1>2 DEF TablePacketSet
<1>4. tail \in Seq(TablePacketSet) /\ Len(tail) = n /\ \A i \in 1 .. n : tail[i].kind = "entry"
  <2>1. tail \in [1 .. n -> TablePacketSet]
    BY <1>1 DEF TablePacketSet
  <2>2. tail \in Seq(TablePacketSet) /\ Len(tail) = n
    BY <1>1, <2>1, SeqDef, LenProperties
  <2> QED BY <1>1, <2>2
<1> HIDE DEF n, head, tail
<1>5. /\ t \in Seq(TablePacketSet) /\ Len(t) = Len(head) + Len(tail)
      /\ \A k \in 1 .. Len(head) + Len(tail) : t[k] = IF k <= Len(head) THEN head[k] ELSE tail[k - Len(head)]
  <2>1. head \in Seq(TablePacketSet) /\ tail \in Seq(TablePacketSet)
    BY <1>3, <1>4
  <2> QED BY <2>1, ConcatProperties
<1> HIDE DEF t
<1>6. /\ Len(t) = 1 + n
      /\ \A k \in 1 .. 1 + n : t[k] = IF k <= 1 THEN head[k] ELSE tail[k - 1]
  BY <1>3, <1>4, <1>5
<1>7. t[1].kind = "header" /\ t[1].cell.count = n /\ \A k \in 2 .. 1 + n : t[k].kind = "entry"
  <2>1. 1 \in 1 .. 1 + n /\ \A k \in 2 .. 1 + n : k \in 1 .. 1 + n /\ ~(k <= 1) /\ k - 1 \in 1 .. n
    BY <1>1
  <2> QED BY <1>2, <1>3, <1>4, <1>6, <2>1
<1>8. AllAnnounced(t)
  <2> SUFFICES ASSUME NEW k \in 1 .. 1 + n, t[k].kind = "entry" PROVE Announced(t, k)
    BY <1>6 DEF AllAnnounced
  <2>1. k # 1
    BY <1>7
  <2>2. 1 \in 1 .. k - 1 /\ k - 1 <= n /\ \A j \in 1 + 1 .. k : j \in 2 .. 1 + n
    BY <1>1, <2>1
  <2> QED BY <1>7, <2>2 DEF Announced
<1> QED BY <1>5, <1>8 DEF t, head, tail, MapPackets

\* The sequences that FlattenSeq puts together, for the first n of some sequences.
Flattened(h, n, seqs) ==
    h = [i \in 1 .. n |-> IF i = 1 THEN seqs[i] ELSE h[i - 1] \o seqs[i]]

\* They exist, by induction over their number.
LEMMA FlattenedExist ==
  ASSUME NEW seqs
  PROVE  \A n \in Nat : \E h : Flattened(h, n, seqs)
<1> DEFINE S == {n \in Nat : \E h : Flattened(h, n, seqs)}
<1>1. 0 \in S
  <2> DEFINE h == [i \in 1 .. 0 |-> seqs]
  <2>1. Flattened(h, 0, seqs)
    <3> DEFINE F(i) == IF i = 1 THEN seqs[i] ELSE h[i - 1] \o seqs[i]
    <3>1. \A i \in 1 .. 0 : F(i) = seqs
      OBVIOUS
    <3> HIDE DEF F
    <3>2. [i \in 1 .. 0 |-> F(i)] = [i \in 1 .. 0 |-> seqs]
      BY <3>1
    <3> QED BY <3>2 DEF F, Flattened
  <2> QED BY <2>1
<1>2. ASSUME NEW n \in Nat, n \in S PROVE n + 1 \in S
  <2>1. PICK g : Flattened(g, n, seqs)
    BY <1>2
  <2> DEFINE step(f, i) == IF i = 1 THEN seqs[i] ELSE f[i - 1] \o seqs[i]
             h == [i \in 1 .. n + 1 |-> IF i <= n THEN g[i] ELSE step(g, i)]
  <2>2. \A i \in 1 .. n : g[i] = step(g, i)
    <3>1. g = [i \in 1 .. n |-> step(g, i)]
      BY <2>1 DEF Flattened
    <3> HIDE DEF step
    <3> QED BY <3>1
  <2>3. \A i \in 1 .. n : h[i] = g[i] /\ i \in 1 .. n + 1
    <3>1. \A i \in 1 .. n : i <= n /\ i \in 1 .. n + 1
      BY <1>2
    <3> HIDE DEF step
    <3> QED BY <3>1
  <2>4. n + 1 \in 1 .. n + 1 /\ ~(n + 1 <= n)
    BY <1>2
  <2>5. h[n + 1] = step(g, n + 1)
    <3> HIDE DEF step
    <3> QED BY <2>4
  <2>6. ASSUME NEW i \in 1 .. n + 1 PROVE h[i] = step(h, i)
    <3>1. i # 1 => i - 1 \in 1 .. n
      BY <1>2
    <3>2. i # n + 1 => i \in 1 .. n
      BY <1>2
    <3>3. i # 1 => h[i - 1] = g[i - 1]
      <4> HIDE DEF h
      <4> QED BY <2>3, <3>1
    <3>4. step(h, i) = step(g, i)
      <4> HIDE DEF h
      <4> QED BY <3>3
    <3>5. h[i] = step(g, i)
      <4> HIDE DEF h, step
      <4> QED BY <2>2, <2>3, <2>5, <3>2
    <3> QED BY <3>4, <3>5
  <2>7. h = [i \in 1 .. n + 1 |-> h[i]]
    OBVIOUS
  <2> HIDE DEF h, step
  <2>8. h = [i \in 1 .. n + 1 |-> step(h, i)]
    BY <2>6, <2>7
  <2>9. Flattened(h, n + 1, seqs)
    BY <2>8 DEF Flattened, step
  <2> QED BY <1>2, <2>9
<1> HIDE DEF S
<1>3. Nat \subseteq S
  BY <1>1, <1>2, EveryNumber
<1> QED BY <1>3 DEF S

\* FlattenSeq puts one sequence after the other behind those it has.
LEMMA FlattenSteps ==
  ASSUME NEW T, NEW seqs \in Seq(Seq(T)), seqs # <<>>
  PROVE  \E h : /\ h[1] = seqs[1] /\ h[Len(seqs)] = FlattenSeq(seqs)
                /\ \A k \in Nat \ {0} : k + 1 <= Len(seqs) => h[k + 1] = h[k] \o seqs[k + 1]
<1> DEFINE n == Len(seqs)
           h == CHOOSE f : Flattened(f, n, seqs)
<1>1. n \in Nat \ {0}
  BY EmptySeq
<1>2. FlattenSeq(seqs) = h[n]
  BY <1>1 DEF FlattenSeq, Flattened
<1>3. Flattened(h, n, seqs)
  BY <1>1, FlattenedExist, Zenon
<1> HIDE DEF h
<1> DEFINE step(i) == IF i = 1 THEN seqs[i] ELSE h[i - 1] \o seqs[i]
<1>4. \A i \in 1 .. n : h[i] = step(i)
  <2>1. h = [i \in 1 .. n |-> step(i)]
    BY <1>3 DEF Flattened
  <2> HIDE DEF step
  <2> QED BY <2>1
<1>5. h[1] = seqs[1]
  BY <1>1, <1>4
<1>6. ASSUME NEW k \in Nat \ {0}, k + 1 <= n PROVE h[k + 1] = h[k] \o seqs[k + 1]
  <2> DEFINE i == k + 1
  <2>1. i \in 1 .. n /\ i # 1 /\ i - 1 = k
    BY <1>1, <1>6
  <2> HIDE DEF i
  <2>2. h[i] = h[i - 1] \o seqs[i]
    BY <1>4, <2>1
  <2>3. h[i] = h[k] \o seqs[i]
    BY <2>1, <2>2
  <2> QED BY <2>3 DEF i
<1> QED BY <1>2, <1>5, <1>6

\* Announced parts make an announced whole.
LEMMA FlattenAnnounced ==
  ASSUME NEW T, NEW seqs \in Seq(Seq(T)), seqs # <<>>,
         \A i \in 1 .. Len(seqs) : AllAnnounced(seqs[i])
  PROVE  FlattenSeq(seqs) \in Seq(T) /\ AllAnnounced(FlattenSeq(seqs))
<1> DEFINE n == Len(seqs)
<1>1. n \in Nat \ {0} /\ \A i \in 1 .. n : seqs[i] \in Seq(T)
  BY EmptySeq, ElementOfSeq
<1>2. PICK h : /\ h[1] = seqs[1] /\ h[n] = FlattenSeq(seqs)
               /\ \A k \in Nat \ {0} : k + 1 <= n => h[k + 1] = h[k] \o seqs[k + 1]
  BY FlattenSteps
<1>3. \A i \in 1 .. n : AllAnnounced(seqs[i])
  OBVIOUS
<1> HIDE DEF n
<1> DEFINE Good(s) == s \in Seq(T) /\ AllAnnounced(s)
           S == {k \in Nat : k + 1 <= n => Good(h[k + 1])}
<1>4. 0 \in S
  BY <1>1, <1>2, <1>3
<1>5. ASSUME NEW k \in Nat, k \in S PROVE k + 1 \in S
  <2> SUFFICES ASSUME k + 1 + 1 <= n PROVE Good(h[k + 1 + 1])
    OBVIOUS
  <2> DEFINE j == k + 1
  <2>1. j \in Nat \ {0} /\ j <= n /\ j + 1 <= n /\ j + 1 \in 1 .. n
    BY <1>1
  <2>2. Good(h[j])
    BY <1>5, <2>1
  <2> HIDE DEF j
  <2>3. h[j + 1] = h[j] \o seqs[j + 1] /\ Good(seqs[j + 1])
    BY <1>1, <1>2, <1>3, <2>1
  <2>4. Good(h[j] \o seqs[j + 1])
    BY <2>2, <2>3, ConcatAnnounced, ConcatProperties
  <2> QED BY <2>3, <2>4 DEF j
<1> HIDE DEF S
<1>6. Nat \subseteq S
  BY <1>4, <1>5, EveryNumber
<1>7. Good(h[n])
  <2>1. n - 1 \in Nat /\ (n - 1) + 1 = n /\ (n - 1) + 1 <= n
    BY <1>1
  <2> HIDE DEF Good
  <2> QED BY <1>6, <2>1 DEF S
<1> QED BY <1>2, <1>7

\* The flush is the last packet, and something is written before it.
FlushIsLast(s) ==
    /\ s[Len(s)].kind = "flush"
    /\ \A k \in 1 .. Len(s) - 1 : s[k].kind # "flush"
    /\ \E k \in 1 .. Len(s) : Saving(s[k])

\* The packets of a table: all entries are announced, and the end is written.
LEMMA TablePacketsGood ==
  ASSUME NEW maps \in Seq(Maps)
  PROVE  /\ TablePackets(maps) \in Seq(TablePacketSet) /\ AllAnnounced(TablePackets(maps))
         /\ maps # <<>> => \E k \in 1 .. Len(TablePackets(maps)) : Saving(TablePackets(maps)[k])
<1>1. CASE maps = <<>>
  <2>1. TablePackets(maps) = <<>>
    BY <1>1 DEF TablePackets
  <2>2. \A k \in 1 .. Len(<<>>) : <<>>[k].kind # "entry"
    BY EmptySeq
  <2>3. AllAnnounced(<<>>)
    BY <2>2, NothingToAnnounce
  <2> QED BY <1>1, <2>1, <2>3, EmptySeq
<1>2. CASE maps # <<>>
  <2> DEFINE seqs == [i \in DOMAIN maps |-> MapPackets(maps[i])]
             body == FlattenSeq(seqs)
             end == <<[kind |-> "header", cell |-> EndMark]>>
  <2>1. /\ Len(maps) \in Nat \ {0} /\ DOMAIN maps = 1 .. Len(maps)
        /\ \A i \in 1 .. Len(maps) : maps[i] \in Maps
    BY <1>2, EmptySeq, LenProperties, ElementOfSeq
  <2>2. \A i \in 1 .. Len(maps) : MapPackets(maps[i]) \in Seq(TablePacketSet) /\ AllAnnounced(MapPackets(maps[i]))
    BY <2>1, MapPacketsGood
  <2>3. seqs \in [1 .. Len(maps) -> Seq(TablePacketSet)]
    BY <2>1, <2>2
  <2>4. seqs \in Seq(Seq(TablePacketSet)) /\ Len(seqs) = Len(maps)
    <3> HIDE DEF seqs
    <3> QED BY <2>1, <2>3, SeqDef, LenProperties
  <2>5. \A i \in 1 .. Len(seqs) : AllAnnounced(seqs[i])
    BY <2>1, <2>2, <2>4
  <2>6. seqs # <<>>
    BY <2>1, <2>4, EmptySeq
  <2> HIDE DEF seqs
  <2>7. body \in Seq(TablePacketSet) /\ AllAnnounced(body)
    BY <2>4, <2>5, <2>6, FlattenAnnounced
  <2>8. end \in Seq(TablePacketSet) /\ Len(end) = 1 /\ end[1].kind = "header" /\ Saving(end[1])
    BY DEF TablePacketSet, CellValues, EndMark, Saving
  <2>9. TablePackets(maps) = body \o end
    BY <1>2 DEF TablePackets, seqs
  <2> HIDE DEF body, end
  <2>10. AllAnnounced(end)
    BY <2>8, NothingToAnnounce
  <2>11. body \o end \in Seq(TablePacketSet) /\ AllAnnounced(body \o end)
    BY <2>7, <2>8, <2>10, ConcatAnnounced, ConcatProperties
  <2>12. \E k \in 1 .. Len(body \o end) : Saving((body \o end)[k])
    <3>1. Len(body) \in Nat /\ Len(body) + 1 \in 1 .. Len(body) + 1 /\ ~(Len(body) + 1 <= Len(body)) /\ Len(body) + 1 - Len(body) = 1
      BY <2>7, LenProperties
    <3>2. /\ Len(body \o end) = Len(body) + Len(end)
          /\ \A i \in 1 .. Len(body) + Len(end) :
               (body \o end)[i] = IF i <= Len(body) THEN body[i] ELSE end[i - Len(body)]
      BY <2>7, <2>8, ConcatProperties
    <3>3. (body \o end)[Len(body) + 1] = end[1]
      BY <2>8, <3>1, <3>2
    <3> QED BY <2>8, <3>1, <3>2, <3>3
  <2> QED BY <1>2, <2>9, <2>11, <2>12
<1> QED BY <1>1, <1>2

\* The packets of an upload.
LEMMA PacketsGood ==
  ASSUME NEW u \in Uploads
  PROVE  /\ Packets(u) \in Seq(PacketSet) /\ Packets(u) # <<>>
         /\ AllAnnounced(Packets(u)) /\ FlushIsLast(Packets(u))
         /\ \A k \in 1 .. Len(Packets(u)) : Packets(u)[k].kind # "flush" => Packets(u)[k].cell \in Sent
<1> DEFINE r == BlockPackets(u.blocks)
           s == TablePackets(u.maps)
           f == <<[kind |-> "flush"]>>
           a == r \o s
           t == a \o f
           n == Len(u.blocks)
<1>0. /\ u.blocks # <<>> \/ u.maps # <<>>
      /\ u.blocks \in Seq(CellValues) /\ u.maps \in Seq(Maps)
  BY NvmAssumption DEF Maps
<1>1. /\ n \in Nat /\ DOMAIN u.blocks = 1 .. n /\ \A i \in 1 .. n : u.blocks[i] \in CellValues
      /\ u.blocks # <<>> => n # 0
  BY <1>0, EmptySeq, LenProperties, ElementOfSeq
<1>2. /\ r \in Seq(SavedPacketSet) /\ Len(r) = n /\ \A i \in 1 .. n : r[i].kind = "block"
  <2>1. r \in [1 .. n -> SavedPacketSet]
    BY <1>1 DEF BlockPackets, BlockPacketSet, SavedPacketSet
  <2>2. \A i \in 1 .. n : r[i].kind = "block"
    BY <1>1 DEF BlockPackets
  <2> HIDE DEF r, n
  <2> QED BY <1>1, <2>1, <2>2, SeqDef, LenProperties
<1>3. s \in Seq(SavedPacketSet) /\ AllAnnounced(s)
  <2>1. s \in Seq(TablePacketSet) /\ AllAnnounced(s)
    BY <1>0, TablePacketsGood
  <2>2. TablePacketSet \subseteq SavedPacketSet
    BY DEF SavedPacketSet
  <2> HIDE DEF s
  <2> QED BY <2>1, <2>2, SeqMonotonic
<1>4. u.maps # <<>> => \E k \in 1 .. Len(s) : Saving(s[k])
  BY <1>0, TablePacketsGood
<1>5. f \in Seq(PacketSet) /\ Len(f) = 1 /\ f[1] = [kind |-> "flush"]
  BY DEF PacketSet, FlushPacketSet
<1>6. t = Packets(u)
  BY DEF Packets
<1> HIDE DEF r, s, f, n
<1>7. AllAnnounced(r)
  BY <1>2, NothingToAnnounce
<1>8. a \in Seq(SavedPacketSet) /\ AllAnnounced(a)
  BY <1>2, <1>3, <1>7, ConcatAnnounced, ConcatProperties
<1>9. /\ Len(a) = n + Len(s) /\ Len(s) \in Nat
      /\ \A i \in 1 .. n + Len(s) : a[i] = IF i <= n THEN r[i] ELSE s[i - n]
  <2>1. /\ Len(a) = Len(r) + Len(s)
        /\ \A i \in 1 .. Len(r) + Len(s) : a[i] = IF i <= Len(r) THEN r[i] ELSE s[i - Len(r)]
    BY <1>2, <1>3, ConcatProperties
  <2> HIDE DEF a
  <2> QED BY <1>2, <1>3, <2>1, LenProperties
<1>10. \E k \in 1 .. Len(a) : Saving(a[k])
  <2> HIDE DEF a
  <2>1. CASE u.blocks # <<>>
    <3>1. 1 \in 1 .. n + Len(s) /\ 1 <= n /\ 1 \in 1 .. n
      BY <1>1, <1>9, <2>1
    <3>2. a[1] = r[1]
      BY <1>9, <3>1
    <3> QED BY <1>2, <1>9, <3>1, <3>2 DEF Saving
  <2>2. CASE u.maps # <<>>
    <3>1. PICK k \in 1 .. Len(s) : Saving(s[k])
      BY <1>4, <2>2
    <3> DEFINE i == n + k
    <3>2. i \in 1 .. n + Len(s) /\ ~(i <= n) /\ i - n = k
      BY <1>1, <1>9
    <3> HIDE DEF i
    <3>3. a[i] = s[k]
      BY <1>9, <3>2
    <3> QED BY <1>9, <3>1, <3>2, <3>3
  <2> QED BY <1>0, <2>1, <2>2
<1> HIDE DEF a
<1>11. a \in Seq(PacketSet) /\ Len(a) \in Nat /\ \A i \in 1 .. Len(a) : a[i] \in SavedPacketSet
  <2>1. SavedPacketSet \subseteq PacketSet
    BY DEF PacketSet
  <2> QED BY <1>8, <2>1, SeqMonotonic, LenProperties, ElementOfSeq
<1>12. AllAnnounced(f)
  BY <1>5, NothingToAnnounce
<1>13. t \in Seq(PacketSet) /\ AllAnnounced(t)
  BY <1>5, <1>8, <1>11, <1>12, ConcatAnnounced, ConcatProperties
<1>14. /\ Len(t) = Len(a) + Len(f)
       /\ \A i \in 1 .. Len(a) + Len(f) : t[i] = IF i <= Len(a) THEN a[i] ELSE f[i - Len(a)]
  BY <1>5, <1>11, ConcatProperties
<1> HIDE DEF t
<1>15. /\ Len(t) = Len(a) + 1
       /\ \A i \in 1 .. Len(a) + 1 : t[i] = IF i <= Len(a) THEN a[i] ELSE f[i - Len(a)]
  BY <1>5, <1>14
<1>16. FlushIsLast(t)
  <2>1. t[Len(t)].kind = "flush"
    <3>1. Len(a) + 1 \in 1 .. Len(a) + 1 /\ ~(Len(a) + 1 <= Len(a)) /\ Len(a) + 1 - Len(a) = 1
      BY <1>11
    <3> QED BY <1>5, <1>15, <3>1
  <2>2. \A k \in 1 .. Len(a) : t[k] = a[k] /\ k \in 1 .. Len(t)
    <3>1. \A k \in 1 .. Len(a) : k \in 1 .. Len(a) + 1 /\ k <= Len(a)
      BY <1>11
    <3> QED BY <1>15, <3>1
  <2>3. \A q \in SavedPacketSet : q.kind # "flush"
    BY DEF SavedPacketSet, TablePacketSet, BlockPacketSet
  <2>4. Len(t) - 1 = Len(a)
    BY <1>11, <1>15
  <2> QED BY <1>10, <1>11, <2>1, <2>2, <2>3, <2>4 DEF FlushIsLast
<1>17. t # <<>>
  BY <1>11, <1>15, EmptySeq
<1>18. \A k \in 1 .. Len(t) : t[k].kind # "flush" => t[k].cell \in Sent
  <2>1. t \in Seq(PacketSet) /\ DOMAIN t = 1 .. Len(t)
    BY <1>13, LenProperties
  <2>2. Range(t) = {t[k] : k \in 1 .. Len(t)}
    BY <2>1 DEF Range
  <2> QED BY <1>6, <2>2 DEF Sent
<1> QED BY <1>6, <1>13, <1>16, <1>17, <1>18

-----------------------------------------------------------------------------
(* The invariant of the upload *)

\* The entry at place k of the packets to come belongs to the map that is being received.
Pending(k) ==
    /\ mapHeader.state = "live" /\ gotEntries + k <= mapHeader.cells[1].count
    /\ \A j \in 1 .. k : packets[j].kind = "entry"

\* The cache is in order.
CacheInv == Caches(Store, written) /\ written \in Memories

\* A header that waits in memory has the memory for its entries beside it.
ParserInv ==
    /\ gotEntries \in Nat /\ writeAt \in Nat
    /\ mapHeader.state \in {"null", "live"}
    /\ mapHeader.state = "live" =>
         /\ mapHeader.cells \in Seq(Contents) /\ Len(mapHeader.cells) = 1
         /\ mapHeader.cells[1].count \in Nat
         /\ mapEntries.state = "live" /\ mapEntries.cells \in Seq(Contents)
         /\ Len(mapEntries.cells) = mapHeader.cells[1].count

\* What the host still sends: every entry has its header, and the flush comes last.
PacketsInv ==
    /\ packets \in Seq(PacketSet)
    /\ \A k \in 1 .. Len(packets) : packets[k].kind # "flush" => packets[k].cell \in Sent
    /\ packets # <<>> => /\ packets[Len(packets)].kind = "flush"
                         /\ \A k \in 1 .. Len(packets) - 1 : packets[k].kind # "flush"
    /\ \A k \in 1 .. Len(packets) : packets[k].kind = "entry" => Announced(packets, k) \/ Pending(k)

\* The flush finds a row to write.
HeldInv == packets # <<>> => held # <<>> \/ \E k \in 1 .. Len(packets) : Saving(packets[k])

\* The invariant of the cache and the parser together.
NvmInv == CacheInv /\ ParserInv /\ PacketsInv /\ HeldInv /\ ~wild

\* What follows when the first packet has been taken.
LEMMA PacketTaken ==
  ASSUME PacketsInv, NEW kind, Packet(kind)
  PROVE  /\ Head(packets) = packets[1] /\ packets[1] \in PacketSet /\ packets[1].kind = kind
         /\ kind # "flush" => packets[1].cell \in Sent
         /\ packets' \in Seq(PacketSet)
         /\ Len(packets) \in Nat /\ Len(packets) = Len(packets') + 1 /\ Len(packets') \in Nat
         /\ \A k \in 1 .. Len(packets') : packets'[k] = packets[k + 1] /\ k + 1 \in 1 .. Len(packets)
         /\ \A k \in 1 .. Len(packets') : packets'[k].kind # "flush" => packets'[k].cell \in Sent
         /\ packets' # <<>> => /\ packets'[Len(packets')].kind = "flush"
                               /\ \A k \in 1 .. Len(packets') - 1 : packets'[k].kind # "flush"
         /\ kind = "flush" => packets' = <<>>
<1>1. packets # <<>> /\ packets' = Tail(packets) /\ Head(packets).kind = kind /\ packets \in Seq(PacketSet)
  BY DEF Packet, PacketsInv
<1>2. /\ packets' \in Seq(PacketSet) /\ Len(packets') = Len(packets) - 1
      /\ \A k \in 1 .. Len(packets') : packets'[k] = packets[k + 1]
  BY <1>1, HeadTailProperties
<1>3. Len(packets) \in Nat \ {0} /\ Head(packets) = packets[1]
  BY <1>1, EmptySeq
<1>4. /\ packets[1] \in PacketSet /\ 1 \in 1 .. Len(packets)
  BY <1>1, <1>3, ElementOfSeq
<1>5. Len(packets') \in Nat /\ Len(packets) = Len(packets') + 1
  BY <1>2, <1>3
<1>6. \A k \in 1 .. Len(packets') : k + 1 \in 1 .. Len(packets)
  BY <1>5
<1>7. kind = "flush" => packets' = <<>>
  <2>1. ASSUME packets' # <<>>, kind = "flush" PROVE FALSE
    <3>1. Len(packets') # 0
      BY <1>2, <2>1, EmptySeq
    <3>2. 1 \in 1 .. Len(packets) - 1
      BY <1>5, <3>1
    <3> QED BY <1>1, <1>3, <2>1, <3>2 DEF PacketsInv
  <2> QED BY <2>1
<1>8. packets' # <<>> => /\ packets'[Len(packets')].kind = "flush"
                         /\ \A k \in 1 .. Len(packets') - 1 : packets'[k].kind # "flush"
  <2> SUFFICES ASSUME packets' # <<>>
               PROVE  /\ packets'[Len(packets')].kind = "flush"
                      /\ \A k \in 1 .. Len(packets') - 1 : packets'[k].kind # "flush"
    OBVIOUS
  <2>1. Len(packets') # 0
    BY <1>2, EmptySeq
  <2>2. Len(packets') \in 1 .. Len(packets')
    BY <1>5, <2>1
  <2>3. \A k \in 1 .. Len(packets') - 1 : k \in 1 .. Len(packets') /\ k + 1 \in 1 .. Len(packets) - 1
    BY <1>5
  <2> QED BY <1>1, <1>2, <1>5, <2>2, <2>3 DEF PacketsInv
<1>9. \A k \in 1 .. Len(packets') : packets'[k].kind # "flush" => packets'[k].cell \in Sent
  BY <1>2, <1>6 DEF PacketsInv
<1>10. kind # "flush" => packets[1].cell \in Sent
  BY <1>1, <1>3, <1>4 DEF PacketsInv
<1> QED BY <1>1, <1>2, <1>3, <1>4, <1>5, <1>6, <1>7, <1>8, <1>9, <1>10

\* An entry behind the first packet is announced as before, or by that packet, or belongs
\* to the map that is being received.
LEMMA EntryBehind ==
  ASSUME PacketsInv, NEW kind, Packet(kind), NEW k \in 1 .. Len(packets'), packets'[k].kind = "entry"
  PROVE  \/ Announced(packets', k)
         \/ Pending(k + 1)
         \/ /\ packets[1].kind = "header" /\ k <= packets[1].cell.count
            /\ \A j \in 1 .. k : packets'[j].kind = "entry"
<1>1. /\ Len(packets') \in Nat /\ Len(packets) = Len(packets') + 1
      /\ \A j \in 1 .. Len(packets') : packets'[j] = packets[j + 1] /\ j + 1 \in 1 .. Len(packets)
  BY PacketTaken
<1>2. packets[k + 1].kind = "entry" /\ k + 1 \in 1 .. Len(packets) /\ k \in Nat
  BY <1>1
<1>3. Announced(packets, k + 1) \/ Pending(k + 1)
  BY <1>2 DEF PacketsInv
<1>4. CASE Announced(packets, k + 1)
  <2>1. PICK h \in 1 .. k + 1 - 1 : /\ packets[h].kind = "header" /\ k + 1 - h <= packets[h].cell.count
                                    /\ \A j \in h + 1 .. k + 1 : packets[j].kind = "entry"
    BY <1>4 DEF Announced
  <2>2. h \in Nat \ {0} /\ h <= k
    BY <1>2, <2>1
  <2>3. \A j \in h .. k : j \in 1 .. Len(packets') /\ j + 1 \in h + 1 .. k + 1
    BY <1>1, <2>2
  <2>4. \A j \in h .. k : packets'[j].kind = "entry"
    BY <1>1, <2>1, <2>3
  <2>5. CASE h = 1
    BY <2>1, <2>4, <2>5, <1>2
  <2>6. CASE h # 1
    <3> DEFINE g == h - 1
    <3>1. /\ g \in 1 .. k - 1 /\ g \in 1 .. Len(packets') /\ g + 1 = h /\ k - g = k + 1 - h
          /\ \A j \in g + 1 .. k : j \in h .. k
      <4> DEFINE n == Len(packets')
      <4>1. n \in Nat /\ k \in 1 .. n
        BY <1>1
      <4> HIDE DEF n
      <4>2. /\ g \in 1 .. k - 1 /\ g \in 1 .. n /\ g + 1 = h /\ k - g = k + 1 - h
            /\ \A j \in g + 1 .. k : j \in h .. k
        BY <2>2, <2>6, <4>1
      <4> QED BY <4>2 DEF n
    <3> HIDE DEF g
    <3>2. packets'[g] = packets[h]
      BY <1>1, <3>1
    <3>3. Announced(packets', k)
      BY <2>1, <2>4, <3>1, <3>2 DEF Announced
    <3> QED BY <3>3
  <2> QED BY <2>5, <2>6
<1> QED BY <1>3, <1>4

\* Where the packets left keep their headers, the whole invariant about them stays.
LEMMA PacketsStay ==
  ASSUME PacketsInv, NEW kind, Packet(kind),
         \A k \in 1 .. Len(packets') : packets'[k].kind = "entry" => Announced(packets', k) \/ Pending(k)'
  PROVE  PacketsInv'
<1>1. /\ packets' \in Seq(PacketSet)
      /\ \A k \in 1 .. Len(packets') : packets'[k].kind # "flush" => packets'[k].cell \in Sent
      /\ packets' # <<>> => /\ packets'[Len(packets')].kind = "flush"
                            /\ \A k \in 1 .. Len(packets') - 1 : packets'[k].kind # "flush"
  BY PacketTaken
<1> QED BY <1>1 DEF PacketsInv

\* A packet that is neither an entry nor announces one leaves only announced entries behind.
LEMMA NothingPending ==
  ASSUME PacketsInv, NEW kind, Packet(kind), kind # "entry",
         kind = "header" => Head(packets).cell.count = 0
  PROVE  PacketsInv'
<1>1. /\ Head(packets) = packets[1] /\ packets[1].kind = kind
  BY PacketTaken
<1>2. ASSUME NEW k \in 1 .. Len(packets'), packets'[k].kind = "entry"
      PROVE  Announced(packets', k)
  <2>1. ~Pending(k + 1)
    <3>1. 1 \in 1 .. k + 1
      BY PacketTaken
    <3> QED BY <1>1, <3>1 DEF Pending
  <2>2. ~(packets[1].kind = "header" /\ k <= packets[1].cell.count)
    BY <1>1, PacketTaken
  <2> QED BY <1>2, <2>1, <2>2, EntryBehind
<1> QED BY <1>2, PacketsStay

\* What comes later still finds a row to flush.
LEMMA HeldStays ==
  ASSUME PacketsInv, HeldInv, NEW kind, Packet(kind), UNCHANGED held, ~Saving(Head(packets))
  PROVE  HeldInv'
<1> SUFFICES ASSUME packets' # <<>>, held = <<>> PROVE \E k \in 1 .. Len(packets') : Saving(packets'[k])
  BY DEF HeldInv
<1>1. packets # <<>>
  BY DEF Packet
<1>2. PICK k \in 1 .. Len(packets) : Saving(packets[k])
  BY <1>1 DEF HeldInv
<1>3. /\ k # 1 /\ Len(packets) = Len(packets') + 1 /\ Len(packets') \in Nat
      /\ \A j \in 1 .. Len(packets') : packets'[j] = packets[j + 1]
  BY <1>2, PacketTaken
<1> DEFINE g == k - 1
<1>4. g \in 1 .. Len(packets') /\ g + 1 = k
  BY <1>3
<1> HIDE DEF g
<1> QED BY <1>2, <1>3, <1>4

\* A cell that is sent can be written.
LEMMA OneCell ==
  ASSUME NEW c \in Sent
  PROVE  <<c>> \in Seq(Contents) /\ Len(<<c>>) = 1 /\ <<c>> # <<>>
BY DEF Contents

\* A block is written at its place.
LEMMA WriteBlockStep ==
  ASSUME NvmInv, WriteBlock
  PROVE  NvmInv' /\ Rows!Write
<1> DEFINE q == Head(packets)
<1>1. Packet("block") /\ Save(MapCells + q.id, <<q.cell>>) /\ UNCHANGED <<parser, wild>>
  BY DEF WriteBlock
<1>2. q.id \in Nat /\ q.cell \in Sent
  BY <1>1, PacketTaken DEF NvmInv, PacketSet, SavedPacketSet, TablePacketSet, BlockPacketSet, FlushPacketSet
<1> HIDE DEF q
<1>3. MapCells + q.id \in Nat /\ <<q.cell>> \in Seq(Contents) /\ <<q.cell>> # <<>>
  BY <1>2, OneCell, NvmAssumption
<1>4. CacheInv' /\ held' # <<>> /\ Rows!Write
  BY <1>1, <1>3, SaveKeeps DEF NvmInv, CacheInv
<1>5. PacketsInv'
  BY <1>1, NothingPending DEF NvmInv
<1>6. ParserInv'
  BY <1>1 DEF NvmInv, ParserInv, parser
<1> QED BY <1>1, <1>4, <1>5, <1>6 DEF NvmInv, HeldInv

\* The end of the table is written.
LEMMA MapEndStep ==
  ASSUME NvmInv, MapEnd
  PROVE  NvmInv' /\ Rows!Write
<1> DEFINE q == Head(packets)
<1>1. /\ Packet("header") /\ q.cell.count = 0 /\ Save(writeAt, <<q.cell>>) /\ writeAt' = writeAt + 1
      /\ mapHeader' = Null /\ gotEntries' = 0 /\ UNCHANGED wild
  BY DEF MapEnd
<1>2. q.cell \in Sent
  BY <1>1, PacketTaken DEF NvmInv
<1> HIDE DEF q
<1>3. writeAt \in Nat /\ <<q.cell>> \in Seq(Contents) /\ <<q.cell>> # <<>>
  BY <1>2, OneCell DEF NvmInv, ParserInv
<1>4. CacheInv' /\ held' # <<>> /\ Rows!Write
  BY <1>1, <1>3, SaveKeeps DEF NvmInv, CacheInv
<1>5. PacketsInv'
  BY <1>1, NothingPending DEF NvmInv, q
<1>6. ParserInv'
  BY <1>1, <1>3 DEF ParserInv, Null
<1> QED BY <1>1, <1>4, <1>5, <1>6 DEF NvmInv, HeldInv

\* The header that is kept announces what comes behind it.
LEMMA MapHeaderStep ==
  ASSUME NvmInv, MapHeader
  PROVE  NvmInv' /\ UNCHANGED <<written, flash>>
<1> DEFINE q == Head(packets)
           n == q.cell.count
<1>1. /\ Packet("header") /\ n # 0 /\ mapHeader' = [state |-> "live", cells |-> <<q.cell>>]
      /\ mapEntries' = [state |-> "live", cells |-> [i \in 1 .. n |-> Blank]]
      /\ gotEntries' = 0 /\ UNCHANGED <<cache, writeAt, wild>>
  BY DEF MapHeader
<1>2. q.cell \in Sent /\ n \in Nat /\ q = packets[1] /\ q.kind = "header"
  BY <1>1, PacketTaken DEF NvmInv, PacketSet, SavedPacketSet, TablePacketSet, BlockPacketSet, FlushPacketSet, CellValues
<1> HIDE DEF n
<1>3. (mapEntries').cells \in Seq(Contents) /\ Len((mapEntries').cells) = n /\ (mapEntries').state = "live"
  <2> DEFINE e == [i \in 1 .. n |-> Blank]
  <2>1. e \in [1 .. n -> Contents]
    BY DEF Contents
  <2> HIDE DEF e
  <2>2. e \in Seq(Contents) /\ Len(e) = n
    BY <1>2, <2>1, SeqDef, LenProperties
  <2> QED BY <1>1, <2>2 DEF e
<1>4. /\ (mapHeader').cells \in Seq(Contents) /\ Len((mapHeader').cells) = 1 /\ (mapHeader').state = "live"
      /\ (mapHeader').cells[1].count = n
  <2>1. (mapHeader').cells = <<q.cell>> /\ (mapHeader').state = "live"
    BY <1>1
  <2> QED BY <1>2, <2>1, OneCell DEF n
<1>5. CacheInv' /\ UNCHANGED <<written, flash, held>>
  BY <1>1 DEF NvmInv, CacheInv, cache, Store, Caches
<1>6. ParserInv'
  BY <1>1, <1>2, <1>3, <1>4 DEF NvmInv, ParserInv
<1>7. PacketsInv'
  <2>1. ASSUME NEW k \in 1 .. Len(packets'), packets'[k].kind = "entry"
        PROVE  Announced(packets', k) \/ Pending(k)'
    <3>1. ~Pending(k + 1)
      <4>1. 1 \in 1 .. k + 1
        BY <1>1, PacketTaken DEF NvmInv
      <4> QED BY <1>2, <4>1 DEF Pending
    <3>2. CASE k <= q.cell.count /\ \A j \in 1 .. k : packets'[j].kind = "entry"
      <4>1. gotEntries' + k <= (mapHeader').cells[1].count
        BY <1>1, <1>4, <3>2 DEF n
      <4> QED BY <1>4, <3>2, <4>1 DEF Pending
    <3> QED BY <1>1, <1>2, <2>1, <3>1, <3>2, EntryBehind DEF NvmInv
  <2> QED BY <1>1, <2>1, PacketsStay DEF NvmInv
<1>8. HeldInv'
  <2>1. ~Saving(q)
    BY <1>1, <1>2 DEF Saving, n
  <2> QED BY <1>1, <1>5, <2>1, HeldStays DEF NvmInv
<1> QED BY <1>1, <1>5, <1>6, <1>7, <1>8 DEF NvmInv

\* An entry finds its header and its place; the last one writes the map.
LEMMA MapEntryStep ==
  ASSUME NvmInv, MapEntry
  PROVE  NvmInv' /\ (Rows!Write \/ UNCHANGED <<written, flash>>)
<1> DEFINE q == Head(packets)
           cells == [mapEntries.cells EXCEPT ![gotEntries'] = q.cell]
           count == mapHeader.cells[1].count
<1>1. /\ Packet("entry") /\ gotEntries' = gotEntries + 1
      /\ wild' = (wild \/ mapEntries.state # "live" \/ gotEntries >= Len(mapEntries.cells))
      /\ IF gotEntries' = count
         THEN /\ SaveBoth(writeAt, mapHeader.cells, cells)
              /\ writeAt' = writeAt + 1 + Len(cells)
              /\ mapHeader' = Null /\ mapEntries' = Null
         ELSE /\ mapEntries' = [mapEntries EXCEPT !.cells = cells]
              /\ UNCHANGED <<cache, fresh, writeAt, mapHeader>>
  BY DEF MapEntry
<1>2. q.cell \in Sent /\ q = packets[1] /\ q.kind = "entry" /\ 1 \in 1 .. Len(packets)
  BY <1>1, PacketTaken DEF NvmInv
<1>3. Pending(1)
  <2>1. ~Announced(packets, 1)
    BY DEF Announced
  <2> QED BY <1>2, <2>1 DEF NvmInv, PacketsInv
<1>4. /\ mapHeader.state = "live" /\ mapHeader.cells \in Seq(Contents) /\ Len(mapHeader.cells) = 1
      /\ count \in Nat /\ gotEntries \in Nat /\ gotEntries + 1 <= count /\ writeAt \in Nat
      /\ mapEntries.state = "live" /\ mapEntries.cells \in Seq(Contents) /\ Len(mapEntries.cells) = count
  BY <1>3 DEF Pending, NvmInv, ParserInv
<1>5. cells \in Seq(Contents) /\ Len(cells) = count
  <2>1. gotEntries' \in 1 .. Len(mapEntries.cells) /\ q.cell \in Contents
    BY <1>1, <1>2, <1>4 DEF Contents
  <2> HIDE DEF q
  <2> QED BY <1>4, <2>1, ExceptSeq
<1>6. ~wild'
  <2>1. ~(gotEntries >= count)
    BY <1>4
  <2> QED BY <1>1, <1>4, <2>1 DEF NvmInv
<1> HIDE DEF cells, q
<1>7. CASE gotEntries' = count
  <2>1. cells # <<>>
    BY <1>4, <1>5, EmptySeq
  <2>2. SaveBoth(writeAt, mapHeader.cells, cells)
    BY <1>1, <1>7
  <2>3. CacheInv' /\ held' # <<>> /\ Rows!Write
    BY <1>4, <1>5, <2>1, <2>2, SaveBothKeeps DEF NvmInv, CacheInv
  <2>4. ParserInv'
    BY <1>1, <1>4, <1>5, <1>7 DEF ParserInv, Null
  <2>5. PacketsInv'
    <3>1. ASSUME NEW k \in 1 .. Len(packets'), packets'[k].kind = "entry"
          PROVE  Announced(packets', k)
      <4>1. ~Pending(k + 1)
        BY <1>1, <1>4, <1>7 DEF Pending
      <4> QED BY <1>1, <1>2, <3>1, <4>1, EntryBehind DEF NvmInv
    <3> QED BY <1>1, <3>1, PacketsStay DEF NvmInv
  <2> QED BY <1>6, <2>3, <2>4, <2>5 DEF NvmInv, HeldInv
<1>8. CASE gotEntries' # count
  <2>1. UNCHANGED <<flash, written, held, page, lastPage, writeAt, mapHeader>>
    BY <1>1, <1>8 DEF cache
  <2>2. (mapEntries').state = "live" /\ (mapEntries').cells = cells
    <3>1. mapEntries' = [mapEntries EXCEPT !.cells = cells]
      BY <1>1, <1>8
    <3> QED BY <1>4, <3>1
  <2>3. CacheInv'
    BY <2>1 DEF NvmInv, CacheInv, Store, Caches
  <2>4. ParserInv'
    BY <1>1, <1>4, <1>5, <2>1, <2>2 DEF ParserInv
  <2>5. PacketsInv'
    <3>1. ASSUME NEW k \in 1 .. Len(packets'), packets'[k].kind = "entry"
          PROVE  Announced(packets', k) \/ Pending(k)'
      <4>1. CASE Pending(k + 1)
        <5>1. \A j \in 1 .. k : j + 1 \in 1 .. k + 1 /\ j \in 1 .. Len(packets')
          BY <1>1, PacketTaken DEF NvmInv
        <5>2. \A j \in 1 .. k : packets'[j].kind = "entry"
          BY <1>1, <4>1, <5>1, PacketTaken DEF NvmInv, Pending
        <5>3. gotEntries' + k <= count
          BY <1>1, <1>4, <4>1 DEF Pending
        <5> QED BY <1>4, <2>1, <5>2, <5>3 DEF Pending
      <4> QED BY <1>1, <1>2, <3>1, <4>1, EntryBehind DEF NvmInv
    <3> QED BY <1>1, <3>1, PacketsStay DEF NvmInv
  <2>6. HeldInv'
    <3>1. ~Saving(q)
      BY <1>2 DEF Saving
    <3> QED BY <1>1, <2>1, <3>1, HeldStays DEF NvmInv, q
  <2> QED BY <1>6, <2>1, <2>3, <2>4, <2>5, <2>6 DEF NvmInv
<1> QED BY <1>7, <1>8

\* The flush writes the row that is held.
LEMMA FlushUploadStep ==
  ASSUME NvmInv, FlushUpload
  PROVE  NvmInv' /\ Rows!Flush
<1>1. /\ Packet("flush") /\ Keep(FlushStore(Store)) /\ UNCHANGED <<written, gotEntries, wild>>
      /\ writeAt' = 0 /\ mapHeader' = Null
  BY DEF FlushUpload
<1>2. packets' = <<>> /\ packets # <<>>
  BY <1>1, PacketTaken DEF NvmInv, Packet
<1>3. held # <<>>
  <2>1. \A k \in 1 .. Len(packets) : ~Saving(packets[k])
    <3>1. Len(packets) = 1
      BY <1>1, <1>2, PacketTaken, EmptySeq DEF NvmInv
    <3>2. packets[1].kind = "flush"
      BY <1>1, PacketTaken DEF NvmInv
    <3> QED BY <3>1, <3>2 DEF Saving
  <2> QED BY <1>2, <2>1 DEF NvmInv, HeldInv
<1>4. Caches(Store, written)' /\ Rows!Flush
  BY <1>1, <1>3, FlushKeeps DEF NvmInv, CacheInv
<1>5. PacketsInv'
  BY <1>1, NothingPending DEF NvmInv
<1>6. ParserInv'
  BY <1>1 DEF NvmInv, ParserInv, Null
<1> QED BY <1>1, <1>2, <1>4, <1>5, <1>6 DEF NvmInv, CacheInv, HeldInv

\* A new upload, whatever was left of the one before.
LEMMA UploadStep ==
  ASSUME NvmInv, Upload, UNCHANGED <<cache, parser, wild>>
  PROVE  NvmInv' /\ UNCHANGED <<written, flash>>
<1>1. PICK u \in Uploads : packets' = Packets(u)
  BY DEF Upload
<1>2. /\ packets' \in Seq(PacketSet) /\ packets' # <<>>
      /\ AllAnnounced(packets') /\ FlushIsLast(packets')
      /\ \A k \in 1 .. Len(packets') : packets'[k].kind # "flush" => packets'[k].cell \in Sent
  BY <1>1, PacketsGood
<1>3. PacketsInv' /\ HeldInv'
  BY <1>2 DEF PacketsInv, HeldInv, AllAnnounced, FlushIsLast
<1>4. CacheInv' /\ ParserInv'
  BY DEF NvmInv, CacheInv, Store, Caches, ParserInv, cache, parser
<1> QED BY <1>3, <1>4 DEF NvmInv, cache

\* The MIDI task only reads the flash.
LEMMA LookupStep ==
  ASSUME NvmInv, UNCHANGED <<cache, parser, packets, wild>>
  PROVE  NvmInv' /\ UNCHANGED <<written, flash>>
<1>1. UNCHANGED <<flash, written, held, page, lastPage, mapHeader, mapEntries, gotEntries, writeAt, packets, wild>>
  BY DEF cache, parser
<1>2. CacheInv' /\ ParserInv'
  BY <1>1 DEF NvmInv, CacheInv, Store, Caches, ParserInv
<1>3. PacketsInv'
  BY <1>1 DEF NvmInv, PacketsInv, Pending
<1>4. HeldInv'
  BY <1>1 DEF NvmInv, HeldInv
<1> QED BY <1>1, <1>2, <1>3, <1>4 DEF NvmInv

\* It holds at first, with a flash that holds what has been written.
LEMMA NvmStarts ==
  ASSUME NvmInit
  PROVE  NvmInv /\ Rows!Init
<1>1. /\ flash = [c \in FlashCells |-> Blank] /\ written = flash /\ held = <<>> /\ lastPage = NoPage
      /\ mapHeader = Null /\ gotEntries = 0 /\ writeAt = 0 /\ packets = <<>> /\ wild = FALSE
  BY DEF NvmInit
<1>2. CacheInv
  BY <1>1 DEF CacheInv, Caches, Store, Memories, Contents
<1>3. ParserInv
  BY <1>1 DEF ParserInv, Null
<1>4. PacketsInv /\ HeldInv
  <2>1. Len(packets) = 0 /\ packets \in Seq(PacketSet)
    BY <1>1, EmptySeq
  <2> QED BY <1>1, <2>1 DEF PacketsInv, HeldInv
<1> QED BY <1>1, <1>2, <1>3, <1>4 DEF NvmInv, Rows!Init

\* Every step keeps the invariant and is a step of the abstract memory or none.
LEMMA NvmStep ==
  ASSUME NvmInv, [NvmNext]_nvmVars
  PROVE  NvmInv' /\ [Rows!Next]_(Rows!vars)
<1>1. CASE WriteBlock
  BY <1>1, WriteBlockStep DEF Rows!Next
<1>2. CASE MapHeader
  BY <1>2, MapHeaderStep DEF Rows!vars
<1>3. CASE MapEnd
  BY <1>3, MapEndStep DEF Rows!Next
<1>4. CASE MapEntry
  BY <1>4, MapEntryStep DEF Rows!Next, Rows!vars
<1>5. CASE FlushUpload
  BY <1>5, FlushUploadStep DEF Rows!Next
<1>6. CASE Begin \/ Restart
  <2>1. Upload /\ UNCHANGED <<cache, parser, wild>>
    BY <1>6 DEF Begin, Restart
  <2> QED BY <2>1, UploadStep DEF Rows!vars
<1>7. CASE ProgramChange \/ PlayNote \/ UNCHANGED nvmVars
  <2>1. UNCHANGED <<cache, parser, packets, wild>>
    BY <1>7 DEF ProgramChange, PlayNote, nvmVars
  <2> QED BY <2>1, LookupStep DEF Rows!vars
<1> QED BY <1>1, <1>2, <1>3, <1>4, <1>5, <1>6, <1>7 DEF NvmNext, MinTask

\* The invariant of the upload holds, for every row size, layout and set of uploads.
THEOREM NvmInvariance == NvmSpec => []NvmInv
<1>1. NvmInit => NvmInv
  BY NvmStarts
<1>2. NvmInv /\ [NvmNext]_nvmVars => NvmInv'
  BY NvmStep
<1> QED BY <1>1, <1>2, PTL DEF NvmSpec

-----------------------------------------------------------------------------
(* Theorems *)

\* The cached flash does what RowStore promises: every row of it is at any time, as a whole,
\* what it was or what has been written, and nothing is left behind by a flush (nvm.c).
THEOREM RowsAreKeptAlways == NvmSpec => RowsAreKept
<1>1. NvmInit => Rows!Init
  BY NvmStarts
<1>2. NvmInv /\ [NvmNext]_nvmVars => [Rows!Next]_(Rows!vars)
  BY NvmStep
<1> QED BY <1>1, <1>2, NvmInvariance, PTL DEF NvmSpec, RowsAreKept, Rows!Spec

\* No entry of a map is copied outside of the memory that was allocated for the map, however
\* often the host gives an upload up and starts anew (tsk_min.c:345).
THEOREM EntriesAlwaysFit == NvmSpec => []EntriesFit
<1>1. NvmInv => EntriesFit
  BY DEF NvmInv, EntriesFit
<1> QED BY <1>1, NvmInvariance, PTL

-----------------------------------------------------------------------------
(* What an upload leaves: the packets of a table, one map behind the other *)

\* The entries of a header are behind it, as many as it announces.
Followed(s) ==
    \A a \in 1 .. Len(s) : s[a].kind = "header" =>
        \A g \in 1 .. s[a].cell.count : a + g <= Len(s) /\ s[a + g].kind = "entry"

\* The first n of some sequences are behind one another in s, the i-th of them behind
\* place S[i].
Laid(s, seqs, n, S) ==
    /\ S \in [1 .. n + 1 -> Nat] /\ S[1] = 0 /\ S[n + 1] = Len(s)
    /\ \A i \in 1 .. n :
         /\ S[i + 1] = S[i] + Len(seqs[i]) /\ S[i + 1] <= Len(s)
         /\ \A g \in 1 .. Len(seqs[i]) : s[S[i] + g] = seqs[i][g]

LEMMA ConcatFollowed ==
  ASSUME NEW V, NEW r \in Seq(V), NEW s \in Seq(V), Followed(r), Followed(s),
         \A v \in V : v.kind = "header" => v.cell.count \in Nat
  PROVE  Followed(r \o s)
<1> DEFINE t == r \o s
           n == Len(r)
<1>1. /\ n \in Nat /\ Len(s) \in Nat /\ Len(t) = n + Len(s)
      /\ \A k \in 1 .. n + Len(s) : t[k] = IF k <= n THEN r[k] ELSE s[k - n]
  BY ConcatProperties, LenProperties
<1> HIDE DEF t, n
<1> SUFFICES ASSUME NEW a \in 1 .. n + Len(s), t[a].kind = "header", NEW g \in 1 .. t[a].cell.count
             PROVE  a + g <= n + Len(s) /\ t[a + g].kind = "entry"
  BY <1>1 DEF Followed, t
<1>2. CASE a <= n
  <2>1. a \in 1 .. n /\ t[a] = r[a]
    BY <1>1, <1>2
  <2>2. r[a].cell.count \in Nat
    BY <2>1, ElementOfSeq DEF n
  <2>3. a + g <= n /\ r[a + g].kind = "entry" /\ g \in Nat
    BY <2>1, <2>2 DEF Followed, n
  <2>4. a + g \in 1 .. n + Len(s)
    BY <1>1, <2>1, <2>3
  <2> QED BY <1>1, <2>3, <2>4
<1>3. CASE ~(a <= n)
  <2> DEFINE b == a - n
  <2>1. b \in 1 .. Len(s) /\ t[a] = s[b] /\ a = n + b
    BY <1>1, <1>3
  <2> HIDE DEF b
  <2>2. s[b].cell.count \in Nat
    BY <2>1, ElementOfSeq
  <2>3. b + g <= Len(s) /\ s[b + g].kind = "entry" /\ g \in 1 .. s[b].cell.count
    BY <2>1 DEF Followed
  <2>4. g \in Nat \ {0}
    BY <2>2, <2>3
  <2>5. a + g \in 1 .. n + Len(s) /\ ~(a + g <= n) /\ a + g - n = b + g
    BY <1>1, <2>1, <2>3, <2>4
  <2>6. t[a + g] = s[b + g]
    BY <1>1, <2>5
  <2> QED BY <2>3, <2>5, <2>6
<1> QED BY <1>2, <1>3

\* One more sequence behind those that are laid out.
LEMMA ConcatLaid ==
  ASSUME NEW T, NEW s \in Seq(T), NEW n \in Nat, NEW seqs, NEW S, Laid(s, seqs, n, S),
         \A i \in 1 .. n + 1 : seqs[i] \in Seq(T)
  PROVE  \E R : Laid(s \o seqs[n + 1], seqs, n + 1, R)
<1> DEFINE r == seqs[n + 1]
           t == s \o r
           R == [i \in 1 .. n + 1 + 1 |-> IF i <= n + 1 THEN S[i] ELSE Len(t)]
<1>1. r \in Seq(T) /\ \A i \in 1 .. n + 1 : Len(seqs[i]) \in Nat
  <2>1. n + 1 \in 1 .. n + 1
    OBVIOUS
  <2> QED BY <2>1, LenProperties
<1>2. /\ Len(s) \in Nat /\ Len(r) \in Nat /\ Len(t) = Len(s) + Len(r)
      /\ \A k \in 1 .. Len(s) + Len(r) : t[k] = IF k <= Len(s) THEN s[k] ELSE r[k - Len(s)]
  BY <1>1, ConcatProperties, LenProperties
<1> HIDE DEF t, r
<1>3. /\ S \in [1 .. n + 1 -> Nat] /\ S[1] = 0 /\ S[n + 1] = Len(s)
      /\ \A i \in 1 .. n :
           /\ S[i + 1] = S[i] + Len(seqs[i]) /\ S[i + 1] <= Len(s)
           /\ \A g \in 1 .. Len(seqs[i]) : s[S[i] + g] = seqs[i][g]
  BY DEF Laid
<1>4. /\ \A i \in 1 .. n + 1 : R[i] = S[i] /\ S[i] \in Nat
      /\ R[n + 1 + 1] = Len(t)
  BY <1>3
<1>5. R \in [1 .. n + 1 + 1 -> Nat]
  BY <1>2, <1>3
<1> HIDE DEF R
<1>6. ASSUME NEW i \in 1 .. n + 1
      PROVE  /\ R[i + 1] = R[i] + Len(seqs[i]) /\ R[i + 1] <= Len(t)
             /\ \A g \in 1 .. Len(seqs[i]) : t[R[i] + g] = seqs[i][g]
  <2>1. CASE i = n + 1
    <3>1. R[i] = Len(s) /\ R[i + 1] = Len(t) /\ seqs[i] = r
      BY <1>3, <1>4, <2>1 DEF r
    <3>2. ASSUME NEW g \in 1 .. Len(r) PROVE t[Len(s) + g] = r[g]
      <4>1. Len(s) + g \in 1 .. Len(s) + Len(r) /\ ~(Len(s) + g <= Len(s)) /\ Len(s) + g - Len(s) = g
        BY <1>2
      <4> QED BY <1>2, <4>1
    <3>3. Len(t) = Len(s) + Len(r) /\ Len(t) \in Nat
      BY <1>2
    <3>4. R[i + 1] = R[i] + Len(seqs[i]) /\ R[i + 1] <= Len(t)
      <4>1. Len(seqs[i]) = Len(r)
        BY <3>1
      <4> QED BY <3>1, <3>3, <4>1
    <3>5. \A g \in 1 .. Len(seqs[i]) : t[R[i] + g] = seqs[i][g]
      BY <3>1, <3>2, Zenon
    <3> QED BY <3>4, <3>5
  <2>2. CASE i # n + 1
    <3>1. i \in 1 .. n /\ i + 1 \in 1 .. n + 1
      BY <2>2
    <3>2. R[i] = S[i] /\ R[i + 1] = S[i + 1] /\ S[i] \in Nat
      BY <1>4, <3>1
    <3>3. S[i + 1] = S[i] + Len(seqs[i]) /\ S[i + 1] <= Len(s) /\ S[i + 1] \in Nat
      <4>1. S[i + 1] \in Nat
        BY <1>4, <3>1
      <4> QED BY <1>3, <3>1, <4>1
    <3>5. S[i + 1] <= Len(t) /\ Len(seqs[i]) \in Nat
      <4>1. Len(t) = Len(s) + Len(r) /\ Len(s) \in Nat /\ Len(r) \in Nat
        BY <1>2
      <4> QED BY <1>1, <3>3, <4>1
    <3>4. ASSUME NEW g \in 1 .. Len(seqs[i]) PROVE t[S[i] + g] = seqs[i][g]
      <4>1. S[i] + g \in 1 .. Len(s) + Len(r) /\ S[i] + g <= Len(s)
        <5> DEFINE m == Len(seqs[i])
                   p == S[i]
                   q == S[i + 1]
        <5>1. m \in Nat /\ p \in Nat /\ q \in Nat /\ q = p + m /\ q <= Len(s) /\ g \in 1 .. m
          BY <3>2, <3>3, <3>5
        <5>2. Len(s) \in Nat /\ Len(r) \in Nat
          BY <1>2
        <5> HIDE DEF m, p, q
        <5>3. p + g \in 1 .. Len(s) + Len(r) /\ p + g <= Len(s)
          BY <5>1, <5>2
        <5> QED BY <5>3 DEF p
      <4>2. t[S[i] + g] = s[S[i] + g]
        BY <1>2, <4>1
      <4> QED BY <1>3, <3>1, <4>2
    <3>6. \A g \in 1 .. Len(seqs[i]) : t[R[i] + g] = seqs[i][g]
      BY <3>2, <3>4
    <3> QED BY <3>2, <3>3, <3>5, <3>6
  <2> QED BY <2>1, <2>2
<1>7. R[1] = 0
  BY <1>3, <1>4
<1>8. R[n + 1 + 1] = Len(t)
  BY <1>4
<1>9. Laid(t, seqs, n + 1, R)
  BY <1>5, <1>6, <1>7, <1>8 DEF Laid
<1> QED BY <1>9 DEF t, r

\* The packets after each of the maps.
Packed(T, s, seqs, n) ==
    s \in Seq(T) /\ AllAnnounced(s) /\ Followed(s) /\ \E S : Laid(s, seqs, n, S)

\* A sequence alone.
LEMMA OneLaid ==
  ASSUME NEW T, NEW seqs, seqs[1] \in Seq(T)
  PROVE  \E S : Laid(seqs[1], seqs, 1, S)
<1> DEFINE s == seqs[1]
           S == [i \in 1 .. 1 + 1 |-> IF i = 1 THEN 0 ELSE Len(s)]
<1>1. Len(s) \in Nat
  BY LenProperties
<1>2. S \in [1 .. 1 + 1 -> Nat] /\ S[1] = 0 /\ S[1 + 1] = Len(s)
  BY <1>1
<1> HIDE DEF S
<1>3. ASSUME NEW i \in 1 .. 1
      PROVE  /\ S[i + 1] = S[i] + Len(seqs[i]) /\ S[i + 1] <= Len(s)
             /\ \A g \in 1 .. Len(seqs[i]) : s[S[i] + g] = seqs[i][g]
  <2>1. i = 1 /\ S[i] = 0 /\ S[i + 1] = Len(s) /\ seqs[i] = s
    BY <1>2
  <2>2. \A g \in 1 .. Len(s) : 0 + g = g
    OBVIOUS
  <2> HIDE DEF s
  <2> QED BY <1>1, <2>1, <2>2
<1>4. Laid(s, seqs, 1, S)
  BY <1>2, <1>3 DEF Laid
<1> QED BY <1>4

\* What holds of all parts holds of the whole, which is laid out as they are.
LEMMA FlattenPacked ==
  ASSUME NEW T, NEW seqs \in Seq(Seq(T)), seqs # <<>>,
         \A v \in T : v.kind = "header" => v.cell.count \in Nat,
         \A i \in 1 .. Len(seqs) : AllAnnounced(seqs[i]) /\ Followed(seqs[i])
  PROVE  Packed(T, FlattenSeq(seqs), seqs, Len(seqs))
<1> DEFINE n == Len(seqs)
<1>1. n \in Nat \ {0} /\ \A i \in 1 .. n : seqs[i] \in Seq(T)
  BY EmptySeq, ElementOfSeq
<1>2. PICK h : /\ h[1] = seqs[1] /\ h[n] = FlattenSeq(seqs)
               /\ \A k \in Nat \ {0} : k + 1 <= n => h[k + 1] = h[k] \o seqs[k + 1]
  BY FlattenSteps
<1> HIDE DEF n
<1> DEFINE S == {k \in Nat : k + 1 <= n => Packed(T, h[k + 1], seqs, k + 1)}
<1>3. 0 \in S
  <2>1. 1 \in 1 .. n /\ 0 + 1 = 1
    BY <1>1
  <2>2. Packed(T, seqs[1], seqs, 1)
    BY <1>1, <2>1, OneLaid DEF Packed, n
  <2> QED BY <1>2, <2>1, <2>2
<1>4. ASSUME NEW k \in Nat, k \in S PROVE k + 1 \in S
  <2> SUFFICES ASSUME k + 1 + 1 <= n PROVE Packed(T, h[k + 1 + 1], seqs, k + 1 + 1)
    OBVIOUS
  <2> DEFINE j == k + 1
  <2>1. j \in Nat \ {0} /\ j <= n /\ j + 1 \in 1 .. n /\ \A i \in 1 .. j + 1 : i \in 1 .. n
    BY <1>1
  <2>2. Packed(T, h[j], seqs, j)
    <3>1. k + 1 <= n
      BY <2>1
    <3> QED BY <1>4, <3>1
  <2> HIDE DEF j, S
  <2>3. h[j + 1] = h[j] \o seqs[j + 1]
    <3>1. j + 1 <= n
      BY <1>1, <2>1
    <3> QED BY <1>2, <2>1, <3>1, Zenon
  <2>4. seqs[j + 1] \in Seq(T) /\ AllAnnounced(seqs[j + 1]) /\ Followed(seqs[j + 1])
    BY <1>1, <2>1 DEF n
  <2>5. h[j] \in Seq(T) /\ AllAnnounced(h[j]) /\ Followed(h[j])
    BY <2>2 DEF Packed
  <2>6. AllAnnounced(h[j] \o seqs[j + 1]) /\ h[j] \o seqs[j + 1] \in Seq(T)
    BY <2>4, <2>5, ConcatAnnounced, ConcatProperties
  <2>7. Followed(h[j] \o seqs[j + 1])
    BY <2>4, <2>5, ConcatFollowed
  <2>8. \E R : Laid(h[j] \o seqs[j + 1], seqs, j + 1, R)
    <3>1. PICK R : Laid(h[j], seqs, j, R)
      BY <2>2 DEF Packed
    <3>2. \A i \in 1 .. j + 1 : seqs[i] \in Seq(T)
      BY <1>1, <2>1
    <3> QED BY <2>1, <2>5, <3>1, <3>2, ConcatLaid
  <2>9. Packed(T, h[j + 1], seqs, j + 1)
    BY <2>3, <2>6, <2>7, <2>8 DEF Packed
  <2> QED BY <2>9 DEF j
<1> HIDE DEF S
<1>5. Nat \subseteq S
  BY <1>3, <1>4, EveryNumber
<1>6. n - 1 \in Nat /\ (n - 1) + 1 = n
  BY <1>1
<1>7. Packed(T, h[n], seqs, n)
  <2>1. n - 1 \in S /\ (n - 1) + 1 <= n
    BY <1>1, <1>5, <1>6
  <2>2. Packed(T, h[(n - 1) + 1], seqs, (n - 1) + 1)
    BY <2>1 DEF S
  <2> QED BY <1>6, <2>2
<1> QED BY <1>2, <1>7 DEF n

\* The packets of a map are its cells, one by one.
LEMMA MapPacketsAre ==
  ASSUME NEW m \in Maps
  PROVE  /\ MapPackets(m) \in Seq(TablePacketSet) /\ Len(MapPackets(m)) = 1 + Len(m.entries)
         /\ CellsOf(m) \in Seq(CellValues) /\ Len(CellsOf(m)) = 1 + Len(m.entries)
         /\ CellsOf(m)[1] = HeaderOf(m) /\ Len(m.entries) \in Nat
         /\ \A k \in 1 .. 1 + Len(m.entries) : MapPackets(m)[k].cell = CellsOf(m)[k]
         /\ Followed(MapPackets(m))
<1> DEFINE n == Len(m.entries)
           head == <<[kind |-> "header", cell |-> HeaderOf(m)]>>
           tail == [i \in DOMAIN m.entries |-> [kind |-> "entry", cell |-> m.entries[i]]]
           t == head \o tail
           c == <<HeaderOf(m)>> \o m.entries
<1>1. /\ n \in Nat /\ DOMAIN m.entries = 1 .. n /\ m.entries \in Seq(CellValues)
      /\ \A i \in 1 .. n : m.entries[i] \in CellValues
  BY LenProperties, ElementOfSeq DEF Maps
<1>2. HeaderOf(m) \in CellValues /\ HeaderOf(m).count = n
  BY <1>1 DEF HeaderOf, CellValues, Maps
<1>3. head \in Seq(TablePacketSet) /\ Len(head) = 1 /\ head[1] = [kind |-> "header", cell |-> HeaderOf(m)]
  BY <1>2 DEF TablePacketSet
<1>4. /\ tail \in Seq(TablePacketSet) /\ Len(tail) = n
      /\ \A i \in 1 .. n : tail[i].kind = "entry" /\ tail[i].cell = m.entries[i]
  <2>1. tail \in [1 .. n -> TablePacketSet]
    BY <1>1 DEF TablePacketSet
  <2>2. \A i \in 1 .. n : tail[i].kind = "entry" /\ tail[i].cell = m.entries[i]
    BY <1>1
  <2> HIDE DEF tail, n
  <2>3. tail \in Seq(TablePacketSet) /\ Len(tail) = n
    BY <1>1, <2>1, SeqDef, LenProperties
  <2> QED BY <2>2, <2>3
<1>5. <<HeaderOf(m)>> \in Seq(CellValues) /\ Len(<<HeaderOf(m)>>) = 1 /\ <<HeaderOf(m)>>[1] = HeaderOf(m)
  BY <1>2
<1> HIDE DEF head, tail
<1>6. /\ t \in Seq(TablePacketSet) /\ Len(t) = 1 + n
      /\ \A k \in 1 .. 1 + n : t[k] = IF k <= 1 THEN head[k] ELSE tail[k - 1]
  <2>1. head \in Seq(TablePacketSet) /\ tail \in Seq(TablePacketSet)
    BY <1>3, <1>4
  <2>2. /\ t \in Seq(TablePacketSet) /\ Len(t) = Len(head) + Len(tail)
        /\ \A k \in 1 .. Len(head) + Len(tail) : t[k] = IF k <= Len(head) THEN head[k] ELSE tail[k - Len(head)]
    BY <2>1, ConcatProperties
  <2> HIDE DEF t
  <2> QED BY <1>1, <1>3, <1>4, <2>2
<1>7. /\ c \in Seq(CellValues) /\ Len(c) = 1 + n
      /\ \A k \in 1 .. 1 + n : c[k] = IF k <= 1 THEN <<HeaderOf(m)>>[k] ELSE m.entries[k - 1]
  BY <1>1, <1>5, ConcatProperties
<1> HIDE DEF n, t, c
<1>8. /\ t[1].kind = "header" /\ t[1].cell = HeaderOf(m) /\ c[1] = HeaderOf(m)
      /\ \A k \in 2 .. 1 + n : t[k].kind = "entry" /\ t[k].cell = c[k]
  <2>1. 1 \in 1 .. 1 + n /\ \A k \in 2 .. 1 + n : k \in 1 .. 1 + n /\ ~(k <= 1) /\ k - 1 \in 1 .. n
    BY <1>1
  <2>2. t[1] = head[1] /\ c[1] = <<HeaderOf(m)>>[1]
    BY <1>6, <1>7, <2>1
  <2>3. \A k \in 2 .. 1 + n : t[k] = tail[k - 1] /\ c[k] = m.entries[k - 1]
    BY <1>6, <1>7, <2>1
  <2> QED BY <1>3, <1>4, <1>5, <2>1, <2>2, <2>3
<1>9. \A k \in 1 .. 1 + n : t[k].cell = c[k]
  <2>1. \A k \in 1 .. 1 + n : k = 1 \/ k \in 2 .. 1 + n
    BY <1>1
  <2> QED BY <1>8, <2>1
<1>10. Followed(t)
  <2> SUFFICES ASSUME NEW a \in 1 .. 1 + n, t[a].kind = "header", NEW g \in 1 .. t[a].cell.count
               PROVE  a + g <= 1 + n /\ t[a + g].kind = "entry"
    BY <1>6 DEF Followed
  <2>1. a = 1
    <3>1. a = 1 \/ a \in 2 .. 1 + n
      BY <1>1
    <3> QED BY <1>8, <3>1
  <2>2. g \in 1 .. n
    BY <1>2, <1>8, <2>1 DEF n
  <2>3. a + g \in 2 .. 1 + n
    BY <1>1, <2>1, <2>2
  <2> QED BY <1>8, <2>3
<1> QED BY <1>1, <1>6, <1>7, <1>8, <1>9, <1>10 DEF n, t, c, head, tail, MapPackets, CellsOf

-----------------------------------------------------------------------------
(* A memory that holds a table *)

\* What the cells of a memory are when it holds the table of a host.
HoldsTable(m, maps) ==
    IF maps = <<>> THEN m[0] = Blank
    ELSE \A k \in 1 .. Len(TablePackets(maps)) : m[k - 1] = TablePackets(maps)[k].cell

\* The maps of a table are at the places S of a memory, with the end mark behind them.
Charted(m, maps, S) ==
    /\ S \in [1 .. Len(maps) + 1 -> Nat] /\ S[1] = 0
    /\ S[Len(maps) + 1] + 1 = Len(TablePackets(maps)) /\ m[S[Len(maps) + 1]] = EndMark
    /\ \A i \in 1 .. Len(maps) :
         /\ S[i + 1] = S[i] + 1 + Len(maps[i].entries) /\ S[i + 1] <= S[Len(maps) + 1]
         /\ \A g \in 1 .. 1 + Len(maps[i].entries) : m[S[i] + g - 1] = CellsOf(maps[i])[g]

\* The packets of a table, one behind the other.
LEMMA TableLaid ==
  ASSUME NEW maps \in Seq(Maps), maps # <<>>
  PROVE  \E body, seqs, S :
           /\ body \in Seq(TablePacketSet) /\ Followed(TablePackets(maps))
           /\ TablePackets(maps) = body \o <<[kind |-> "header", cell |-> EndMark]>>
           /\ \A i \in 1 .. Len(maps) : seqs[i] = MapPackets(maps[i])
           /\ Laid(body, seqs, Len(maps), S)
<1> DEFINE seqs == [i \in DOMAIN maps |-> MapPackets(maps[i])]
           body == FlattenSeq(seqs)
           end == <<[kind |-> "header", cell |-> EndMark]>>
<1>1. /\ Len(maps) \in Nat \ {0} /\ DOMAIN maps = 1 .. Len(maps)
      /\ \A i \in 1 .. Len(maps) : maps[i] \in Maps
  BY EmptySeq, LenProperties, ElementOfSeq
<1>2. \A i \in 1 .. Len(maps) : /\ MapPackets(maps[i]) \in Seq(TablePacketSet)
                                /\ AllAnnounced(MapPackets(maps[i])) /\ Followed(MapPackets(maps[i]))
  BY <1>1, MapPacketsGood, MapPacketsAre
<1>3. seqs \in [1 .. Len(maps) -> Seq(TablePacketSet)] /\ \A i \in 1 .. Len(maps) : seqs[i] = MapPackets(maps[i])
  BY <1>1, <1>2
<1>4. TablePackets(maps) = body \o end
  BY DEF TablePackets
<1> HIDE DEF seqs
<1>5. seqs \in Seq(Seq(TablePacketSet)) /\ Len(seqs) = Len(maps)
  BY <1>1, <1>3, SeqDef, LenProperties
<1>6. seqs # <<>>
  BY <1>1, <1>5, EmptySeq
<1>7. \A v \in TablePacketSet : v.kind = "header" => v.cell.count \in Nat
  BY DEF TablePacketSet, CellValues
<1>8. \A i \in 1 .. Len(seqs) : AllAnnounced(seqs[i]) /\ Followed(seqs[i])
  BY <1>2, <1>3, <1>5
<1>9. Packed(TablePacketSet, body, seqs, Len(maps))
  <2> HIDE DEF TablePacketSet
  <2> QED BY <1>5, <1>6, <1>7, <1>8, FlattenPacked
<1> HIDE DEF body, end
<1>10. end \in Seq(TablePacketSet) /\ Followed(end)
  <2>1. end \in Seq(TablePacketSet) /\ Len(end) = 1 /\ end[1].cell.count = 0
    BY DEF end, TablePacketSet, CellValues, EndMark
  <2>2. 1 .. 0 = {} /\ \A a \in 1 .. 1 : a = 1
    OBVIOUS
  <2> QED BY <2>1, <2>2 DEF Followed
<1>11. Followed(body \o end)
  BY <1>7, <1>9, <1>10, ConcatFollowed DEF Packed
<1>12. PICK S : Laid(body, seqs, Len(maps), S)
  BY <1>9 DEF Packed
<1> QED BY <1>3, <1>4, <1>9, <1>11, <1>12 DEF Packed, end

\* All headers of a table have their entries behind them.
LEMMA TableFollowed ==
  ASSUME NEW maps \in Seq(Maps)
  PROVE  Followed(TablePackets(maps))
<1>1. CASE maps = <<>>
  <2>1. TablePackets(maps) = <<>> /\ Len(<<>>) = 0
    BY <1>1 DEF TablePackets
  <2> QED BY <2>1 DEF Followed
<1>2. CASE maps # <<>>
  BY <1>2, TableLaid
<1> QED BY <1>1, <1>2

\* A memory that holds a table has its maps at their places.
LEMMA TableCharted ==
  ASSUME NEW maps \in Seq(Maps), maps # <<>>, NEW m, HoldsTable(m, maps)
  PROVE  \E S : Charted(m, maps, S)
<1> DEFINE tp == TablePackets(maps)
           end == <<[kind |-> "header", cell |-> EndMark]>>
           n == Len(maps)
<1>1. PICK body, seqs, S :
        /\ body \in Seq(TablePacketSet) /\ tp = body \o end
        /\ \A i \in 1 .. n : seqs[i] = MapPackets(maps[i])
        /\ Laid(body, seqs, n, S)
  BY TableLaid
<1>2. end \in Seq(TablePacketSet) /\ Len(end) = 1 /\ end[1].cell = EndMark
  BY DEF TablePacketSet, CellValues, EndMark
<1> HIDE DEF end
<1>3. /\ Len(tp) = Len(body) + 1 /\ Len(body) \in Nat
      /\ \A k \in 1 .. Len(body) + 1 : tp[k] = IF k <= Len(body) THEN body[k] ELSE end[k - Len(body)]
  <2>1. /\ Len(body \o end) = Len(body) + Len(end)
        /\ \A k \in 1 .. Len(body) + Len(end) : (body \o end)[k] = IF k <= Len(body) THEN body[k] ELSE end[k - Len(body)]
    BY <1>1, <1>2, ConcatProperties
  <2> HIDE DEF tp
  <2> QED BY <1>1, <1>2, <2>1, LenProperties
<1>4. \A k \in 1 .. Len(tp) : m[k - 1] = tp[k].cell
  BY DEF HoldsTable
<1>5. n \in Nat \ {0} /\ \A i \in 1 .. n : maps[i] \in Maps
  BY EmptySeq, LenProperties, ElementOfSeq
<1> HIDE DEF tp, n
<1>6. /\ S \in [1 .. n + 1 -> Nat] /\ S[1] = 0 /\ S[n + 1] = Len(body)
      /\ \A i \in 1 .. n :
           /\ S[i + 1] = S[i] + Len(seqs[i]) /\ S[i + 1] <= Len(body)
           /\ \A g \in 1 .. Len(seqs[i]) : body[S[i] + g] = seqs[i][g]
  BY <1>1 DEF Laid
<1>7. S[n + 1] + 1 = Len(tp) /\ m[S[n + 1]] = EndMark
  <2> DEFINE b == Len(body)
  <2>1. b + 1 \in 1 .. b + 1 /\ ~(b + 1 <= b) /\ b + 1 - b = 1 /\ b + 1 - 1 = b
    BY <1>3
  <2>2. tp[b + 1] = end[1]
    BY <1>3, <2>1
  <2>3. m[b] = tp[b + 1].cell
    BY <1>3, <1>4, <2>1
  <2> QED BY <1>2, <1>3, <1>6, <2>2, <2>3
<1>8. ASSUME NEW i \in 1 .. n
      PROVE  /\ S[i + 1] = S[i] + 1 + Len(maps[i].entries) /\ S[i + 1] <= S[n + 1]
             /\ \A g \in 1 .. 1 + Len(maps[i].entries) : m[S[i] + g - 1] = CellsOf(maps[i])[g]
  <2> DEFINE e == Len(maps[i].entries)
             p == S[i]
  <2>1. /\ Len(seqs[i]) = 1 + e /\ e \in Nat
        /\ \A k \in 1 .. 1 + e : seqs[i][k].cell = CellsOf(maps[i])[k]
    BY <1>1, <1>5, MapPacketsAre
  <2>2. p \in Nat /\ S[i + 1] \in Nat
    BY <1>5, <1>6
  <2> HIDE DEF e, p
  <2>3. S[i + 1] = p + (1 + e) /\ S[i + 1] <= Len(body) /\ \A g \in 1 .. 1 + e : body[p + g] = seqs[i][g]
    BY <1>6, <2>1 DEF p
  <2>4. ASSUME NEW g \in 1 .. 1 + e PROVE m[p + g - 1] = CellsOf(maps[i])[g]
    <3>1. p + g <= Len(body) /\ p + g \in 1 .. Len(body) + 1
      BY <1>3, <2>1, <2>2, <2>3
    <3>2. tp[p + g] = body[p + g]
      BY <1>3, <3>1
    <3>3. m[p + g - 1] = tp[p + g].cell
      <4> DEFINE k == p + g
      <4>1. k \in 1 .. Len(tp)
        BY <1>3, <3>1
      <4> HIDE DEF k
      <4>2. m[k - 1] = tp[k].cell
        BY <1>4, <4>1
      <4>3. p + g - 1 = k - 1
        BY <2>1, <2>2 DEF k
      <4> QED BY <4>2, <4>3 DEF k
    <3> QED BY <2>1, <2>3, <3>2, <3>3
  <2>5. S[i + 1] = p + 1 + e /\ S[i + 1] <= S[n + 1]
    BY <1>6, <2>1, <2>2, <2>3
  <2> QED BY <2>4, <2>5 DEF e, p
<1>9. Charted(m, maps, S)
  BY <1>6, <1>7, <1>8 DEF Charted, n, tp
<1> QED BY <1>9

-----------------------------------------------------------------------------
(* The lookup walks the headers *)

\* The places a walk over the headers of f comes to in its first rounds.
Walked(h, rounds, f, p) ==
    h = [n \in 0 .. rounds |-> IF n = 0 THEN 0 ELSE Onward(f, h[n - 1], p)]

\* They exist, by induction over the number of rounds.
LEMMA WalkExists ==
  ASSUME NEW f, NEW p
  PROVE  \A rounds \in Nat : \E h : Walked(h, rounds, f, p)
<1> DEFINE S == {rounds \in Nat : \E h : Walked(h, rounds, f, p)}
<1>1. 0 \in S
  <2> DEFINE h == [n \in 0 .. 0 |-> 0]
             F(n) == IF n = 0 THEN 0 ELSE Onward(f, h[n - 1], p)
  <2>1. \A n \in 0 .. 0 : F(n) = 0
    OBVIOUS
  <2> HIDE DEF F
  <2>2. [n \in 0 .. 0 |-> F(n)] = [n \in 0 .. 0 |-> 0]
    BY <2>1
  <2>3. Walked(h, 0, f, p)
    BY <2>2 DEF F, Walked
  <2> QED BY <2>3
<1>2. ASSUME NEW rounds \in Nat, rounds \in S PROVE rounds + 1 \in S
  <2>1. PICK g : Walked(g, rounds, f, p)
    BY <1>2
  <2> DEFINE step(k, n) == IF n = 0 THEN 0 ELSE Onward(f, k[n - 1], p)
             last == Onward(f, g[rounds], p)
             h == [n \in 0 .. rounds + 1 |-> IF n <= rounds THEN g[n] ELSE last]
  <2>2. g = [n \in 0 .. rounds |-> step(g, n)]
    BY <2>1 DEF Walked
  <2>3. \A n \in 0 .. rounds : h[n] = g[n] /\ n \in 0 .. rounds + 1
    <3>1. \A n \in 0 .. rounds : n <= rounds /\ n \in 0 .. rounds + 1
      BY <1>2
    <3> HIDE DEF last
    <3> QED BY <3>1
  <2>4. rounds + 1 \in 0 .. rounds + 1 /\ ~(rounds + 1 <= rounds) /\ rounds + 1 # 0 /\ rounds + 1 - 1 = rounds /\ rounds \in 0 .. rounds
    BY <1>2
  <2>5. h[rounds + 1] = last
    <3> HIDE DEF last
    <3> QED BY <2>4
  <2>6. ASSUME NEW n \in 0 .. rounds + 1 PROVE h[n] = step(h, n)
    <3>1. CASE n = rounds + 1
      <4>1. step(h, n) = Onward(f, h[rounds], p)
        BY <2>4, <3>1
      <4> HIDE DEF step, h
      <4> QED BY <2>3, <2>4, <2>5, <3>1, <4>1
    <3>2. CASE n # rounds + 1
      <4>1. n \in 0 .. rounds /\ (n # 0 => n - 1 \in 0 .. rounds)
        BY <3>2, <1>2
      <4>2. g[n] = step(g, n)
        <5> HIDE DEF step
        <5>1. \A k \in 0 .. rounds : g[k] = step(g, k)
          BY <2>2
        <5> QED BY <4>1, <5>1
      <4>3. (n # 0 => h[n - 1] = g[n - 1]) /\ h[n] = g[n]
        <5> HIDE DEF h
        <5> QED BY <2>3, <4>1
      <4> HIDE DEF h
      <4> QED BY <4>2, <4>3
    <3> QED BY <3>1, <3>2
  <2>7. h = [n \in 0 .. rounds + 1 |-> h[n]]
    OBVIOUS
  <2> HIDE DEF h, step
  <2>8. h = [n \in 0 .. rounds + 1 |-> step(h, n)]
    BY <2>6, <2>7
  <2>9. Walked(h, rounds + 1, f, p)
    BY <2>8 DEF Walked, step
  <2> QED BY <1>2, <2>9
<1> HIDE DEF S
<1>3. Nat \subseteq S
  BY <1>1, <1>2, EveryNumber
<1> QED BY <1>3 DEF S

\* What a lookup finds at the place its walk ends at.
TakenAt(f, p, end) ==
    IF end < MapCells /\ f[end].count \notin {0, 255} /\ Covers(f[end], p)
    THEN [is |-> "flash", at |-> end] ELSE Default

\* The lookup walks from header to header and takes what it finds at the end.
LEMMA LookupWalks ==
  ASSUME NEW f, NEW p
  PROVE  \E h : /\ h[0] = 0 /\ LookupIn(f, p) = TakenAt(f, p, h[MapCells])
                /\ \A n \in Nat : n + 1 <= MapCells => h[n + 1] = Onward(f, h[n], p)
<1> DEFINE h == CHOOSE k : Walked(k, MapCells, f, p)
<1>1. LookupIn(f, p) = TakenAt(f, p, h[MapCells])
  BY DEF LookupIn, TakenAt, Walked
<1>2. Walked(h, MapCells, f, p)
  BY NvmAssumption, WalkExists, Zenon
<1> HIDE DEF h
<1> DEFINE step(n) == IF n = 0 THEN 0 ELSE Onward(f, h[n - 1], p)
<1>3. \A n \in 0 .. MapCells : h[n] = step(n)
  <2>1. h = [n \in 0 .. MapCells |-> step(n)]
    BY <1>2 DEF Walked
  <2> HIDE DEF step
  <2> QED BY <2>1
<1>4. h[0] = 0
  BY <1>3, NvmAssumption
<1>5. ASSUME NEW n \in Nat, n + 1 <= MapCells PROVE h[n + 1] = Onward(f, h[n], p)
  <2> DEFINE i == n + 1
  <2>1. i \in 0 .. MapCells /\ i # 0 /\ i - 1 = n
    BY <1>5, NvmAssumption
  <2> HIDE DEF i
  <2>2. h[i] = Onward(f, h[n], p)
    BY <1>3, <2>1
  <2> QED BY <2>2 DEF i
<1> QED BY <1>1, <1>4, <1>5

\* A table as the host has to make it.
GoodTable(maps) == maps \in Seq(Maps) /\ WellFormed(maps)

\* The headers of a table at the places S: the walk ends at one that covers the program,
\* and at the end mark.
HeadersAt(maps, f, S, p) ==
    /\ Len(maps) \in Nat \ {0}
    /\ \A i \in 1 .. Len(maps) + 1 : S[i] \in Nat /\ S[i] < MapCells
    /\ f[S[Len(maps) + 1]].count = 0
    /\ \A i \in 1 .. Len(maps) :
         /\ f[S[i]].count = Len(maps[i].entries) /\ f[S[i]].count \in 1 .. 254
         /\ Covers(f[S[i]], p) <=> Covers(maps[i], p)
         /\ WalkEnds(f, S[i], p) <=> Covers(maps[i], p)
         /\ S[i + 1] = S[i] + 1 + f[S[i]].count

\* They are so in a table that is well formed.
LEMMA HeadersInTable ==
  ASSUME NEW maps, GoodTable(maps), maps # <<>>, NEW f, NEW S, Charted(f, maps, S), NEW p
  PROVE  HeadersAt(maps, f, S, p)
<1> DEFINE n == Len(maps)
<1>1. n \in Nat \ {0} /\ DOMAIN maps = 1 .. n /\ \A i \in 1 .. n : maps[i] \in Maps
  BY EmptySeq, LenProperties, ElementOfSeq DEF GoodTable, WellFormed
<1>2. /\ S \in [1 .. n + 1 -> Nat] /\ S[n + 1] + 1 = Len(TablePackets(maps)) /\ f[S[n + 1]] = EndMark
      /\ \A i \in 1 .. n :
           /\ S[i + 1] = S[i] + 1 + Len(maps[i].entries) /\ S[i + 1] <= S[n + 1]
           /\ \A g \in 1 .. 1 + Len(maps[i].entries) : f[S[i] + g - 1] = CellsOf(maps[i])[g]
  BY DEF Charted
<1> HIDE DEF n
<1>3. S[n + 1] < MapCells /\ S[n + 1] \in Nat
  <2>1. S[n + 1] \in Nat
    BY <1>1, <1>2
  <2> QED BY <1>2, <2>1, NvmAssumption DEF GoodTable, WellFormed
<1>4. ASSUME NEW i \in 1 .. n
      PROVE  /\ f[S[i]] = HeaderOf(maps[i]) /\ Len(maps[i].entries) \in 1 .. 254
             /\ ~(maps[i].from = 255 /\ maps[i].to = 255)
             /\ S[i] \in Nat /\ S[i] < MapCells
  <2>1. Len(maps[i].entries) \in 1 .. 254 /\ ~(maps[i].from = 255 /\ maps[i].to = 255)
    <3>1. i \in DOMAIN maps
      BY <1>1
    <3> QED BY <3>1, Zenon DEF GoodTable, WellFormed
  <2>2. S[i] \in Nat /\ S[i + 1] \in Nat
    BY <1>1, <1>2
  <2>3. S[i + 1] = S[i] + 1 + Len(maps[i].entries) /\ S[i + 1] <= S[n + 1]
    BY <1>2
  <2>4. S[i] < MapCells
    BY <1>3, <2>1, <2>2, <2>3, NvmAssumption
  <2>5. f[S[i] + 1 - 1] = CellsOf(maps[i])[1]
    <3>1. 1 \in 1 .. 1 + Len(maps[i].entries)
      BY <2>1
    <3> QED BY <1>2, <3>1
  <2>6. S[i] + 1 - 1 = S[i]
    BY <2>2
  <2>7. CellsOf(maps[i])[1] = HeaderOf(maps[i])
    BY <1>1, MapPacketsAre
  <2> QED BY <2>1, <2>2, <2>4, <2>5, <2>6, <2>7
<1>5. ASSUME NEW i \in 1 .. n
      PROVE  /\ f[S[i]].count = Len(maps[i].entries) /\ f[S[i]].count \in 1 .. 254
             /\ Covers(f[S[i]], p) <=> Covers(maps[i], p)
             /\ WalkEnds(f, S[i], p) <=> Covers(maps[i], p)
             /\ S[i + 1] = S[i] + 1 + f[S[i]].count
  <2>1. /\ f[S[i]].count = Len(maps[i].entries) /\ f[S[i]].from = maps[i].from /\ f[S[i]].to = maps[i].to
    <3>1. f[S[i]] = HeaderOf(maps[i])
      BY <1>4
    <3> QED BY <3>1 DEF HeaderOf
  <2>2. f[S[i]].count \in 1 .. 254 /\ f[S[i]].count \notin {0, 255}
    <3>1. Len(maps[i].entries) \in 1 .. 254
      BY <1>4
    <3> DEFINE e == Len(maps[i].entries)
    <3>2. e \in 1 .. 254 /\ f[S[i]].count = e
      BY <2>1, <3>1
    <3> HIDE DEF e
    <3>3. e \notin {0, 255}
      BY <3>2
    <3> QED BY <3>2, <3>3
  <2>3. Covers(f[S[i]], p) <=> Covers(maps[i], p)
    BY <2>1 DEF Covers
  <2>4. WalkEnds(f, S[i], p) <=> Covers(maps[i], p)
    BY <1>4, <2>1, <2>2, <2>3 DEF WalkEnds
  <2> QED BY <1>2, <2>1, <2>2, <2>3, <2>4
<1>6. f[S[n + 1]].count = 0
  BY <1>2 DEF EndMark
<1>7. ASSUME NEW i \in 1 .. n + 1 PROVE S[i] \in Nat /\ S[i] < MapCells
  <2>1. i \in 1 .. n \/ i = n + 1
    BY <1>1
  <2> QED BY <1>3, <1>4, <2>1
<1> QED BY <1>1, <1>5, <1>6, <1>7 DEF n, HeadersAt

\* Where the walk over a table is after some rounds: at a header, with no map behind it
\* that covers the program; and it has come one cell further in each round or stands still.
WalkedTo(maps, f, S, p, rounds, at) ==
    \E i \in 1 .. Len(maps) + 1 :
      /\ at = S[i] /\ \A j \in 1 .. i - 1 : ~Covers(maps[j], p)
      /\ rounds <= at \/ i = Len(maps) + 1 \/ Covers(maps[i], p)

\* One round of the walk.
LEMMA OneRound ==
  ASSUME NEW maps, GoodTable(maps), maps # <<>>, NEW f, NEW S, Charted(f, maps, S), NEW p,
         NEW rounds \in Nat, NEW at, WalkedTo(maps, f, S, p, rounds, at)
  PROVE  WalkedTo(maps, f, S, p, rounds + 1, Onward(f, at, p))
<1> DEFINE n == Len(maps)
<1>1. /\ n \in Nat \ {0}
      /\ \A i \in 1 .. n + 1 : S[i] \in Nat /\ S[i] < MapCells
      /\ f[S[n + 1]].count = 0
      /\ \A i \in 1 .. n :
           /\ f[S[i]].count \in 1 .. 254
           /\ WalkEnds(f, S[i], p) <=> Covers(maps[i], p)
           /\ S[i + 1] = S[i] + 1 + f[S[i]].count
  <2>1. HeadersAt(maps, f, S, p)
    BY HeadersInTable
  <2> QED BY <2>1 DEF HeadersAt
<1>2. PICK i \in 1 .. n + 1 :
        /\ at = S[i] /\ \A j \in 1 .. i - 1 : ~Covers(maps[j], p)
        /\ rounds <= at \/ i = n + 1 \/ Covers(maps[i], p)
  BY DEF WalkedTo
<1> HIDE DEF n
<1>3. ~(at >= MapCells)
  <2>1. S[i] \in Nat /\ S[i] < MapCells
    BY <1>1
  <2> QED BY <1>2, <2>1, NvmAssumption
<1>4. CASE i = n + 1
  <2>1. WalkEnds(f, at, p)
    BY <1>1, <1>2, <1>4 DEF WalkEnds
  <2>2. Onward(f, at, p) = at
    BY <2>1 DEF Onward
  <2> QED BY <1>2, <1>4, <2>2 DEF WalkedTo, n
<1>5. CASE i # n + 1 /\ Covers(maps[i], p)
  <2>1. WalkEnds(f, at, p)
    BY <1>1, <1>2, <1>5
  <2>2. Onward(f, at, p) = at
    BY <2>1 DEF Onward
  <2> QED BY <1>2, <1>5, <2>2 DEF WalkedTo, n
<1>6. CASE i # n + 1 /\ ~Covers(maps[i], p)
  <2>1. i \in 1 .. n /\ rounds <= at
    BY <1>1, <1>2, <1>6
  <2>2. ~WalkEnds(f, at, p)
    BY <1>2, <1>6, <1>1, <2>1
  <2>3. Onward(f, at, p) = at + 1 + f[at].count
    BY <1>3, <2>2 DEF Onward
  <2>4. Onward(f, at, p) = S[i + 1]
    BY <1>1, <1>2, <2>1, <2>3
  <2>5. rounds + 1 <= S[i + 1]
    <3>1. S[i] \in Nat /\ f[S[i]].count \in 1 .. 254 /\ S[i + 1] = S[i] + 1 + f[S[i]].count
      BY <1>1, <2>1
    <3>2. rounds <= S[i]
      BY <1>2, <2>1
    <3> DEFINE c == f[S[i]].count
               a == S[i]
    <3>3. a \in Nat /\ c \in 1 .. 254 /\ S[i + 1] = a + 1 + c /\ rounds <= a
      BY <3>1, <3>2
    <3> HIDE DEF c, a
    <3> QED BY <3>3
  <2>6. \A j \in 1 .. (i + 1) - 1 : ~Covers(maps[j], p)
    <3>1. \A j \in 1 .. (i + 1) - 1 : j = i \/ j \in 1 .. i - 1
      BY <2>1
    <3> QED BY <1>2, <1>6, <3>1
  <2>7. i + 1 \in 1 .. n + 1
    BY <1>1, <2>1
  <2> QED BY <2>4, <2>5, <2>6, <2>7 DEF WalkedTo, n
<1> QED BY <1>4, <1>5, <1>6

\* What a lookup has to find in a table: the first map that covers the program.
Right(f, maps, p, found) ==
    LET is == FirstMap(maps, p) IN
    IF is = {} THEN found = Default
    ELSE \E i \in is : /\ found.is = "flash"
                       /\ \A k \in DOMAIN CellsOf(maps[i]) : f[found.at + k - 1] = CellsOf(maps[i])[k]

\* And does.
LEMMA LookupFinds ==
  ASSUME NEW maps, GoodTable(maps), NEW f, HoldsTable(f, maps), NEW p
  PROVE  Right(f, maps, p, LookupIn(f, p))
<1>1. PICK h : /\ h[0] = 0 /\ LookupIn(f, p) = TakenAt(f, p, h[MapCells])
               /\ \A n \in Nat : n + 1 <= MapCells => h[n + 1] = Onward(f, h[n], p)
  BY LookupWalks
<1>2. MapCells \in Nat \ {0}
  BY NvmAssumption
<1>3. CASE maps = <<>>
  <2>1. f[0] = Blank /\ FirstMap(maps, p) = {}
    <3>1. DOMAIN maps = {}
      BY <1>3
    <3>2. FirstMap(maps, p) = {}
      BY <3>1 DEF FirstMap
    <3> QED BY <1>3, <3>2 DEF HoldsTable
  <2>2. Onward(f, 0, p) = 0
    BY <2>1 DEF Onward, WalkEnds, Blank
  <2> DEFINE K == {n \in Nat : n <= MapCells => h[n] = 0}
  <2>3. 0 \in K
    BY <1>1
  <2>4. ASSUME NEW n \in Nat, n \in K PROVE n + 1 \in K
    BY <1>1, <1>2, <2>2, <2>4
  <2> HIDE DEF K
  <2>5. Nat \subseteq K
    BY <2>3, <2>4, EveryNumber
  <2>6. h[MapCells] = 0
    BY <1>2, <2>5 DEF K
  <2>7. LookupIn(f, p) = Default
    BY <1>1, <2>1, <2>6 DEF TakenAt, Blank
  <2> QED BY <2>1, <2>7 DEF Right
<1>4. CASE maps # <<>>
  <2>1. PICK S : Charted(f, maps, S)
    BY <1>4, TableCharted DEF GoodTable
  <2> DEFINE m == Len(maps)
  <2>2. /\ m \in Nat \ {0}
        /\ \A i \in 1 .. m + 1 : S[i] \in Nat /\ S[i] < MapCells
        /\ f[S[m + 1]].count = 0
        /\ \A i \in 1 .. m :
             /\ f[S[i]].count = Len(maps[i].entries) /\ f[S[i]].count \in 1 .. 254
             /\ Covers(f[S[i]], p) <=> Covers(maps[i], p)
    <3>1. HeadersAt(maps, f, S, p)
      BY <1>4, <2>1, HeadersInTable
    <3> QED BY <3>1 DEF HeadersAt
  <2> DEFINE K == {n \in Nat : n <= MapCells => WalkedTo(maps, f, S, p, n, h[n])}
  <2>3. 0 \in K
    <3>1. 1 \in 1 .. m + 1 /\ 0 <= 0 /\ \A j \in 1 .. 1 - 1 : ~Covers(maps[j], p)
      BY <2>2
    <3>2. S[1] = 0
      BY <2>1 DEF Charted
    <3> QED BY <1>1, <3>1, <3>2 DEF WalkedTo
  <2>4. ASSUME NEW n \in Nat, n \in K PROVE n + 1 \in K
    <3> SUFFICES ASSUME n + 1 <= MapCells PROVE WalkedTo(maps, f, S, p, n + 1, h[n + 1])
      OBVIOUS
    <3>1. n <= MapCells
      BY <1>2
    <3>2. WalkedTo(maps, f, S, p, n, h[n])
      BY <2>4, <3>1
    <3>3. h[n + 1] = Onward(f, h[n], p)
      BY <1>1
    <3> QED BY <1>4, <2>1, <3>2, <3>3, OneRound
  <2> HIDE DEF K
  <2>5. Nat \subseteq K
    BY <2>3, <2>4, EveryNumber
  <2> DEFINE end == h[MapCells]
  <2>6. WalkedTo(maps, f, S, p, MapCells, end)
    BY <1>2, <2>5 DEF K
  <2>7. PICK i \in 1 .. m + 1 :
          /\ end = S[i] /\ \A j \in 1 .. i - 1 : ~Covers(maps[j], p)
          /\ MapCells <= end \/ i = m + 1 \/ Covers(maps[i], p)
    BY <2>6 DEF WalkedTo
  <2> HIDE DEF m, end
  <2>8. end \in Nat /\ end < MapCells /\ ~(MapCells <= end)
    <3>1. S[i] \in Nat /\ S[i] < MapCells
      BY <2>2
    <3> QED BY <1>2, <2>7, <3>1
  <2>9. DOMAIN maps = 1 .. m
    BY LenProperties DEF GoodTable, m
  <2>10. CASE i = m + 1
    <3>1. f[end].count = 0
      BY <2>2, <2>7, <2>10
    <3>2. LookupIn(f, p) = Default
      BY <1>1, <3>1 DEF TakenAt, end
    <3>3. \A j \in 1 .. m : j \in 1 .. i - 1
      BY <2>2, <2>10
    <3>4. FirstMap(maps, p) = {}
      BY <2>7, <2>9, <3>3 DEF FirstMap, Covers
    <3> QED BY <3>2, <3>4 DEF Right
  <2>11. CASE i # m + 1
    <3>1. i \in 1 .. m /\ Covers(maps[i], p)
      BY <2>2, <2>7, <2>8, <2>11
    <3>2. f[end].count \notin {0, 255} /\ Covers(f[end], p)
      <4>1. f[end].count \in 1 .. 254
        BY <2>2, <2>7, <3>1
      <4>2. Covers(f[S[i]], p)
        BY <2>2, <3>1
      <4> QED BY <2>7, <4>1, <4>2
    <3>3. LookupIn(f, p) = [is |-> "flash", at |-> end]
      BY <1>1, <2>8, <3>2 DEF TakenAt, end
    <3>4. i \in FirstMap(maps, p)
      BY <2>7, <2>9, <3>1 DEF FirstMap, Covers
    <3>5. ASSUME NEW k \in DOMAIN CellsOf(maps[i]) PROVE f[end + k - 1] = CellsOf(maps[i])[k]
      <4>1. maps[i] \in Maps
        BY <2>9, <3>1, ElementOfSeq DEF GoodTable, m
      <4>2. DOMAIN CellsOf(maps[i]) = 1 .. 1 + Len(maps[i].entries)
        BY <4>1, MapPacketsAre, LenProperties
      <4>3. \A g \in 1 .. 1 + Len(maps[i].entries) : f[S[i] + g - 1] = CellsOf(maps[i])[g]
        BY <2>1, <3>1 DEF Charted, m
      <4> QED BY <2>7, <4>2, <4>3
    <3> QED BY <3>3, <3>4, <3>5 DEF Right
  <2> QED BY <2>10, <2>11
<1> QED BY <1>3, <1>4

-----------------------------------------------------------------------------
(* What the parser has made of the upload that runs *)

\* How many packets of a table have been received when s are still to come; below 0, blocks
\* are to come before it.
Received(tp, s) == Len(tp) - (Len(s) - 1)

\* What is still to come of an upload: blocks, the rest of the table, the flush.
Ahead(tp, s) ==
    \A k \in 1 .. Len(s) - 1 :
        IF k + Received(tp, s) >= 1 THEN s[k] = tp[k + Received(tp, s)] ELSE s[k].kind = "block"

\* A map that is not complete waits in memory, as far as it has been received.
Waiting(tp, t) ==
    /\ mapHeader.state = "live"
    /\ mapHeader.cells[1] = tp[writeAt + 1].cell /\ tp[writeAt + 1].kind = "header"
    /\ gotEntries = t - writeAt - 1 /\ gotEntries < tp[writeAt + 1].cell.count
    /\ \A k \in 1 .. gotEntries : mapEntries.cells[k] = tp[writeAt + 1 + k].cell

\* After t packets of a table what is complete has been written at the place it has in the
\* table, cell for packet.
Parsed(tp, t) ==
    IF t <= 0 THEN writeAt = 0
    ELSE /\ writeAt <= t
         /\ \A c \in 1 .. writeAt : written[c - 1] = tp[c].cell
         /\ IF writeAt = t THEN mapHeader.state = "null" ELSE Waiting(tp, t)

\* The tables a host may send; none if it only sends blocks.
Tables == {<<>>} \cup {u.maps : u \in Uploads}

\* What the parser has made of the upload that runs, and the flash of those before.
UploadInv ==
    /\ upload \in Tables /\ landed \in Tables
    /\ packets # <<>> => Ahead(TablePackets(upload), packets)
    /\ packets # <<>> /\ whole => Parsed(TablePackets(upload), Received(TablePackets(upload), packets))
    /\ packets = <<>> => writeAt = 0 /\ flash = written
    /\ clean => whole
    /\ clean /\ writeAt = 0 => HoldsTable(written, landed)
    /\ fresh => channelMap = Lookup(program)

\* The tables are well formed, with entries that have headers and headers that have entries.
LEMMA TablesAre ==
  ASSUME TablesWellFormed, NEW maps \in Tables
  PROVE  /\ GoodTable(maps)
         /\ TablePackets(maps) \in Seq(TablePacketSet) /\ Len(TablePackets(maps)) \in Nat
         /\ Len(TablePackets(maps)) <= MapCells
         /\ Followed(TablePackets(maps))
         /\ Len(TablePackets(maps)) # 0 => TablePackets(maps)[1].kind = "header"
         /\ maps # <<>> => Len(TablePackets(maps)) # 0
<1>1. GoodTable(maps)
  <2>1. CASE maps = <<>>
    <3>1. maps \in Seq(Maps) /\ DOMAIN maps = {} /\ TablePackets(maps) = <<>> /\ Len(<<>>) = 0
      BY <2>1 DEF TablePackets
    <3> QED BY <3>1, NvmAssumption DEF GoodTable, WellFormed
  <2>2. CASE \E u \in Uploads : maps = u.maps
    <3>1. PICK u \in Uploads : maps = u.maps
      BY <2>2
    <3>2. maps \in Seq(Maps)
      BY <3>1, NvmAssumption DEF Maps
    <3> QED BY <3>1, <3>2 DEF TablesWellFormed, GoodTable
  <2> QED BY <2>1, <2>2 DEF Tables
<1>2. maps \in Seq(Maps) /\ Len(TablePackets(maps)) <= MapCells
  BY <1>1 DEF GoodTable, WellFormed
<1>3. /\ TablePackets(maps) \in Seq(TablePacketSet) /\ AllAnnounced(TablePackets(maps))
      /\ maps # <<>> => \E k \in 1 .. Len(TablePackets(maps)) : Saving(TablePackets(maps)[k])
  BY <1>2, TablePacketsGood
<1> DEFINE tp == TablePackets(maps)
<1>4. Len(tp) \in Nat
  BY <1>3, LenProperties
<1>5. Len(tp) # 0 => tp[1].kind = "header"
  <2> HIDE DEF tp
  <2> SUFFICES ASSUME Len(tp) # 0 PROVE tp[1].kind = "header"
    OBVIOUS
  <2>1. 1 \in 1 .. Len(tp)
    BY <1>4
  <2>2. tp[1] \in TablePacketSet
    BY <1>3, <2>1, ElementOfSeq DEF tp
  <2>3. ~Announced(tp, 1)
    BY DEF Announced
  <2>4. tp[1].kind # "entry"
    BY <1>3, <2>1, <2>3 DEF AllAnnounced, tp
  <2> QED BY <2>2, <2>4 DEF TablePacketSet
<1>6. maps # <<>> => Len(tp) # 0
  BY <1>3, <1>4
<1> QED BY <1>1, <1>2, <1>3, <1>4, <1>5, <1>6, TableFollowed

\* When the first packet has been taken: what it was, and that the rest is still in order.
LEMMA AheadStays ==
  ASSUME NvmInv, NEW kind, kind # "flush", Packet(kind), NEW tp \in Seq(TablePacketSet), Ahead(tp, packets)
  PROVE  /\ packets' # <<>> /\ Ahead(tp, packets') /\ Received(tp, packets') = Received(tp, packets) + 1
         /\ Received(tp, packets) \in Int /\ Received(tp, packets) < Len(tp)
         /\ IF kind = "block" THEN Received(tp, packets) < 0
            ELSE /\ Received(tp, packets) >= 0
                 /\ Head(packets) = tp[Received(tp, packets) + 1]
<1> DEFINE t == Received(tp, packets)
           n == Len(packets)
<1>1. /\ Head(packets) = packets[1] /\ packets[1].kind = kind
      /\ n \in Nat /\ n = Len(packets') + 1 /\ Len(packets') \in Nat
      /\ \A k \in 1 .. Len(packets') : packets'[k] = packets[k + 1]
      /\ packets' \in Seq(PacketSet)
  BY PacketTaken DEF NvmInv
<1>2. packets[n].kind = "flush"
  BY DEF NvmInv, PacketsInv, Packet
<1>3. n # 1
  BY <1>1, <1>2
<1>4. packets' # <<>>
  <2>1. Len(packets') # 0
    BY <1>1, <1>3
  <2> QED BY <2>1
<1>5. Len(tp) \in Nat /\ \A k \in 1 .. Len(tp) : tp[k] \in TablePacketSet
  BY LenProperties, ElementOfSeq
<1>6. t = Len(tp) - (n - 1)
  BY DEF Received
<1>7. Received(tp, packets') = Len(tp) - (Len(packets') - 1)
  BY DEF Received
<1> DEFINE m == Len(packets')
           r == Received(tp, packets')
<1> HIDE DEF n, t, m, r
<1>8. n \in Nat /\ m \in Nat /\ n = m + 1 /\ n # 1
  BY <1>1, <1>3 DEF m
<1>9. t \in Int /\ r = t + 1 /\ t < Len(tp)
  BY <1>5, <1>6, <1>7, <1>8 DEF m, r
<1>10. \A k \in 1 .. n - 1 : IF k + t >= 1 THEN packets[k] = tp[k + t] ELSE packets[k].kind = "block"
  BY DEF Ahead, n, t
<1>11. ASSUME NEW k \in 1 .. m - 1
       PROVE  IF k + r >= 1 THEN packets'[k] = tp[k + r] ELSE packets'[k].kind = "block"
  <2> DEFINE j == k + 1
  <2>1. j \in 1 .. n - 1 /\ k \in 1 .. m /\ k + r = j + t
    BY <1>8, <1>9
  <2>2. packets'[k] = packets[j]
    BY <1>1, <2>1 DEF m
  <2> HIDE DEF j
  <2>3. IF j + t >= 1 THEN packets[j] = tp[j + t] ELSE packets[j].kind = "block"
    BY <1>10, <2>1
  <2> QED BY <2>1, <2>2, <2>3
<1>12. Ahead(tp, packets')
  BY <1>11 DEF Ahead, m, r
<1>13. IF 1 + t >= 1 THEN packets[1] = tp[1 + t] ELSE packets[1].kind = "block"
  <2>1. 1 \in 1 .. n - 1
    BY <1>8
  <2> QED BY <1>10, <2>1
<1>14. IF kind = "block" THEN t < 0 ELSE t >= 0 /\ packets[1] = tp[t + 1]
  <2>1. CASE t >= 0
    <3>1. 1 + t >= 1 /\ 1 + t = t + 1 /\ t + 1 \in 1 .. Len(tp)
      BY <1>5, <1>9, <2>1
    <3>2. packets[1] = tp[t + 1]
      BY <1>13, <3>1
    <3>3. tp[t + 1].kind # "block"
      BY <1>5, <3>1 DEF TablePacketSet
    <3> QED BY <1>1, <2>1, <3>2, <3>3
  <2>2. CASE ~(t >= 0)
    <3>1. ~(1 + t >= 1) /\ t < 0
      BY <1>9, <2>2
    <3> QED BY <1>1, <1>13, <3>1
  <2> QED BY <2>1, <2>2
<1> QED BY <1>1, <1>4, <1>9, <1>12, <1>14 DEF t, r

\* What a write leaves alone.
LEMMA PutElsewhere ==
  ASSUME NEW m, NEW index \in Nat, NEW V, NEW data \in Seq(V), NEW c \in FlashCells,
         c < index \/ index + Len(data) <= c
  PROVE  Put(m, index, data)[c] = m[c]
<1>1. DOMAIN data = 1 .. Len(data) /\ Len(data) \in Nat /\ c \in Int
  BY LenProperties, NvmAssumption DEF FlashCells
<1>2. c - index + 1 \notin DOMAIN data
  BY <1>1
<1> QED BY <1>2 DEF Put

\* What it changes.
LEMMA PutThere ==
  ASSUME NEW m, NEW index, NEW data, NEW c \in FlashCells,
         c - index + 1 \in DOMAIN data
  PROVE  Put(m, index, data)[c] = data[c - index + 1]
BY DEF Put

\* The cells of the map memory.
LEMMA MapMemory ==
  ASSUME NEW k \in Nat, k < MapCells
  PROVE  k \in FlashCells
BY NvmAssumption DEF FlashCells

\* A table stays where its cells are not written.
LEMMA TableStays ==
  ASSUME TablesWellFormed, NEW maps \in Tables, NEW m, HoldsTable(m, maps), NEW w,
         \A c \in FlashCells : c < MapCells => w[c] = m[c]
  PROVE  HoldsTable(w, maps)
<1>1. CASE maps = <<>>
  <2>1. 0 \in FlashCells /\ 0 < MapCells
    BY MapMemory, NvmAssumption
  <2> QED BY <1>1, <2>1 DEF HoldsTable
<1>2. CASE maps # <<>>
  <2> DEFINE tp == TablePackets(maps)
  <2>1. Len(tp) \in Nat /\ Len(tp) <= MapCells
    BY TablesAre
  <2>2. \A k \in 1 .. Len(tp) : m[k - 1] = tp[k].cell
    BY <1>2 DEF HoldsTable
  <2> HIDE DEF tp
  <2>3. ASSUME NEW k \in 1 .. Len(tp) PROVE w[k - 1] = tp[k].cell
    <3>1. k - 1 \in Nat /\ k - 1 < MapCells
      BY <2>1, NvmAssumption
    <3>2. k - 1 \in FlashCells
      BY <3>1, MapMemory
    <3> QED BY <2>2, <3>1, <3>2
  <2> QED BY <1>2, <2>3 DEF HoldsTable, tp
<1> QED BY <1>1, <1>2

\* A channel that is fresh stays so while the flash does.
LEMMA FreshStays ==
  ASSUME UploadInv, UNCHANGED channel, fresh' => fresh /\ flash' = flash
  PROVE  fresh' => channelMap' = Lookup(program)'
BY DEF UploadInv, channel, Lookup

\* What a write leaves alone.
LEMMA KeepFresh ==
  ASSUME NEW s, Keep(s)
  PROVE  fresh' => fresh /\ flash' = flash
BY DEF Keep

\* Between the maps nothing waits, and all that was received has been written.
LEMMA NothingWaits ==
  ASSUME NEW tp \in Seq(TablePacketSet), Followed(tp), NEW t \in Int, 0 <= t, t <= Len(tp), Parsed(tp, t),
         t < Len(tp) => tp[t + 1].kind # "entry", writeAt \in Nat, gotEntries \in Nat
  PROVE  writeAt = t /\ \A c \in 1 .. t : written[c - 1] = tp[c].cell
<1>1. Len(tp) \in Nat /\ \A k \in 1 .. Len(tp) : tp[k] \in TablePacketSet
  BY LenProperties, ElementOfSeq
<1>2. CASE t <= 0
  BY <1>2 DEF Parsed
<1>3. CASE ~(t <= 0) /\ writeAt = t
  BY <1>3 DEF Parsed
<1>4. CASE ~(t <= 0) /\ writeAt # t
  <2>1. writeAt <= t /\ Waiting(tp, t)
    BY <1>4 DEF Parsed
  <2> DEFINE a == writeAt + 1
             g == gotEntries + 1
  <2>2. a \in 1 .. Len(tp)
    BY <1>1, <1>4, <2>1
  <2>3. tp[a].cell.count \in Nat
    BY <1>1, <2>2 DEF TablePacketSet, CellValues
  <2>4. /\ tp[a].kind = "header" /\ gotEntries = t - writeAt - 1 /\ gotEntries < tp[a].cell.count
    BY <2>1 DEF Waiting
  <2>5. g \in 1 .. tp[a].cell.count /\ a + g = t + 1
    <3> DEFINE n == tp[a].cell.count
    <3>1. n \in Nat /\ gotEntries < n
      BY <2>3, <2>4
    <3> HIDE DEF n
    <3>2. g \in 1 .. n
      BY <3>1
    <3>3. a + g = t + 1
      BY <2>4
    <3> QED BY <3>2, <3>3 DEF n
  <2> HIDE DEF a, g
  <2>6. a + g <= Len(tp) /\ tp[a + g].kind = "entry"
    BY <2>2, <2>4, <2>5 DEF Followed
  <2> QED BY <1>1, <2>5, <2>6
<1> QED BY <1>2, <1>3, <1>4

\* The upload that runs, as the invariant has it.
LEMMA Running ==
  ASSUME TablesWellFormed, NvmInv, UploadInv, NEW kind, kind # "flush", Packet(kind), UNCHANGED <<upload, landed, whole, clean>>,
         NEW tp, tp = TablePackets(upload), NEW t, t = Received(tp, packets)
  PROVE  /\ upload \in Tables /\ landed \in Tables
         /\ tp \in Seq(TablePacketSet) /\ Len(tp) \in Nat /\ Len(tp) <= MapCells /\ Followed(tp)
         /\ t \in Int /\ t < Len(tp) /\ (IF kind = "block" THEN t < 0 ELSE t >= 0 /\ Head(packets) = tp[t + 1])
         /\ writeAt \in Nat /\ gotEntries \in Nat
         /\ whole => Parsed(tp, t)
         /\ packets' # <<>>
         /\ (whole => Parsed(tp, t + 1)') /\ (clean /\ writeAt' = 0 => HoldsTable(written', landed))
              /\ (fresh' => channelMap' = Lookup(program)') => UploadInv'
<1>1. /\ upload \in Tables /\ landed \in Tables /\ packets # <<>>
      /\ Ahead(tp, packets) /\ (whole => Parsed(tp, t)) /\ (clean => whole)
  BY DEF UploadInv, Packet
<1>2. tp \in Seq(TablePacketSet) /\ Len(tp) \in Nat /\ Len(tp) <= MapCells /\ Followed(tp)
  BY <1>1, TablesAre
<1>3. /\ packets' # <<>> /\ Ahead(tp, packets') /\ Received(tp, packets') = t + 1
      /\ t \in Int /\ t < Len(tp)
      /\ IF kind = "block" THEN t < 0 ELSE t >= 0 /\ Head(packets) = tp[t + 1]
  BY <1>1, <1>2, AheadStays
<1>4. writeAt \in Nat /\ gotEntries \in Nat
  BY DEF NvmInv, ParserInv
<1>5. ASSUME whole => Parsed(tp, t + 1)', clean /\ writeAt' = 0 => HoldsTable(written', landed),
             fresh' => channelMap' = Lookup(program)'
      PROVE  UploadInv'
  <2>1. upload' \in Tables /\ landed' \in Tables
    BY <1>1
  <2>2. TablePackets(upload)' = tp
    OBVIOUS
  <2>3. Ahead(TablePackets(upload), packets)'
    BY <1>3, <2>2 DEF Ahead, Received
  <2>4. Received(TablePackets(upload), packets)' = t + 1
    BY <1>3, <2>2 DEF Received
  <2>5. whole' => Parsed(TablePackets(upload), Received(TablePackets(upload), packets))'
    BY <1>5, <2>2, <2>4
  <2> QED BY <1>1, <1>3, <1>5, <2>1, <2>3, <2>5 DEF UploadInv
<1> QED BY <1>1, <1>2, <1>3, <1>4, <1>5

-----------------------------------------------------------------------------
(* Every packet keeps it *)

\* A block goes behind the maps.
LEMMA WriteBlockLands ==
  ASSUME TablesWellFormed, NvmInv, UploadInv, WriteBlock
  PROVE  UploadInv'
<1> DEFINE q == Head(packets)
           data == <<q.cell>>
<1>0. PICK tp, t : tp = TablePackets(upload) /\ t = Received(tp, packets)
  OBVIOUS
<1>1. /\ Packet("block") /\ Save(MapCells + q.id, data)
      /\ UNCHANGED <<parser, channel, upload, landed, whole, clean>>
  BY DEF WriteBlock
<1>2. /\ upload \in Tables /\ landed \in Tables /\ t \in Int /\ t < 0 /\ (whole => Parsed(tp, t))
      /\ writeAt \in Nat
      /\ (whole => Parsed(tp, t + 1)') /\ (clean /\ writeAt' = 0 => HoldsTable(written', landed))
           /\ (fresh' => channelMap' = Lookup(program)') => UploadInv'
  BY <1>0, <1>1, Running
<1>3. q.id \in Nat /\ q.cell \in Sent
  BY <1>1, PacketTaken DEF NvmInv, PacketSet, SavedPacketSet, TablePacketSet, BlockPacketSet, FlushPacketSet
<1>4. MapCells + q.id \in Nat /\ MapCells <= MapCells + q.id /\ data \in Seq(Contents)
  BY <1>3, OneCell, NvmAssumption
<1>5. written' = Put(written, MapCells + q.id, data)
  BY <1>1 DEF Save
<1> HIDE DEF q, data
<1>6. ASSUME NEW c \in FlashCells, c < MapCells PROVE written'[c] = written[c]
  <2>1. c \in Int
    BY NvmAssumption DEF FlashCells
  <2>2. c < MapCells + q.id
    BY <1>3, <1>6, <2>1, NvmAssumption
  <2>3. Put(written, MapCells + q.id, data)[c] = written[c]
    BY <1>4, <2>2, PutElsewhere
  <2> QED BY <1>5, <2>3
<1>7. clean /\ writeAt' = 0 => HoldsTable(written', landed)
  <2> SUFFICES ASSUME clean, writeAt' = 0 PROVE HoldsTable(written', landed)
    OBVIOUS
  <2>1. HoldsTable(written, landed)
    BY <1>1 DEF UploadInv, parser
  <2> QED BY <1>2, <1>6, <2>1, TableStays
<1>8. whole => Parsed(tp, t + 1)'
  <2>1. t + 1 <= 0 /\ t <= 0
    BY <1>2
  <2>2. writeAt' = writeAt
    BY <1>1 DEF parser
  <2> QED BY <1>2, <2>1, <2>2 DEF Parsed
<1>9. fresh' => channelMap' = Lookup(program)'
  <2>1. fresh' => fresh /\ flash' = flash
    BY <1>1, KeepFresh DEF Save
  <2> QED BY <1>1, <2>1, FreshStays
<1> QED BY <1>2, <1>7, <1>8, <1>9

\* A header finds nothing before it that waits.
LEMMA MapHeaderLands ==
  ASSUME TablesWellFormed, NvmInv, UploadInv, MapHeader
  PROVE  UploadInv'
<1> DEFINE q == Head(packets)
<1>0. PICK tp, t : tp = TablePackets(upload) /\ t = Received(tp, packets)
  OBVIOUS
<1>1. /\ Packet("header") /\ q.cell.count # 0 /\ mapHeader' = [state |-> "live", cells |-> <<q.cell>>]
      /\ gotEntries' = 0 /\ UNCHANGED <<cache, channel, writeAt, upload, landed, whole, clean, fresh>>
  BY DEF MapHeader
<1>2. /\ upload \in Tables /\ landed \in Tables
      /\ tp \in Seq(TablePacketSet) /\ Len(tp) \in Nat /\ Followed(tp)
      /\ t \in Int /\ t < Len(tp) /\ t >= 0 /\ q = tp[t + 1]
      /\ writeAt \in Nat /\ gotEntries \in Nat
      /\ (whole => Parsed(tp, t))
      /\ (whole => Parsed(tp, t + 1)') /\ (clean /\ writeAt' = 0 => HoldsTable(written', landed))
           /\ (fresh' => channelMap' = Lookup(program)') => UploadInv'
  BY <1>0, <1>1, Running
<1>3. q.kind = "header"
  BY <1>1, PacketTaken DEF NvmInv
<1>4. UNCHANGED <<written, flash>>
  BY <1>1 DEF cache
<1> HIDE DEF q
<1>5. clean /\ writeAt' = 0 => HoldsTable(written', landed)
  BY <1>1, <1>4 DEF UploadInv
<1>6. fresh' => channelMap' = Lookup(program)'
  BY <1>1, <1>4, FreshStays
<1>7. ASSUME whole PROVE Parsed(tp, t + 1)'
  <2>1. writeAt = t /\ \A c \in 1 .. t : written[c - 1] = tp[c].cell
    <3>1. 0 <= t /\ t <= Len(tp) /\ tp[t + 1].kind # "entry" /\ Parsed(tp, t)
      BY <1>2, <1>3, <1>7
    <3> QED BY <1>2, <3>1, NothingWaits
  <2>2. tp[t + 1] \in TablePacketSet
    <3>1. t + 1 \in 1 .. Len(tp)
      BY <1>2
    <3> QED BY <1>2, <3>1, ElementOfSeq
  <2>3. q.cell.count \in Nat
    BY <1>2, <2>2 DEF TablePacketSet, CellValues
  <2>4. Waiting(tp, t + 1)'
    <3>1. (mapHeader').state = "live" /\ (mapHeader').cells[1] = q.cell
      BY <1>1
    <3>2. writeAt' = t /\ gotEntries' = 0 /\ (t + 1) - t - 1 = 0 /\ 1 .. 0 = {}
      BY <1>1, <1>2, <2>1
    <3>3. 0 < q.cell.count
      BY <1>1, <2>3
    <3> QED BY <1>2, <1>3, <3>1, <3>2, <3>3 DEF Waiting
  <2>5. ~(t + 1 <= 0) /\ writeAt' = t /\ t <= t + 1 /\ t # t + 1
    BY <1>1, <1>2, <2>1
  <2> QED BY <1>4, <2>1, <2>4, <2>5 DEF Parsed
<1> QED BY <1>2, <1>5, <1>6, <1>7

\* The end mark is written behind the last map.
LEMMA MapEndLands ==
  ASSUME TablesWellFormed, NvmInv, UploadInv, MapEnd
  PROVE  UploadInv'
<1> DEFINE q == Head(packets)
           data == <<q.cell>>
<1>0. PICK tp, t : tp = TablePackets(upload) /\ t = Received(tp, packets)
  OBVIOUS
<1>1. /\ Packet("header") /\ Save(writeAt, data) /\ writeAt' = writeAt + 1 /\ mapHeader' = Null
      /\ UNCHANGED <<channel, upload, landed, whole, clean>>
  BY DEF MapEnd
<1>2. /\ upload \in Tables /\ landed \in Tables
      /\ tp \in Seq(TablePacketSet) /\ Len(tp) \in Nat /\ Len(tp) <= MapCells /\ Followed(tp)
      /\ t \in Int /\ t < Len(tp) /\ t >= 0 /\ q = tp[t + 1]
      /\ writeAt \in Nat /\ gotEntries \in Nat
      /\ (whole => Parsed(tp, t))
      /\ (whole => Parsed(tp, t + 1)') /\ (clean /\ writeAt' = 0 => HoldsTable(written', landed))
           /\ (fresh' => channelMap' = Lookup(program)') => UploadInv'
  BY <1>0, <1>1, Running
<1>3. q.kind = "header" /\ q.cell \in Sent
  BY <1>1, PacketTaken DEF NvmInv
<1>4. data \in Seq(Contents) /\ Len(data) = 1 /\ data[1] = q.cell
  BY <1>3, OneCell
<1>5. written' = Put(written, writeAt, data)
  BY <1>1 DEF Save
<1> HIDE DEF q, data
<1>6. ~(writeAt' = 0)
  BY <1>1, <1>2
<1>7. fresh' => channelMap' = Lookup(program)'
  <2>1. fresh' => fresh /\ flash' = flash
    BY <1>1, KeepFresh DEF Save
  <2> QED BY <1>1, <2>1, FreshStays
<1>8. ASSUME whole PROVE Parsed(tp, t + 1)'
  <2>1. writeAt = t /\ \A c \in 1 .. t : written[c - 1] = tp[c].cell
    <3>1. 0 <= t /\ t <= Len(tp) /\ tp[t + 1].kind # "entry" /\ Parsed(tp, t)
      BY <1>2, <1>3, <1>8
    <3> QED BY <1>2, <3>1, NothingWaits
  <2>2. ASSUME NEW c \in 1 .. t + 1 PROVE written'[c - 1] = tp[c].cell
    <3>1. c - 1 \in Nat /\ c - 1 < MapCells
      BY <1>2, NvmAssumption
    <3>2. c - 1 \in FlashCells
      BY <3>1, MapMemory
    <3> DEFINE d == c - 1
    <3> HIDE DEF d
    <3>3. /\ d < t => Put(written, t, data)[d] = written[d]
          /\ d = t => Put(written, t, data)[d] = data[1]
      <4>1. d \in FlashCells /\ t \in Nat /\ 1 \in 1 .. Len(data)
        BY <1>2, <1>4, <3>2 DEF d
      <4>2. d < t => Put(written, t, data)[d] = written[d]
        BY <1>4, <4>1, PutElsewhere
      <4>3. d = t => Put(written, t, data)[d] = data[1]
        <5> SUFFICES ASSUME d = t PROVE Put(written, t, data)[d] = data[1]
          OBVIOUS
        <5>1. d - t + 1 = 1 /\ 1 \in DOMAIN data
          BY <1>4, <4>1, LenProperties
        <5> QED BY <4>1, <5>1, PutThere
      <4> QED BY <4>2, <4>3
    <3>4. CASE c = t + 1
      <4>1. d = t
        BY <1>2, <3>4 DEF d
      <4> QED BY <1>2, <1>4, <1>5, <2>1, <3>3, <3>4, <4>1 DEF d
    <3>5. CASE c # t + 1
      <4>1. d < t /\ c \in 1 .. t
        BY <1>2, <3>5 DEF d
      <4> QED BY <1>5, <2>1, <3>3, <4>1 DEF d
    <3> QED BY <3>4, <3>5
  <2>3. ~(t + 1 <= 0) /\ writeAt' = t + 1 /\ t + 1 <= t + 1
    BY <1>1, <1>2, <2>1
  <2>4. (mapHeader').state = "null"
    BY <1>1 DEF Null
  <2> QED BY <2>2, <2>3, <2>4 DEF Parsed
<1> QED BY <1>2, <1>6, <1>7, <1>8

\* The last entry of a map writes it to its place in the table, any other waits with it.
LEMMA MapEntryLands ==
  ASSUME TablesWellFormed, NvmInv, UploadInv, MapEntry
  PROVE  UploadInv'
<1> DEFINE q == Head(packets)
           cells == [mapEntries.cells EXCEPT ![gotEntries'] = q.cell]
           count == mapHeader.cells[1].count
<1>0. PICK tp, t : tp = TablePackets(upload) /\ t = Received(tp, packets)
  OBVIOUS
<1>1. /\ Packet("entry") /\ gotEntries' = gotEntries + 1
      /\ UNCHANGED <<channel, upload, landed, whole, clean>>
      /\ IF gotEntries' = count
         THEN /\ SaveBoth(writeAt, mapHeader.cells, cells)
              /\ writeAt' = writeAt + 1 + Len(cells)
              /\ mapHeader' = Null
         ELSE /\ mapEntries' = [mapEntries EXCEPT !.cells = cells]
              /\ UNCHANGED <<cache, fresh, writeAt, mapHeader>>
  BY DEF MapEntry
<1>2. /\ upload \in Tables /\ landed \in Tables
      /\ tp \in Seq(TablePacketSet) /\ Len(tp) \in Nat /\ Len(tp) <= MapCells /\ Followed(tp)
      /\ t \in Int /\ t < Len(tp) /\ t >= 0 /\ q = tp[t + 1]
      /\ writeAt \in Nat /\ gotEntries \in Nat
      /\ (whole => Parsed(tp, t))
      /\ (whole => Parsed(tp, t + 1)') /\ (clean /\ writeAt' = 0 => HoldsTable(written', landed))
           /\ (fresh' => channelMap' = Lookup(program)') => UploadInv'
  BY <1>0, <1>1, Running
<1>3. q.cell \in Sent /\ q = packets[1] /\ q.kind = "entry" /\ 1 \in 1 .. Len(packets)
  BY <1>1, PacketTaken DEF NvmInv
<1>4. Pending(1)
  <2>1. ~Announced(packets, 1)
    BY DEF Announced
  <2> QED BY <1>3, <2>1 DEF NvmInv, PacketsInv
<1>5. /\ mapHeader.state = "live" /\ mapHeader.cells \in Seq(Contents) /\ Len(mapHeader.cells) = 1
      /\ count \in Nat /\ gotEntries + 1 <= count
      /\ mapEntries.state = "live" /\ mapEntries.cells \in Seq(Contents) /\ Len(mapEntries.cells) = count
  BY <1>4 DEF Pending, NvmInv, ParserInv
<1>6. /\ cells \in Seq(Contents) /\ Len(cells) = count /\ cells[gotEntries + 1] = q.cell
      /\ \A k \in 1 .. gotEntries : cells[k] = mapEntries.cells[k]
  <2>1. gotEntries' \in 1 .. Len(mapEntries.cells) /\ q.cell \in Contents
    BY <1>1, <1>2, <1>3, <1>5 DEF Contents
  <2> DEFINE i == gotEntries'
  <2> HIDE DEF q, i
  <2>2. /\ cells \in Seq(Contents) /\ Len(cells) = count
        /\ \A k \in 1 .. Len(mapEntries.cells) : cells[k] = IF k = i THEN q.cell ELSE mapEntries.cells[k]
    BY <1>5, <2>1, ExceptSeq DEF i
  <2>3. i = gotEntries + 1
    BY <1>1 DEF i
  <2> HIDE DEF cells
  <2>4. cells[gotEntries + 1] = q.cell
    BY <2>1, <2>2, <2>3 DEF i
  <2>5. \A k \in 1 .. gotEntries : k \in 1 .. Len(mapEntries.cells) /\ k # i
    BY <1>2, <1>5, <2>3
  <2> QED BY <2>2, <2>4, <2>5
<1> HIDE DEF q, cells
<1> DEFINE g == gotEntries + 1
\* If the upload began at the start, the map is the one of the table.
<1>7. ASSUME whole
      PROVE  /\ ~(t <= 0) /\ writeAt < t /\ g = t - writeAt
             /\ mapHeader.cells[1] = tp[writeAt + 1].cell /\ tp[writeAt + 1].kind = "header"
             /\ \A c \in 1 .. writeAt : written[c - 1] = tp[c].cell
             /\ \A k \in 1 .. g : cells[k] = tp[writeAt + 1 + k].cell
  <2>1. ~(t <= 0)
    <3>1. ASSUME t <= 0 PROVE FALSE
      <4>1. t + 1 = 1 /\ Len(tp) # 0
        BY <1>2, <3>1
      <4>2. tp[1].kind = "header"
        BY <1>0, <1>2, <4>1, TablesAre
      <4> QED BY <1>2, <1>3, <4>1, <4>2
    <3> QED BY <3>1
  <2>2. Waiting(tp, t) /\ writeAt <= t /\ writeAt # t /\ \A c \in 1 .. writeAt : written[c - 1] = tp[c].cell
    BY <1>2, <1>5, <1>7, <2>1 DEF Parsed
  <2>3. g = t - writeAt
    BY <1>2, <2>2 DEF Waiting
  <2>4. ASSUME NEW k \in 1 .. g PROVE cells[k] = tp[writeAt + 1 + k].cell
    <3>1. CASE k = g
      <4>1. writeAt + 1 + k = t + 1
        BY <1>2, <2>3, <3>1
      <4>2. cells[k] = q.cell
        BY <1>6, <3>1
      <4> QED BY <1>2, <4>1, <4>2
    <3>2. CASE k # g
      <4>1. k \in 1 .. gotEntries
        BY <1>2, <3>2
      <4> QED BY <1>6, <2>2, <4>1 DEF Waiting
    <3> QED BY <3>1, <3>2
  <2>5. writeAt < t
    BY <1>2, <2>2
  <2> QED BY <2>1, <2>2, <2>3, <2>4, <2>5 DEF Waiting
<1>8. CASE gotEntries' = count
  <2>1. SaveBoth(writeAt, mapHeader.cells, cells) /\ writeAt' = writeAt + 1 + count /\ mapHeader' = Null /\ g = count
    BY <1>1, <1>6, <1>8
  <2>2. ~(writeAt' = 0)
    BY <1>2, <1>5, <2>1
  <2>3. fresh' => channelMap' = Lookup(program)'
    <3>1. fresh' => fresh /\ flash' = flash
      BY <2>1, KeepFresh DEF SaveBoth
    <3> QED BY <1>1, <3>1, FreshStays
  <2>4. ASSUME whole PROVE Parsed(tp, t + 1)'
    <3>1. writeAt' = t + 1 /\ writeAt + 1 + g = t + 1
      BY <1>2, <1>7, <2>1, <2>4
    <3>2. written' = Put(Put(written, writeAt, mapHeader.cells), writeAt + Len(mapHeader.cells), cells)
      BY <2>1 DEF SaveBoth
    <3>3. ASSUME NEW c \in 1 .. t + 1 PROVE written'[c - 1] = tp[c].cell
      <4> DEFINE d == c - 1
      <4>1. d \in Nat /\ d < MapCells
        BY <1>2, NvmAssumption
      <4>2. d \in FlashCells
        BY <4>1, MapMemory
      <4> HIDE DEF d
      <4>3. /\ d < writeAt => written'[d] = written[d]
            /\ d = writeAt => written'[d] = mapHeader.cells[1]
            /\ \A k \in 1 .. Len(cells) : d = writeAt + k => written'[d] = cells[k]
        <5>0. PICK w, v, m, header, entries, at, behind :
                /\ w = written' /\ m = written /\ header = mapHeader.cells /\ entries = cells
                /\ at = writeAt /\ behind = at + 1 /\ v = Put(m, at, header)
          OBVIOUS
        <5>1. /\ header \in Seq(Contents) /\ Len(header) = 1 /\ entries \in Seq(Contents)
              /\ at \in Nat /\ behind \in Nat
          BY <1>2, <1>5, <1>6, <5>0
        <5>2. w = Put(v, behind, entries)
          BY <3>2, <5>0, <5>1
        <5>3. /\ d < at => w[d] = m[d]
              /\ d = at => w[d] = header[1]
              /\ \A k \in 1 .. Len(entries) : d = at + k => w[d] = entries[k]
          <6>1. ASSUME d < at PROVE w[d] = m[d]
            <7>1. d < behind
              BY <4>1, <5>0, <5>1, <6>1
            <7>2. v[d] = m[d] /\ Put(v, behind, entries)[d] = v[d]
              <8>1. Put(m, at, header)[d] = m[d]
                BY <4>2, <5>1, <6>1, PutElsewhere
              <8>2. Put(v, behind, entries)[d] = v[d]
                BY <4>2, <5>1, <7>1, PutElsewhere
              <8> QED BY <5>0, <8>1, <8>2
            <7> QED BY <5>2, <7>2
          <6>2. ASSUME d = at PROVE w[d] = header[1]
            <7>1. d - at + 1 = 1 /\ 1 \in DOMAIN header /\ d < behind
              BY <5>0, <5>1, <6>2, LenProperties
            <7>2. v[d] = header[1] /\ Put(v, behind, entries)[d] = v[d]
              BY <4>2, <5>0, <5>1, <7>1, PutElsewhere, PutThere
            <7> QED BY <5>2, <7>2
          <6>3. ASSUME NEW k \in 1 .. Len(entries), d = at + k PROVE w[d] = entries[k]
            <7>1. d - behind + 1 = k /\ k \in DOMAIN entries
              BY <5>0, <5>1, <6>3, LenProperties
            <7>2. Put(v, behind, entries)[d] = entries[k]
              BY <4>2, <5>1, <7>1, PutThere
            <7> QED BY <5>2, <7>2
          <6> QED BY <6>1, <6>2, <6>3
        <5> QED BY <5>0, <5>3
      <4>4. CASE c <= writeAt
        <5>1. d < writeAt /\ c \in 1 .. writeAt
          BY <1>2, <4>4 DEF d
        <5> QED BY <1>7, <2>4, <4>3, <5>1 DEF d
      <4>5. CASE c = writeAt + 1
        <5>1. d = writeAt
          BY <1>2, <4>5 DEF d
        <5> QED BY <1>7, <2>4, <4>3, <4>5, <5>1 DEF d
      <4>6. CASE ~(c <= writeAt) /\ c # writeAt + 1
        <5> DEFINE k == c - writeAt - 1
        <5>1. k \in 1 .. g /\ d = writeAt + k /\ writeAt + 1 + k = c
          BY <1>2, <3>1, <4>6 DEF d
        <5>2. k \in 1 .. Len(cells)
          BY <1>6, <2>1, <5>1
        <5> HIDE DEF k
        <5>3. written'[d] = cells[k]
          BY <4>3, <5>1, <5>2
        <5>4. cells[k] = tp[writeAt + 1 + k].cell
          BY <1>7, <2>4, <5>1
        <5> QED BY <5>1, <5>3, <5>4 DEF d
      <4> QED BY <4>4, <4>5, <4>6
    <3>4. ~(t + 1 <= 0) /\ t + 1 <= t + 1
      BY <1>2
    <3>5. (mapHeader').state = "null"
      BY <2>1 DEF Null
    <3> QED BY <3>1, <3>3, <3>4, <3>5 DEF Parsed
  <2> QED BY <1>2, <2>2, <2>3, <2>4
<1>9. CASE gotEntries' # count
  <2>1. UNCHANGED <<flash, written, fresh, writeAt, mapHeader>>
    BY <1>1, <1>9 DEF cache
  <2>2. (mapEntries').cells = cells
    <3>1. mapEntries' = [mapEntries EXCEPT !.cells = cells]
      BY <1>1, <1>9
    <3> QED BY <1>5, <3>1
  <2>3. clean /\ writeAt' = 0 => HoldsTable(written', landed)
    BY <2>1 DEF UploadInv
  <2>4. fresh' => channelMap' = Lookup(program)'
    BY <1>1, <2>1, FreshStays
  <2>5. ASSUME whole PROVE Parsed(tp, t + 1)'
    <3>1. gotEntries' = g /\ g = t - writeAt /\ g # count
      BY <1>1, <1>7, <1>9, <2>5
    <3>5. gotEntries' = (t + 1) - writeAt - 1
      BY <1>2, <3>1
    <3>6. gotEntries' < count
      <4> DEFINE n == count
      <4>1. n \in Nat /\ g <= n /\ g # n
        BY <1>5, <3>1
      <4> HIDE DEF n
      <4>2. g < n
        BY <1>2, <4>1
      <4> QED BY <3>1, <4>2 DEF n
    <3>2. count = tp[writeAt + 1].cell.count
      BY <1>7, <2>5
    <3>3. Waiting(tp, t + 1)'
      BY <1>5, <1>7, <2>1, <2>2, <2>5, <3>1, <3>2, <3>5, <3>6 DEF Waiting
    <3>4. ~(t + 1 <= 0) /\ writeAt' <= t + 1 /\ writeAt' # t + 1 /\ writeAt' = writeAt
      BY <1>2, <1>7, <2>1, <2>5
    <3> QED BY <1>7, <2>1, <2>5, <3>3, <3>4 DEF Parsed
  <2> QED BY <1>2, <2>3, <2>4, <2>5
<1> QED BY <1>8, <1>9

\* The flush finds the whole table written, and makes it last.
LEMMA FlushLands ==
  ASSUME TablesWellFormed, NvmInv, UploadInv, FlushUpload
  PROVE  UploadInv'
<1>0. PICK tp, t : tp = TablePackets(upload) /\ t = Received(tp, packets)
  OBVIOUS
<1>1. /\ Packet("flush") /\ Keep(FlushStore(Store)) /\ writeAt' = 0
      /\ UNCHANGED <<written, channel, upload, whole>>
      /\ IF upload = <<>> THEN UNCHANGED <<landed, clean>> ELSE landed' = upload /\ clean' = whole
  BY DEF FlushUpload
<1>2. packets' = <<>> /\ packets # <<>> /\ Len(packets) = 1
  <2>1. packets # <<>> /\ packets' = <<>>
    BY <1>1, PacketTaken DEF NvmInv, Packet
  <2>2. Len(packets) = Len(packets') + 1
    BY <1>1, PacketTaken DEF NvmInv
  <2>3. Len(<<>>) = 0
    OBVIOUS
  <2> QED BY <2>1, <2>2, <2>3
<1>3. flash' = written'
  BY <1>1, FlushUploadStep DEF Rows!Flush
<1>4. /\ upload \in Tables /\ landed \in Tables /\ (clean => whole)
      /\ whole => Parsed(tp, t)
      /\ clean /\ writeAt = 0 => HoldsTable(written, landed)
  BY <1>0, <1>2 DEF UploadInv
<1>5. tp \in Seq(TablePacketSet) /\ Len(tp) \in Nat /\ Followed(tp)
  BY <1>0, <1>4, TablesAre
<1>6. t = Len(tp)
  BY <1>0, <1>2, <1>5 DEF Received
<1>7. upload' \in Tables /\ landed' \in Tables /\ (clean' => whole')
  BY <1>1, <1>4
<1>8. fresh' => channelMap' = Lookup(program)'
  <2>1. fresh' => fresh /\ flash' = flash
    BY <1>1, KeepFresh
  <2> QED BY <1>1, <2>1, FreshStays
<1>9. ASSUME clean' PROVE HoldsTable(written', landed')
  <2>1. CASE upload = <<>>
    <3>1. clean /\ landed' = landed /\ whole
      BY <1>1, <1>4, <1>9, <2>1
    <3>2. t <= 0
      <4>1. tp = <<>>
        BY <1>0, <2>1 DEF TablePackets
      <4> QED BY <1>5, <1>6, <4>1, EmptySeq
    <3>3. writeAt = 0
      BY <1>4, <3>1, <3>2 DEF Parsed
    <3> QED BY <1>1, <1>4, <3>1, <3>3
  <2>2. CASE upload # <<>>
    <3>1. whole /\ landed' = upload
      BY <1>1, <1>9, <2>2
    <3>2. writeAt \in Nat /\ gotEntries \in Nat
      BY DEF NvmInv, ParserInv
    <3>3. \A c \in 1 .. t : written[c - 1] = tp[c].cell
      <4>1. t \in Int /\ 0 <= t /\ t <= Len(tp) /\ ~(t < Len(tp)) /\ Parsed(tp, t)
        BY <1>4, <1>5, <1>6, <3>1
      <4> QED BY <1>5, <3>2, <4>1, NothingWaits
    <3>4. HoldsTable(written, upload)
      BY <1>0, <1>6, <2>2, <3>3 DEF HoldsTable
    <3> QED BY <1>1, <3>1, <3>4
  <2> QED BY <2>1, <2>2
<1> QED BY <1>1, <1>2, <1>3, <1>7, <1>8, <1>9 DEF UploadInv

\* What the host is to send of an upload at its begin.
LEMMA PacketsAhead ==
  ASSUME NEW u \in Uploads
  PROVE  /\ Packets(u) # <<>> /\ Ahead(TablePackets(u.maps), Packets(u))
         /\ Received(TablePackets(u.maps), Packets(u)) <= 0
<1> DEFINE r == BlockPackets(u.blocks)
           tp == TablePackets(u.maps)
           f == <<[kind |-> "flush"]>>
           a == r \o tp
           s == Packets(u)
           n == Len(u.blocks)
           l == Len(tp)
<1>1. u.blocks \in Seq(CellValues) /\ u.maps \in Seq(Maps)
  BY NvmAssumption DEF Maps
<1>2. n \in Nat /\ DOMAIN u.blocks = 1 .. n /\ \A i \in 1 .. n : u.blocks[i] \in CellValues
  BY <1>1, LenProperties, ElementOfSeq
<1>3. /\ r \in Seq(SavedPacketSet) /\ Len(r) = n /\ \A i \in 1 .. n : r[i].kind = "block"
  <2>1. r \in [1 .. n -> SavedPacketSet]
    BY <1>2 DEF BlockPackets, BlockPacketSet, SavedPacketSet
  <2>2. \A i \in 1 .. n : r[i].kind = "block"
    BY <1>2 DEF BlockPackets
  <2> HIDE DEF r, n
  <2> QED BY <1>2, <2>1, <2>2, SeqDef, LenProperties
<1>4. tp \in Seq(SavedPacketSet) /\ l \in Nat
  <2>1. tp \in Seq(TablePacketSet)
    BY <1>1, TablePacketsGood
  <2>2. TablePacketSet \subseteq SavedPacketSet
    BY DEF SavedPacketSet
  <2> HIDE DEF tp
  <2> QED BY <2>1, <2>2, SeqMonotonic, LenProperties DEF l
<1>5. s = a \o f /\ f \in Seq(PacketSet) /\ Len(f) = 1
  BY DEF Packets, PacketSet, FlushPacketSet
<1> HIDE DEF r, tp, f, s, n
<1>6. /\ a \in Seq(SavedPacketSet) /\ Len(a) = n + l
      /\ \A i \in 1 .. n + l : a[i] = IF i <= n THEN r[i] ELSE tp[i - n]
  <2>1. /\ a \in Seq(SavedPacketSet) /\ Len(a) = Len(r) + Len(tp)
        /\ \A i \in 1 .. Len(r) + Len(tp) : a[i] = IF i <= Len(r) THEN r[i] ELSE tp[i - Len(r)]
    BY <1>3, <1>4, ConcatProperties
  <2> HIDE DEF a
  <2> QED BY <1>3, <2>1 DEF l
<1> HIDE DEF a, l
<1>7. a \in Seq(PacketSet)
  <2>1. SavedPacketSet \subseteq PacketSet
    BY DEF PacketSet
  <2> QED BY <1>6, <2>1, SeqMonotonic
<1>8. /\ Len(s) = n + l + 1
      /\ \A i \in 1 .. n + l : s[i] = a[i]
  <2>1. /\ Len(s) = Len(a) + Len(f)
        /\ \A i \in 1 .. Len(a) + Len(f) : s[i] = IF i <= Len(a) THEN a[i] ELSE f[i - Len(a)]
    BY <1>5, <1>7, ConcatProperties
  <2>2. \A i \in 1 .. n + l : i <= Len(a) /\ i \in 1 .. Len(a) + Len(f)
    BY <1>2, <1>4, <1>5, <1>6
  <2> QED BY <1>5, <1>6, <2>1, <2>2
<1>9. s # <<>>
  <2>1. Len(s) # 0
    BY <1>2, <1>4, <1>8
  <2> QED BY <2>1
<1>10. Received(tp, s) = l - (Len(s) - 1)
  BY DEF Received, l
<1> DEFINE t == Received(tp, s)
<1> HIDE DEF t
<1>11. t = 0 - n /\ t <= 0 /\ Len(s) - 1 = n + l
  BY <1>2, <1>4, <1>8, <1>10 DEF t
<1>12. ASSUME NEW k \in 1 .. Len(s) - 1
       PROVE  IF k + t >= 1 THEN s[k] = tp[k + t] ELSE s[k].kind = "block"
  <2>1. k \in 1 .. n + l /\ s[k] = a[k]
    BY <1>8, <1>11
  <2>2. CASE k <= n
    <3>1. ~(k + t >= 1) /\ k \in 1 .. n
      BY <1>2, <1>11, <2>1, <2>2
    <3> QED BY <1>3, <1>6, <2>1, <2>2, <3>1
  <2>3. CASE ~(k <= n)
    <3>1. k + t >= 1 /\ k + t = k - n
      BY <1>2, <1>11, <2>1, <2>3
    <3> QED BY <1>6, <2>1, <2>3, <3>1
  <2> QED BY <2>2, <2>3
<1>13. Ahead(tp, s)
  BY <1>12 DEF Ahead, t
<1> QED BY <1>9, <1>11, <1>13 DEF tp, s, t

\* A new upload has received nothing of its table yet.
LEMMA UploadLandsBegun ==
  ASSUME UploadInv, Upload, UNCHANGED <<cache, parser, channel, landed, fresh>>
  PROVE  UploadInv'
<1>1. PICK u \in Uploads : packets' = Packets(u) /\ upload' = u.maps
  BY DEF Upload
<1>2. UNCHANGED <<written, flash, writeAt, landed>> /\ whole' = (writeAt = 0) /\ clean' = (clean /\ whole')
  BY DEF Upload, cache, parser
<1>3. /\ packets' # <<>> /\ Ahead(TablePackets(upload), packets)'
      /\ Received(TablePackets(upload), packets)' <= 0
  BY <1>1, PacketsAhead
<1>4. upload' \in Tables /\ landed' \in Tables
  BY <1>1, <1>2 DEF UploadInv, Tables
<1>5. whole' => Parsed(TablePackets(upload), Received(TablePackets(upload), packets))'
  BY <1>2, <1>3 DEF Parsed
<1>6. clean' => whole'
  BY <1>2
<1>7. clean' /\ writeAt' = 0 => HoldsTable(written', landed')
  BY <1>2 DEF UploadInv
<1>8. fresh' => channelMap' = Lookup(program)'
  BY <1>2, FreshStays
<1> QED BY <1>3, <1>4, <1>5, <1>6, <1>7, <1>8 DEF UploadInv

\* A lookup leaves the upload alone.
LEMMA UploadLandsUnseen ==
  ASSUME UploadInv, UNCHANGED <<cache, parser, packets, upload, landed, whole, clean>>,
         fresh' => channelMap' = Lookup(program)'
  PROVE  UploadInv'
<1>1. UNCHANGED <<flash, written, writeAt, mapHeader, mapEntries, gotEntries>>
  BY DEF cache, parser
<1>2. packets' # <<>> => Ahead(TablePackets(upload), packets)'
  BY DEF UploadInv
<1>3. packets' # <<>> /\ whole' => Parsed(TablePackets(upload), Received(TablePackets(upload), packets))'
  BY <1>1 DEF UploadInv, Parsed, Waiting
<1> QED BY <1>1, <1>2, <1>3 DEF UploadInv

\* At first nothing has been sent, and the flash is blank.
LEMMA UploadLandsFirst ==
  ASSUME NvmInit
  PROVE  UploadInv
<1>1. /\ flash = [c \in FlashCells |-> Blank] /\ written = flash /\ writeAt = 0
      /\ packets = <<>> /\ upload = <<>> /\ landed = <<>> /\ whole = TRUE /\ clean = TRUE /\ fresh = FALSE
  BY DEF NvmInit
<1>2. HoldsTable(written, landed)
  <2>1. 0 \in FlashCells
    BY MapMemory, NvmAssumption
  <2> QED BY <1>1, <2>1 DEF HoldsTable
<1> QED BY <1>1, <1>2 DEF UploadInv, Tables

\* Every step keeps the invariant.
LEMMA UploadLandsStep ==
  ASSUME TablesWellFormed, NvmInv, UploadInv, [NvmNext]_nvmVars
  PROVE  UploadInv'
<1>1. CASE MinTask
  BY <1>1, WriteBlockLands, MapHeaderLands, MapEndLands, MapEntryLands, FlushLands DEF MinTask
<1>2. CASE Begin \/ Restart
  <2>1. Upload /\ UNCHANGED <<cache, parser, channel, landed, fresh>>
    BY <1>2 DEF Begin, Restart
  <2> QED BY <2>1, UploadLandsBegun
<1>3. CASE ProgramChange
  <2>1. UNCHANGED <<cache, parser, packets, upload, landed, whole, clean>> /\ channelMap' = Lookup(program')
    BY <1>3 DEF ProgramChange
  <2>2. Lookup(program') = Lookup(program)'
    BY <2>1 DEF cache, Lookup
  <2> QED BY <2>1, <2>2, UploadLandsUnseen
<1>4. CASE PlayNote
  <2>1. /\ UNCHANGED <<cache, parser, packets, program, upload, landed, whole, clean>>
        /\ channelMap' = Lookup(program)
    BY <1>4 DEF PlayNote
  <2>2. Lookup(program) = Lookup(program)'
    BY <2>1 DEF cache, Lookup
  <2> QED BY <2>1, <2>2, UploadLandsUnseen
<1>5. CASE UNCHANGED nvmVars
  <2>1. UNCHANGED <<cache, parser, channel, packets, upload, landed, whole, clean, fresh>>
    BY <1>5 DEF nvmVars
  <2>2. fresh' => channelMap' = Lookup(program)'
    BY <2>1, FreshStays DEF cache
  <2> QED BY <2>1, <2>2, UploadLandsUnseen
<1> QED BY <1>1, <1>2, <1>3, <1>4, <1>5 DEF NvmNext

\* What the invariant says of a channel that loads a program after the flush.
LEMMA InvLands ==
  ASSUME TablesWellFormed, NvmInv, UploadInv
  PROVE  UploadLands
<1>1. EntriesFit
  BY DEF NvmInv, EntriesFit
<1>2. ASSUME fresh, clean, packets = <<>>
      PROVE  Right(flash, landed, program, channelMap)
  <2>1. /\ landed \in Tables /\ flash = written /\ HoldsTable(written, landed)
        /\ channelMap = LookupIn(flash, program)
    BY <1>2 DEF UploadInv, Lookup
  <2>2. GoodTable(landed)
    BY <2>1, TablesAre
  <2> QED BY <2>1, <2>2, LookupFinds
<1> QED BY <1>1, <1>2 DEF UploadLands, Right

\* For every size of the rows and of the memories and every set of uploads whose tables are well
\* formed: once an upload is flushed, a channel that loads a program finds the first map the host
\* sent that covers it, with all of its entries, or the default map, however the uploads before
\* it ended, as long as the table was not begun behind the remains of another (NoteMapper.c:35).
THEOREM UploadAlwaysLands ==
  ASSUME TablesWellFormed
  PROVE  NvmSpec => []UploadLands
<1>1. NvmInit => UploadInv
  BY UploadLandsFirst
<1>2. NvmInv /\ UploadInv /\ [NvmNext]_nvmVars => UploadInv'
  BY UploadLandsStep
<1>3. NvmInv /\ UploadInv => UploadLands
  BY InvLands
<1> QED BY <1>1, <1>2, <1>3, NvmInvariance, PTL DEF NvmSpec

-----------------------------------------------------------------------------
(* The EEPROM: the layout of a dataset *)

Parameters == [id : STRING, size : Nat \ {0}]

\* Each header follows the bytes of the parameter before it.
Follow(h, fw, n) == h[1] = 2 /\ \A k \in 1 .. n : h[k + 1] = h[k] + 1 + fw[k].size

\* What a firmware is.
LEMMA ParameterTyped ==
  ASSUME NEW fw \in Firmwares
  PROVE  /\ fw \in Seq(Parameters) /\ Len(fw) \in Nat \ {0} /\ DOMAIN fw = 1 .. Len(fw)
         /\ \A k \in 1 .. Len(fw) : fw[k].id \in STRING /\ fw[k].size \in Nat /\ fw[k].size # 0
         /\ \A k, l \in 1 .. Len(fw) : fw[k].id = fw[l].id => k = l
         /\ EndAt(fw) <= RomSize
<1>1. /\ fw \in Seq(Parameters) /\ fw # <<>>
      /\ \A k, l \in 1 .. Len(fw) : fw[k].id = fw[l].id => k = l
      /\ EndAt(fw) <= RomSize
  BY EepromAssumption DEF Parameters
<1>2. Len(fw) \in Nat \ {0} /\ DOMAIN fw = 1 .. Len(fw)
  BY <1>1, EmptySeq, LenProperties
<1>3. \A k \in 1 .. Len(fw) : fw[k] \in Parameters
  BY <1>1, ElementOfSeq
<1>4. \A p \in Parameters : p.id \in STRING /\ p.size \in Nat /\ p.size # 0
  BY DEF Parameters
<1> QED BY <1>1, <1>2, <1>3, <1>4

LEMMA HeadersExist ==
  ASSUME NEW fw \in Firmwares
  PROVE  \A n \in Nat : n <= Len(fw) => \E h \in [1 .. n + 1 -> Nat] : Follow(h, fw, n)
<1> DEFINE S == {n \in Nat : n <= Len(fw) => \E h \in [1 .. n + 1 -> Nat] : Follow(h, fw, n)}
<1>1. 0 \in S
  <2> DEFINE h == [k \in 1 .. 1 |-> 2]
  <2>1. h \in [1 .. 0 + 1 -> Nat] /\ Follow(h, fw, 0)
    BY DEF Follow
  <2> HIDE DEF h
  <2> QED BY <2>1
<1>2. ASSUME NEW n \in Nat, n \in S PROVE n + 1 \in S
  <2> SUFFICES ASSUME n + 1 <= Len(fw)
               PROVE  \E h \in [1 .. (n + 1) + 1 -> Nat] : Follow(h, fw, n + 1)
    BY <1>2
  <2>0. Len(fw) \in Nat /\ n <= Len(fw) /\ n + 1 \in 1 .. Len(fw) /\ fw[n + 1].size \in Nat
    BY ParameterTyped
  <2>1. PICK g \in [1 .. n + 1 -> Nat] : Follow(g, fw, n)
    BY <1>2, <2>0
  <2> DEFINE last == g[n + 1] + 1 + fw[n + 1].size
             h == [k \in 1 .. (n + 1) + 1 |-> IF k <= n + 1 THEN g[k] ELSE last]
  <2>2. last \in Nat
    BY <2>0
  <2>3. h \in [1 .. (n + 1) + 1 -> Nat] /\ h[(n + 1) + 1] = last /\ \A k \in 1 .. n + 1 : h[k] = g[k]
    <3> HIDE DEF last
    <3> QED BY <2>2
  <2> HIDE DEF h
  <2>4. Follow(h, fw, n + 1)
    <3>1. h[1] = 2
      BY <2>1, <2>3 DEF Follow
    <3>2. ASSUME NEW k \in 1 .. n + 1 PROVE h[k + 1] = h[k] + 1 + fw[k].size
      <4>1. CASE k = n + 1
        BY <2>3, <4>1
      <4>2. CASE k # n + 1
        <5>1. k \in 1 .. n /\ k + 1 \in 1 .. n + 1 /\ k \in 1 .. n + 1
          BY <4>2
        <5> QED BY <2>1, <2>3, <5>1 DEF Follow
      <4> QED BY <4>1, <4>2
    <3> QED BY <3>1, <3>2 DEF Follow
  <2> QED BY <2>3, <2>4
<1> HIDE DEF S
<1>3. Nat \subseteq S
  BY <1>1, <1>2, EveryNumber
<1> QED BY <1>3 DEF S

\* The headers stand as HeaderAt says, one behind the other.
LEMMA HeadersFollow ==
  ASSUME NEW fw \in Firmwares
  PROVE  /\ \A k \in 1 .. Len(fw) + 1 : HeaderAt(fw)[k] \in Nat /\ HeaderAt(fw)[k] > k
         /\ HeaderAt(fw)[1] = 2
         /\ \A k \in 1 .. Len(fw) : HeaderAt(fw)[k + 1] = HeaderAt(fw)[k] + 1 + fw[k].size
<1> DEFINE step(h, k) == IF k = 1 THEN 2 ELSE h[k - 1] + 1 + fw[k - 1].size
           Defined(h) == h = [k \in 1 .. Len(fw) + 1 |-> step(h, k)]
<1>0. Len(fw) \in Nat
  BY ParameterTyped
<1>1. PICK g \in [1 .. Len(fw) + 1 -> Nat] : Follow(g, fw, Len(fw))
  BY HeadersExist, <1>0
<1>2. \A k \in 1 .. Len(fw) + 1 : g[k] = step(g, k)
  <2> TAKE k \in 1 .. Len(fw) + 1
  <2>1. CASE k = 1
    BY <1>1, <2>1 DEF Follow
  <2>2. CASE k # 1
    <3>1. k - 1 \in 1 .. Len(fw) /\ (k - 1) + 1 = k
      BY <1>0, <2>2
    <3>2. g[(k - 1) + 1] = g[k - 1] + 1 + fw[k - 1].size
      BY <1>1, <3>1 DEF Follow
    <3> QED BY <2>2, <3>1, <3>2
  <2> QED BY <2>1, <2>2
<1>3. Defined(g)
  <2> HIDE DEF step
  <2> QED BY <1>1, <1>2
<1>4. HeaderAt(fw) = CHOOSE h : Defined(h)
  BY DEF HeaderAt
<1>5. Defined(HeaderAt(fw))
  <2> HIDE DEF Defined
  <2> QED BY <1>3, <1>4
<1>6. \A k \in 1 .. Len(fw) + 1 : HeaderAt(fw)[k] = step(HeaderAt(fw), k)
  <2> DEFINE h == HeaderAt(fw)
  <2>1. h = [k \in 1 .. Len(fw) + 1 |-> step(h, k)]
    BY <1>5
  <2> HIDE DEF step, h
  <2>2. \A k \in 1 .. Len(fw) + 1 : h[k] = step(h, k)
    BY <2>1
  <2> QED BY <2>2 DEF h
<1>7. HeaderAt(fw)[1] = 2
  BY <1>0, <1>6
<1>8. ASSUME NEW k \in 1 .. Len(fw)
      PROVE  HeaderAt(fw)[k + 1] = HeaderAt(fw)[k] + 1 + fw[k].size
  <2>1. k + 1 \in 1 .. Len(fw) + 1 /\ k + 1 # 1 /\ (k + 1) - 1 = k
    BY <1>0
  <2> QED BY <1>6, <2>1
<1> DEFINE S == {n \in Nat : n <= Len(fw) => HeaderAt(fw)[n + 1] \in Nat /\ HeaderAt(fw)[n + 1] > n + 1}
<1>9. 0 \in S
  BY <1>7
<1>10. ASSUME NEW n \in Nat, n \in S PROVE n + 1 \in S
  <2> SUFFICES ASSUME n + 1 <= Len(fw)
               PROVE  HeaderAt(fw)[(n + 1) + 1] \in Nat /\ HeaderAt(fw)[(n + 1) + 1] > (n + 1) + 1
    OBVIOUS
  <2>1. n <= Len(fw) /\ n + 1 \in 1 .. Len(fw) /\ fw[n + 1].size \in Nat
    BY <1>0, ParameterTyped
  <2>2. HeaderAt(fw)[n + 1] \in Nat /\ HeaderAt(fw)[n + 1] > n + 1
    BY <1>10, <2>1
  <2>3. HeaderAt(fw)[(n + 1) + 1] = HeaderAt(fw)[n + 1] + 1 + fw[n + 1].size
    BY <1>8, <2>1
  <2> QED BY <2>1, <2>2, <2>3
<1> HIDE DEF S
<1>11. Nat \subseteq S
  BY <1>9, <1>10, EveryNumber
<1>12. ASSUME NEW k \in 1 .. Len(fw) + 1 PROVE HeaderAt(fw)[k] \in Nat /\ HeaderAt(fw)[k] > k
  <2>1. k - 1 \in Nat /\ k - 1 <= Len(fw) /\ (k - 1) + 1 = k
    BY <1>0
  <2> QED BY <1>11, <2>1 DEF S
<1> QED BY <1>7, <1>8, <1>12

LEMMA HeadersAscend ==
  ASSUME NEW fw \in Firmwares
  PROVE  \A k \in 1 .. Len(fw), l \in 1 .. Len(fw) + 1 :
           k < l => HeaderAt(fw)[k] + 1 + fw[k].size <= HeaderAt(fw)[l]
<1> DEFINE at == HeaderAt(fw)
           S == {n \in Nat : \A k \in 1 .. Len(fw) :
                               k + 1 + n <= Len(fw) + 1 => at[k] + 1 + fw[k].size <= at[k + 1 + n]}
<1>0. /\ Len(fw) \in Nat /\ \A k \in 1 .. Len(fw) + 1 : at[k] \in Nat
      /\ \A k \in 1 .. Len(fw) : fw[k].size \in Nat /\ at[k + 1] = at[k] + 1 + fw[k].size
  BY ParameterTyped, HeadersFollow
<1> HIDE DEF at
<1>1. 0 \in S
  BY <1>0
<1>2. ASSUME NEW n \in Nat, n \in S PROVE n + 1 \in S
  <2> SUFFICES ASSUME NEW k \in 1 .. Len(fw), k + 1 + (n + 1) <= Len(fw) + 1
               PROVE  at[k] + 1 + fw[k].size <= at[k + 1 + (n + 1)]
    BY DEF S
  <2> DEFINE m == k + 1 + n
  <2>1. m \in 1 .. Len(fw) /\ k + 1 + (n + 1) = m + 1 /\ m <= Len(fw) + 1
        /\ m \in 1 .. Len(fw) + 1 /\ m + 1 \in 1 .. Len(fw) + 1 /\ k \in 1 .. Len(fw) + 1
    BY <1>0
  <2>2. at[k] + 1 + fw[k].size <= at[m]
    BY <1>2, <2>1
  <2>3. at[m + 1] = at[m] + 1 + fw[m].size /\ at[m] \in Nat /\ fw[m].size \in Nat
    BY <1>0, <2>1
  <2>4. at[k] \in Nat /\ fw[k].size \in Nat
    BY <1>0, <2>1
  <2>5. at[k + 1 + (n + 1)] = at[m + 1]
    BY <2>1, Zenon
  <2> DEFINE x == at[k] + 1 + fw[k].size
  <2> HIDE DEF m
  <2>6. x \in Nat
    BY <2>4
  <2>7. x <= at[m]
    BY <2>2
  <2>8. at[m + 1] \in Nat /\ at[m] \in Nat /\ at[m] <= at[m + 1]
    BY <2>3
  <2> HIDE DEF x
  <2>9. x <= at[m + 1]
    BY <2>6, <2>7, <2>8
  <2> QED BY <2>5, <2>9 DEF x
<1> HIDE DEF S
<1>3. Nat \subseteq S
  BY <1>1, <1>2, EveryNumber
<1>4. ASSUME NEW k \in 1 .. Len(fw), NEW l \in 1 .. Len(fw) + 1, k < l
      PROVE  at[k] + 1 + fw[k].size <= at[l]
  <2>1. l - k - 1 \in Nat /\ k + 1 + (l - k - 1) = l
    BY <1>0, <1>4
  <2>2. at[k + 1 + (l - k - 1)] = at[l]
    BY <2>1, Zenon
  <2>3. k + 1 + (l - k - 1) <= Len(fw) + 1 /\ l - k - 1 \in S
    BY <1>0, <1>3, <2>1
  <2> QED BY <2>2, <2>3 DEF S
<1> QED BY <1>4 DEF at

\* The number of a parameter and the cell of its header.
IndexOf(fw, id)  == CHOOSE k \in 1 .. Len(fw) : fw[k].id = id
HeaderCell(fw, id) == HeaderAt(fw)[IndexOf(fw, id)]

LEMMA NamesAndNumbers ==
  ASSUME NEW fw \in Firmwares
  PROVE  /\ \A id \in Ids(fw) : /\ IndexOf(fw, id) \in 1 .. Len(fw) /\ fw[IndexOf(fw, id)].id = id
                                /\ SizeOf(fw, id) = fw[IndexOf(fw, id)].size
                                /\ SizeOf(fw, id) \in Nat /\ SizeOf(fw, id) # 0
         /\ \A k \in 1 .. Len(fw) : fw[k].id \in Ids(fw) /\ IndexOf(fw, fw[k].id) = k
<1>1. ASSUME NEW id \in Ids(fw)
      PROVE  IndexOf(fw, id) \in 1 .. Len(fw) /\ fw[IndexOf(fw, id)].id = id
  BY DEF IndexOf, Ids
<1>2. ASSUME NEW id PROVE SizeOf(fw, id) = fw[IndexOf(fw, id)].size
  BY DEF SizeOf, IndexOf
<1>3. \A k \in 1 .. Len(fw) : fw[k].size \in Nat /\ fw[k].size # 0
  BY ParameterTyped
<1>4. ASSUME NEW k \in 1 .. Len(fw) PROVE fw[k].id \in Ids(fw) /\ IndexOf(fw, fw[k].id) = k
  <2>1. fw[k].id \in Ids(fw)
    BY DEF Ids
  <2> QED BY <1>1, <2>1, ParameterTyped
<1> QED BY <1>1, <1>2, <1>3, <1>4

\* Each byte of a parameter is a cell of the dataset: the one Place has it at.
LEMMA PlaceOfByte ==
  ASSUME NEW fw \in Firmwares, NEW id \in Ids(fw), NEW i \in 0 .. SizeOf(fw, id)
  PROVE  /\ HeaderCell(fw, id) \in Nat /\ HeaderCell(fw, id) >= 2
         /\ HeaderCell(fw, id) + i \in 2 .. EndAt(fw) - 1
         /\ Place(fw, HeaderCell(fw, id) + i) = <<id, i>>
<1> DEFINE at == HeaderAt(fw)
           n == IndexOf(fw, id)
           s == SizeOf(fw, id)
           L == Len(fw)
           a == at[n] + i
           In(k) == at[k] <= a /\ a < at[k + 1]
<1>1. /\ L \in Nat \ {0} /\ n \in 1 .. L /\ fw[n].id = id /\ fw[n].size = s /\ s \in Nat
      /\ \A k \in 1 .. L : fw[k].size \in Nat
  BY NamesAndNumbers, ParameterTyped
<1>2. \A k \in 1 .. L, l \in 1 .. L + 1 : k < l => at[k] + 1 + fw[k].size <= at[l]
  BY HeadersAscend
<1>3. /\ \A k \in 1 .. L + 1 : at[k] \in Nat
      /\ at[1] = 2 /\ \A k \in 1 .. L : at[k + 1] = at[k] + 1 + fw[k].size
  BY HeadersFollow
<1>4. EndAt(fw) = at[L + 1] /\ HeaderCell(fw, id) = at[n]
  BY DEF EndAt, HeaderCell
<1>5. Place(fw, a) = LET k == CHOOSE k \in 1 .. L : In(k) IN <<fw[k].id, a - at[k]>>
  BY DEF Place
<1> HIDE DEF at, n, s, L
<1>6. n \in 1 .. L + 1 /\ 1 \in 1 .. L /\ L + 1 \in 1 .. L + 1 /\ n < L + 1 /\ (n # 1 => 1 < n)
  BY <1>1
<1>7. at[n] \in Nat /\ at[n] >= 2
  BY <1>1, <1>2, <1>3, <1>6
<1>8. a \in Nat /\ a >= 2 /\ a < at[L + 1] /\ at[L + 1] \in Nat
  BY <1>1, <1>2, <1>3, <1>6, <1>7 DEF s
<1>9. In(n)
  BY <1>1, <1>3, <1>7 DEF s
<1>10. ASSUME NEW k \in 1 .. L, In(k) PROVE k = n
  <2>1. k \in Nat /\ n \in Nat /\ k + 1 \in 1 .. L + 1 /\ n + 1 \in 1 .. L + 1 /\ k \in 1 .. L + 1
    BY <1>1
  <2>2. CASE k < n
    <3>1. at[k] + 1 + fw[k].size <= at[n]
      BY <1>1, <1>2, <1>6, <2>2
    <3>2. at[k + 1] <= at[n]
      BY <1>3, <3>1
    <3> QED BY <1>3, <1>7, <1>8, <1>10, <2>1, <3>2
  <2>3. CASE n < k
    <3>1. at[n] + 1 + fw[n].size <= at[k]
      BY <1>1, <1>2, <2>1, <2>3
    <3>2. at[n + 1] <= at[k]
      BY <1>1, <1>3, <3>1
    <3> QED BY <1>3, <1>9, <1>8, <1>10, <2>1, <3>2
  <2> QED BY <2>1, <2>2, <2>3
<1> HIDE DEF In
<1>11. (CHOOSE k \in 1 .. L : In(k)) = n
  BY <1>1, <1>9, <1>10
<1>12. Place(fw, a) = <<fw[n].id, a - at[n]>>
  BY <1>5, <1>11
<1>13. a - at[n] = i
  BY <1>7
<1> QED BY <1>1, <1>4, <1>7, <1>8, <1>12, <1>13

\* Each cell between the mark and the end is a byte of a parameter.
LEMMA ByteOfPlace ==
  ASSUME NEW fw \in Firmwares, NEW a \in 2 .. EndAt(fw) - 1
  PROVE  /\ Place(fw, a)[1] \in Ids(fw) /\ Place(fw, a)[2] \in 0 .. SizeOf(fw, Place(fw, a)[1])
         /\ a = HeaderCell(fw, Place(fw, a)[1]) + Place(fw, a)[2]
<1> DEFINE at == HeaderAt(fw)
           L == Len(fw)
           S == {k \in Nat : k \in 1 .. L /\ a < at[k + 1]}
<1>1. /\ L \in Nat \ {0} /\ \A k \in 1 .. L : fw[k].size \in Nat
      /\ \A k \in 1 .. L + 1 : at[k] \in Nat
      /\ at[1] = 2 /\ \A k \in 1 .. L : at[k + 1] = at[k] + 1 + fw[k].size
  BY ParameterTyped, HeadersFollow
<1>2. a < at[L + 1] /\ at[L + 1] \in Nat /\ a \in Nat /\ a >= 2
  BY <1>1 DEF EndAt
<1> HIDE DEF at, L
<1>3. L \in S
  BY <1>1, <1>2
<1>4. PICK k \in S : \A m \in S : k <= m
  BY <1>3, LeastNumber
<1>5. k \in 1 .. L /\ a < at[k + 1] /\ k \in 1 .. L + 1 /\ at[k] \in Nat
  BY <1>1, <1>4
<1>6. at[k] <= a
  <2>1. CASE k = 1
    BY <1>1, <1>2, <2>1
  <2>2. CASE k # 1
    <3>1. k - 1 \in 1 .. L /\ (k - 1) + 1 = k /\ ~(k <= k - 1)
      BY <1>1, <1>5, <2>2
    <3>2. ~(a < at[(k - 1) + 1])
      BY <1>4, <3>1
    <3> QED BY <1>2, <1>5, <3>1, <3>2
  <2> QED BY <2>1, <2>2
<1>7. a - at[k] \in 0 .. fw[k].size /\ a = at[k] + (a - at[k])
  BY <1>1, <1>2, <1>5, <1>6
<1>8. /\ fw[k].id \in Ids(fw) /\ IndexOf(fw, fw[k].id) = k /\ SizeOf(fw, fw[k].id) = fw[k].size
      /\ HeaderCell(fw, fw[k].id) = at[k]
  BY <1>5, NamesAndNumbers DEF HeaderCell, at, L
<1>9. Place(fw, at[k] + (a - at[k])) = <<fw[k].id, a - at[k]>>
  BY <1>7, <1>8, PlaceOfByte
<1> QED BY <1>7, <1>8, <1>9

-----------------------------------------------------------------------------
(* Reading a dataset *)

HeaderFor(fw, id) == Header([id |-> id, size |-> SizeOf(fw, id)])

\* The EEPROM has the marks of a dataset of fw, whatever the bytes of its parameters are.
Bears(fw) ==
    /\ rom[1] = Begins /\ rom[EndAt(fw)] = Ends
    /\ \A id \in Ids(fw) : rom[HeaderCell(fw, id)] = HeaderFor(fw, id)

\* A reader finds exactly the headers.
LEMMA RecordsAre ==
  ASSUME NEW fw \in Firmwares, Bears(fw)
  PROVE  Records = {<<HeaderCell(fw, id), HeaderFor(fw, id)>> : id \in Ids(fw)}
<1> DEFINE at == HeaderAt(fw)
           L == Len(fw)
           last(a) == a > RomSize \/ Stored(a).kind = "end"
           next(a) == IF last(a) THEN a ELSE a + 1 + Stored(a).size
           place(n) == at[IF n < L THEN n + 1 ELSE L + 1]
           step(h, n) == IF n = 0 THEN 2 ELSE next(h[n - 1])
           Walks(h) == h = [n \in 0 .. RomSize |-> step(h, n)]
           walk == CHOOSE h : Walks(h)
           w == [n \in 0 .. RomSize |-> place(n)]
<1>1. /\ L \in Nat \ {0} /\ RomSize \in Nat
      /\ \A k \in 1 .. L : fw[k].size \in Nat
      /\ \A k \in 1 .. L + 1 : at[k] \in Nat /\ at[k] > k
      /\ at[1] = 2 /\ \A k \in 1 .. L : at[k + 1] = at[k] + 1 + fw[k].size
      /\ at[L + 1] <= RomSize
  BY EepromAssumption, ParameterTyped, HeadersFollow DEF EndAt
<1>2. ASSUME NEW k \in 1 .. L
      PROVE  /\ fw[k].id \in Ids(fw) /\ HeaderCell(fw, fw[k].id) = at[k]
             /\ Stored(at[k]) = HeaderFor(fw, fw[k].id)
             /\ ~last(at[k]) /\ next(at[k]) = at[k + 1]
  <2>1. fw[k].id \in Ids(fw) /\ IndexOf(fw, fw[k].id) = k /\ SizeOf(fw, fw[k].id) = fw[k].size
    BY NamesAndNumbers
  <2>2. HeaderCell(fw, fw[k].id) = at[k]
    BY <2>1 DEF HeaderCell
  <2>3. 0 \in 0 .. SizeOf(fw, fw[k].id) /\ at[k] \in Nat
    BY <1>1, <2>1
  <2>4. at[k] + 0 \in 2 .. EndAt(fw) - 1
    BY <2>1, <2>2, <2>3, PlaceOfByte
  <2>45. L + 1 \in 1 .. L + 1 /\ EndAt(fw) = at[L + 1]
    BY <1>1 DEF EndAt
  <2>46. EndAt(fw) \in Nat /\ EndAt(fw) <= RomSize
    BY <1>1, <2>45
  <2>5. at[k] \in RomCells
    BY <1>1, <2>3, <2>4, <2>46 DEF RomCells
  <2>6. Stored(at[k]) = HeaderFor(fw, fw[k].id)
    BY <2>1, <2>2, <2>5 DEF Stored, Bears
  <2>7. Stored(at[k]).kind = "record" /\ Stored(at[k]).size = fw[k].size
    BY <2>1, <2>6 DEF HeaderFor, Header
  <2>8. ~(at[k] > RomSize)
    BY <1>1, <2>3, <2>4, <2>46
  <2>9. at[k + 1] = at[k] + 1 + fw[k].size
    BY <1>1
  <2> QED BY <2>1, <2>2, <2>6, <2>7, <2>8, <2>9
<1>3. last(at[L + 1]) /\ next(at[L + 1]) = at[L + 1]
  <2>1. at[L + 1] \in RomCells
    BY <1>1 DEF RomCells
  <2>2. Stored(at[L + 1]) = Ends
    BY <2>1 DEF Stored, Bears, EndAt
  <2> QED BY <2>2 DEF Ends
<1>4. Records = {<<walk[n], Stored(walk[n])>> : n \in {m \in 0 .. RomSize : rom[1] = Begins /\ ~last(walk[m])}}
  BY DEF Records
<1>5. rom[1] = Begins
  BY DEF Bears
<1> HIDE DEF at, L, last, next
<1>6. \A n \in Nat : n < L => place(n + 1) = next(place(n)) /\ n + 1 \in 1 .. L /\ place(n) = at[n + 1]
  <2> TAKE n \in Nat
  <2> SUFFICES ASSUME n < L
               PROVE  place(n + 1) = next(place(n)) /\ n + 1 \in 1 .. L /\ place(n) = at[n + 1]
    OBVIOUS
  <2>1. n + 1 \in 1 .. L /\ place(n) = at[n + 1]
    BY <1>1
  <2>2. place(n + 1) = at[(n + 1) + 1]
    <3>1. (IF n + 1 < L THEN (n + 1) + 1 ELSE L + 1) = (n + 1) + 1
      BY <1>1, <2>1
    <3> QED BY <3>1, Zenon
  <2> QED BY <1>2, <2>1, <2>2
<1>7. \A n \in Nat : ~(n < L) => place(n + 1) = next(place(n)) /\ place(n) = at[L + 1]
  <2> TAKE n \in Nat
  <2> SUFFICES ASSUME ~(n < L) PROVE place(n + 1) = next(place(n)) /\ place(n) = at[L + 1]
    OBVIOUS
  <2>1. ~(n + 1 < L)
    BY <1>1
  <2> QED BY <1>3, <2>1
<1>8. place(0) = 2
  <2>1. (IF 0 < L THEN 0 + 1 ELSE L + 1) = 1
    BY <1>1
  <2> QED BY <1>1, <2>1, Zenon
<1>9. \A n \in Nat : place(n + 1) = next(place(n))
  BY <1>6, <1>7
<1> HIDE DEF place
<1>10. Walks(w)
  <2>1. ASSUME NEW n \in 0 .. RomSize PROVE place(n) = step(w, n)
    <3>1. CASE n = 0
      BY <1>8, <3>1
    <3>2. CASE n # 0
      <4>1. n - 1 \in 0 .. RomSize /\ n - 1 \in Nat /\ (n - 1) + 1 = n
        BY <1>1, <3>2
      <4>2. w[n - 1] = place(n - 1)
        BY <4>1
      <4>3. place((n - 1) + 1) = next(place(n - 1))
        BY <1>9, <4>1
      <4> QED BY <3>2, <4>1, <4>2, <4>3
    <3> QED BY <3>1, <3>2
  <2> HIDE DEF step
  <2>2. [n \in 0 .. RomSize |-> place(n)] = [n \in 0 .. RomSize |-> step(w, n)]
    BY <2>1, Zenon
  <2> QED BY <2>2
<1>11. Walks(walk)
  <2> HIDE DEF Walks, w
  <2> QED BY <1>10
<1>12. \A n \in 0 .. RomSize : walk[n] = step(walk, n)
  <2> HIDE DEF walk, step
  <2> QED BY <1>11
<1> HIDE DEF walk
<1> DEFINE S == {n \in Nat : n <= RomSize => walk[n] = place(n)}
<1>13. 0 \in S
  BY <1>1, <1>8, <1>12
<1>14. ASSUME NEW n \in Nat, n \in S PROVE n + 1 \in S
  <2> SUFFICES ASSUME n + 1 <= RomSize PROVE walk[n + 1] = place(n + 1)
    OBVIOUS
  <2>1. n + 1 \in 0 .. RomSize /\ n + 1 # 0 /\ (n + 1) - 1 = n /\ walk[n] = place(n)
    BY <1>1, <1>14
  <2>2. walk[n + 1] = next(walk[n])
    BY <1>12, <2>1
  <2> QED BY <1>9, <2>1, <2>2
<1> HIDE DEF S
<1>15. Nat \subseteq S
  BY <1>13, <1>14, EveryNumber
<1>16. \A n \in 0 .. RomSize : n \in Nat /\ walk[n] = place(n)
  BY <1>1, <1>15 DEF S
<1>17. ASSUME NEW r \in Records PROVE \E id \in Ids(fw) : r = <<HeaderCell(fw, id), HeaderFor(fw, id)>>
  <2>1. PICK n \in 0 .. RomSize : ~last(walk[n]) /\ r = <<walk[n], Stored(walk[n])>>
    BY <1>4
  <2>2. n < L
    BY <1>3, <1>7, <1>16, <2>1
  <2>3. n + 1 \in 1 .. L /\ walk[n] = at[n + 1]
    BY <1>6, <1>16, <2>2
  <2> QED BY <1>2, <2>1, <2>3
<1>18. ASSUME NEW id \in Ids(fw) PROVE <<HeaderCell(fw, id), HeaderFor(fw, id)>> \in Records
  <2>1. PICK k \in 1 .. L : fw[k].id = id
    BY DEF Ids, L
  <2>2. k - 1 \in Nat /\ k - 1 < L /\ (k - 1) + 1 = k /\ k - 1 \in 0 .. RomSize
    <3>1. k \in 1 .. L + 1 /\ L + 1 \in 1 .. L + 1
      BY <1>1
    <3>2. at[L + 1] > L + 1 /\ at[L + 1] \in Nat
      BY <1>1, <3>1
    <3> QED BY <1>1, <3>2
  <2>3. walk[k - 1] = at[k]
    BY <1>6, <1>16, <2>2
  <2>4. <<walk[k - 1], Stored(walk[k - 1])>> = <<HeaderCell(fw, id), HeaderFor(fw, id)>> /\ ~last(walk[k - 1])
    BY <1>2, <2>1, <2>3
  <2> QED BY <1>4, <1>5, <2>2, <2>4
<1> QED BY <1>17, <1>18

\* What firmware g finds in a dataset of fw: the bytes behind the header of that name, when
\* the size is its own; and no complaint only if it has each name and size.
LEMMA FoundIn ==
  ASSUME NEW fw \in Firmwares, Bears(fw), NEW g, NEW id
  PROVE  /\ id \in Ids(fw) /\ SizeOf(g, id) = SizeOf(fw, id) =>
              Found(g, id) = [i \in 1 .. SizeOf(fw, id) |-> Stored(HeaderCell(fw, id) + i).size]
         /\ NoComplaint(g) /\ id \in Ids(g) => id \in Ids(fw) /\ SizeOf(g, id) = SizeOf(fw, id)
<1> DEFINE r == <<HeaderCell(fw, id), HeaderFor(fw, id)>>
<1>1. Records = {<<HeaderCell(fw, d), HeaderFor(fw, d)>> : d \in Ids(fw)}
  BY RecordsAre
<1>2. \A d : HeaderFor(fw, d) = [kind |-> "record", id |-> d, size |-> SizeOf(fw, d)]
  BY DEF HeaderFor, Header
<1>3. \A d : HeaderFor(fw, d).kind = "record" /\ HeaderFor(fw, d).id = d /\ HeaderFor(fw, d).size = SizeOf(fw, d)
  BY <1>2
<1>4. \A q \in Named(id) : id \in Ids(fw) /\ q = r
  <2> TAKE q \in Named(id)
  <2>1. q \in Records /\ q[2].id = id
    BY DEF Named
  <2>2. PICK d \in Ids(fw) : q = <<HeaderCell(fw, d), HeaderFor(fw, d)>>
    BY <1>1, <2>1
  <2> QED BY <1>3, <2>1, <2>2
<1>5. id \in Ids(fw) => r \in Named(id)
  BY <1>1, <1>3 DEF Named
<1>6. id \in Ids(fw) /\ SizeOf(g, id) = SizeOf(fw, id) => Fitting(g, id) = {r}
  BY <1>3, <1>4, <1>5 DEF Fitting
<1>7. ASSUME id \in Ids(fw), SizeOf(g, id) = SizeOf(fw, id)
      PROVE  Found(g, id) = [i \in 1 .. SizeOf(fw, id) |-> Stored(HeaderCell(fw, id) + i).size]
  <2>0. HeaderCell(fw, id) \in Nat
    <3>1. 0 \in 0 .. SizeOf(fw, id)
      BY <1>7, NamesAndNumbers
    <3> QED BY <1>7, <3>1, PlaceOfByte
  <2>1. r[1] = HeaderCell(fw, id) /\ HeaderCell(fw, id) <= HeaderCell(fw, id)
    BY <2>0
  <2>2. Latest({r}) = r
    BY <2>1 DEF Latest
  <2>3. Fitting(g, id) = {r} /\ Fitting(g, id) # {}
    BY <1>6, <1>7
  <2>4. Latest(Fitting(g, id))[1] = HeaderCell(fw, id)
    BY <2>1, <2>2, <2>3
  <2>5. Found(g, id) = [i \in 1 .. SizeOf(g, id) |-> Stored(Latest(Fitting(g, id))[1] + i).size]
    BY <2>3 DEF Found
  <2> QED BY <1>7, <2>4, <2>5
<1>8. ASSUME NoComplaint(g), id \in Ids(g)
      PROVE  id \in Ids(fw) /\ SizeOf(g, id) = SizeOf(fw, id)
  <2>1. Named(id) # {} /\ Named(id) = Fitting(g, id)
    BY <1>8 DEF NoComplaint
  <2>2. r \in Fitting(g, id) /\ id \in Ids(fw)
    BY <1>4, <2>1
  <2> QED BY <1>3, <2>2 DEF Fitting
<1> QED BY <1>7, <1>8

\* The values of a firmware: as many bytes for each of its parameters as it has.
Shaped(fw, val) ==
    /\ DOMAIN val = Ids(fw)
    /\ \A id \in Ids(fw) : val[id] = [i \in 1 .. SizeOf(fw, id) |-> val[id][i]]

\* What is read fits, whatever is read.
LEMMA LoadedFits ==
  ASSUME NEW fw \in Firmwares, NEW old, Shaped(fw, old)
  PROVE  Shaped(fw, LoadedOver(fw, old))
<1> DEFINE new == LoadedOver(fw, old)
           byte(id, i) == Stored(Latest(Fitting(fw, id))[1] + i).size
<1>1. DOMAIN new = Ids(fw) /\ \A id \in Ids(fw) : new[id] = IF Found(fw, id) = <<>> THEN old[id] ELSE Found(fw, id)
  BY DEF LoadedOver
<1> HIDE DEF new
<1>2. ASSUME NEW id \in Ids(fw)
      PROVE  new[id] = [i \in 1 .. SizeOf(fw, id) |-> new[id][i]]
  <2>1. CASE Found(fw, id) = <<>>
    BY <1>1, <2>1 DEF Shaped
  <2>2. CASE Found(fw, id) # <<>>
    <3>1. Found(fw, id) = [i \in 1 .. SizeOf(fw, id) |-> byte(id, i)]
      BY <2>2 DEF Found
    <3>2. new[id] = [i \in 1 .. SizeOf(fw, id) |-> byte(id, i)]
      BY <1>1, <2>2, <3>1
    <3> HIDE DEF byte
    <3> QED BY <3>2
  <2> QED BY <2>1, <2>2
<1> QED BY <1>1, <1>2 DEF Shaped, new

LEMMA UniformFits ==
  ASSUME NEW fw, NEW v
  PROVE  Shaped(fw, Uniform(fw, v))
<1>1. \A id \in Ids(fw) : Uniform(fw, v)[id] = [i \in 1 .. SizeOf(fw, id) |-> v]
  BY DEF Uniform
<1> QED BY <1>1 DEF Uniform, Shaped

\* What a dataset of fw with values val has in a cell.
CellOf(fw, val, a) ==
    IF a = 1 THEN Begins
    ELSE IF a = EndAt(fw) THEN Ends
    ELSE IF Place(fw, a)[2] = 0 THEN HeaderFor(fw, Place(fw, a)[1])
    ELSE Data(val[Place(fw, a)[1]][Place(fw, a)[2]])

LEMMA EndOfDataset ==
  ASSUME NEW fw \in Firmwares
  PROVE  EndAt(fw) \in Nat /\ EndAt(fw) > 2 /\ EndAt(fw) <= RomSize /\ RomSize \in Nat
         /\ 1 .. EndAt(fw) \subseteq RomCells
<1>1. Len(fw) \in Nat \ {0} /\ EndAt(fw) <= RomSize /\ RomSize \in Nat
  BY ParameterTyped, EepromAssumption
<1>2. EndAt(fw) \in Nat /\ EndAt(fw) > Len(fw) + 1
  <2>1. Len(fw) + 1 \in 1 .. Len(fw) + 1
    BY <1>1
  <2> QED BY <2>1, HeadersFollow DEF EndAt
<1>3. 1 .. EndAt(fw) \subseteq RomCells
  BY <1>1, <1>2 DEF RomCells
<1> QED BY <1>1, <1>2, <1>3

\* The EEPROM has a dataset of fw, and each byte of it from v or from w.
Mixes(fw, v, w) == \A a \in 1 .. EndAt(fw) : rom[a] \in {CellOf(fw, v, a), CellOf(fw, w, a)}

\* A dataset whose bytes come from v or w is one, and its bytes are found behind the headers.
LEMMA DatasetBears ==
  ASSUME NEW fw \in Firmwares, NEW v, NEW w, Mixes(fw, v, w)
  PROVE  /\ Bears(fw)
         /\ \A id \in Ids(fw) : \A i \in 1 .. SizeOf(fw, id) :
              /\ HeaderCell(fw, id) + i \in 2 .. EndAt(fw) - 1
              /\ Place(fw, HeaderCell(fw, id) + i) = <<id, i>>
              /\ \A u : CellOf(fw, u, HeaderCell(fw, id) + i) = Data(u[id][i])
              /\ Stored(HeaderCell(fw, id) + i) = rom[HeaderCell(fw, id) + i]
<1>1. EndAt(fw) \in Nat /\ EndAt(fw) > 2 /\ 1 .. EndAt(fw) \subseteq RomCells
  BY EndOfDataset
<1>2. rom[1] = Begins /\ rom[EndAt(fw)] = Ends
  <2>1. \A u : CellOf(fw, u, 1) = Begins /\ CellOf(fw, u, EndAt(fw)) = Ends
    BY <1>1 DEF CellOf
  <2>2. 1 \in 1 .. EndAt(fw) /\ EndAt(fw) \in 1 .. EndAt(fw)
    BY <1>1
  <2> QED BY <2>1, <2>2 DEF Mixes
<1>3. ASSUME NEW id \in Ids(fw), NEW i \in 0 .. SizeOf(fw, id)
      PROVE  /\ HeaderCell(fw, id) + i \in 2 .. EndAt(fw) - 1
             /\ HeaderCell(fw, id) + i \in 1 .. EndAt(fw)
             /\ Place(fw, HeaderCell(fw, id) + i) = <<id, i>>
             /\ \A u : CellOf(fw, u, HeaderCell(fw, id) + i)
                       = IF i = 0 THEN HeaderFor(fw, id) ELSE Data(u[id][i])
  <2> DEFINE a == HeaderCell(fw, id) + i
  <2>1. a \in 2 .. EndAt(fw) - 1 /\ Place(fw, a) = <<id, i>>
    BY PlaceOfByte
  <2>2. a \in 1 .. EndAt(fw) /\ a # 1 /\ a # EndAt(fw)
    BY <1>1, <2>1
  <2>3. Place(fw, a)[1] = id /\ Place(fw, a)[2] = i
    BY <2>1
  <2> HIDE DEF a
  <2>4. \A u : CellOf(fw, u, a) = IF i = 0 THEN HeaderFor(fw, id) ELSE Data(u[id][i])
    BY <2>2, <2>3 DEF CellOf
  <2> QED BY <2>1, <2>2, <2>4 DEF a
<1>4. ASSUME NEW id \in Ids(fw) PROVE rom[HeaderCell(fw, id)] = HeaderFor(fw, id)
  <2>1. 0 \in 0 .. SizeOf(fw, id)
    BY NamesAndNumbers
  <2>2. HeaderCell(fw, id) + 0 = HeaderCell(fw, id)
    BY <2>1, PlaceOfByte
  <2>3. rom[HeaderCell(fw, id) + 0] = HeaderFor(fw, id)
    BY <1>3, <2>1 DEF Mixes
  <2> QED BY <2>2, <2>3
<1>5. ASSUME NEW id \in Ids(fw), NEW i \in 1 .. SizeOf(fw, id)
      PROVE  /\ HeaderCell(fw, id) + i \in 2 .. EndAt(fw) - 1
             /\ Place(fw, HeaderCell(fw, id) + i) = <<id, i>>
             /\ \A u : CellOf(fw, u, HeaderCell(fw, id) + i) = Data(u[id][i])
             /\ Stored(HeaderCell(fw, id) + i) = rom[HeaderCell(fw, id) + i]
  <2>1. i \in 0 .. SizeOf(fw, id) /\ i # 0
    BY NamesAndNumbers
  <2> QED BY <1>1, <1>3, <2>1 DEF Stored
<1> QED BY <1>2, <1>4, <1>5 DEF Bears

-----------------------------------------------------------------------------
(* The cache of a row of the EEPROM *)

LEMMA RomRowsAscend ==
  ASSUME NEW a \in RomCells, NEW b \in RomCells, a <= b
  PROVE  RomRowOf(a) \in Nat /\ RomRowOf(b) \in Nat /\ RomRowOf(a) <= RomRowOf(b)
<1>1. a - 1 \in Nat /\ b - 1 \in Nat /\ a - 1 <= b - 1 /\ RowLength \in Nat \ {0}
  BY EepromAssumption DEF RomCells
<1> QED BY <1>1, QuotientsAscend DEF RomRowOf

\* The cache has one row; it is as in the EEPROM unless it has changed.
CacheOK ==
    \/ romCache = NoCache
    \/ /\ romCache.row \in Nat /\ DOMAIN romCache.cells = RowCells(romCache.row)
       /\ ~romCache.changed => \A a \in RowCells(romCache.row) : romCache.cells[a] = rom[a]

\* What the EEPROM will have in a cell once the cache is written.
Effective(a) == IF romCache.row = RomRowOf(a) THEN romCache.cells[a] ELSE rom[a]

\* A write changes one cell.  Of the EEPROM it changes, when it goes on to another row, the
\* row that was in the cache, to what was in the cache; and a flush writes all there is.
LEMMA BufferKeeps ==
  ASSUME CacheOK, NEW cell, NEW a \in RomCells, NEW flush \in BOOLEAN, BufferWrite(cell, a, flush)
  PROVE  /\ CacheOK'
         /\ \A b \in RomCells : Effective(b)' = IF b = a THEN cell ELSE Effective(b)
         /\ flush => romCache' = NoCache
         /\ ~flush => /\ romCache'.row = RomRowOf(a) /\ romCache' # NoCache
                      /\ \A b \in RomCells :
                           rom'[b] = IF RomRowOf(b) = romCache.row /\ RomRowOf(b) # RomRowOf(a)
                                     THEN Effective(b) ELSE rom[b]
<1> DEFINE row == RomRowOf(a)
           c == IF romCache.row = row THEN romCache
                ELSE [row |-> row, cells |-> ReadRow(row), changed |-> FALSE]
           w == [row |-> c.row, cells |-> [c.cells EXCEPT ![a] = cell],
                 changed |-> c.changed \/ c.cells[a] # cell]
           mem == TurnsTo(w.row)
<1>1. /\ rom' = IF flush /\ w.changed THEN WithRow(mem, w) ELSE mem
      /\ romCache' = IF flush THEN NoCache ELSE w
  BY DEF BufferWrite
<1>2. \A b \in RomCells : RomRowOf(b) \in Nat /\ RomRowOf(b) # -1
  <2> TAKE b \in RomCells
  <2>1. b <= b
    BY EepromAssumption DEF RomCells
  <2> QED BY <2>1, RomRowsAscend
<1>3. NoCache.row = -1 /\ NoCache.changed = FALSE
  BY DEF NoCache
<1>4. row \in Nat /\ a \in RowCells(row) /\ \A b \in RomCells : b \in RowCells(RomRowOf(b))
  BY <1>2 DEF RowCells
<1>5. /\ c.row = row /\ DOMAIN c.cells = RowCells(row)
      /\ \A b \in RomCells : RomRowOf(b) = row => c.cells[b] = Effective(b)
      /\ ~c.changed => \A b \in RowCells(row) : c.cells[b] = rom[b]
  <2>1. CASE romCache.row = row
    <3>1. romCache # NoCache
      BY <1>3, <1>4, <2>1
    <3> QED BY <2>1, <3>1 DEF CacheOK, Effective
  <2>2. CASE romCache.row # row
    <3>1. c = [row |-> row, cells |-> ReadRow(row), changed |-> FALSE]
      BY <2>2
    <3>2. c.row = row /\ c.cells = ReadRow(row) /\ DOMAIN ReadRow(row) = RowCells(row)
          /\ \A b \in RowCells(row) : ReadRow(row)[b] = rom[b]
      BY <3>1 DEF ReadRow
    <3>3. \A b \in RomCells : RomRowOf(b) = row => b \in RowCells(row) /\ Effective(b) = rom[b]
      BY <2>2 DEF RowCells, Effective
    <3> QED BY <3>2, <3>3
  <2> QED BY <2>1, <2>2
<1>6. ASSUME NEW b \in RomCells
      PROVE  mem[b] = IF RomRowOf(b) = romCache.row /\ RomRowOf(b) # row THEN Effective(b) ELSE rom[b]
  <2>1. w.row = row
    BY <1>5
  <2>2. CASE romCache.row # row /\ romCache.changed
    <3>1. mem = WithRow(rom, romCache)
      BY <2>1, <2>2 DEF TurnsTo
    <3>2. mem[b] = IF RomRowOf(b) = romCache.row THEN romCache.cells[b] ELSE rom[b]
      BY <3>1 DEF WithRow
    <3> QED BY <2>2, <3>2 DEF Effective
  <2>3. CASE ~(romCache.row # row /\ romCache.changed)
    <3>1. mem = rom
      BY <2>1, <2>3 DEF TurnsTo
    <3>2. ASSUME RomRowOf(b) = romCache.row, RomRowOf(b) # row PROVE Effective(b) = rom[b]
      <4>1. romCache # NoCache /\ ~romCache.changed
        BY <1>2, <1>3, <2>3, <3>2
      <4> QED BY <1>4, <3>2, <4>1 DEF CacheOK, Effective
    <3> QED BY <3>1, <3>2
  <2> QED BY <2>2, <2>3
<1> HIDE DEF c, mem
<1>7. w.row = row /\ DOMAIN w.cells = RowCells(row) /\ w.cells[a] = cell
      /\ \A b \in RowCells(row) : b # a => w.cells[b] = c.cells[b]
  BY <1>4, <1>5
<1>8. ASSUME ~w.changed PROVE \A b \in RowCells(row) : w.cells[b] = rom[b]
  BY <1>4, <1>5, <1>7, <1>8
<1> HIDE DEF w
<1>9. \A b \in RomCells : IF RomRowOf(b) = row THEN w.cells[b] = IF b = a THEN cell ELSE Effective(b)
                          ELSE b # a /\ mem[b] = Effective(b)
  <2> TAKE b \in RomCells
  <2>1. CASE RomRowOf(b) = row
    <3>1. b \in RowCells(row)
      BY <1>4, <2>1
    <3> QED BY <1>5, <1>7, <2>1, <3>1
  <2>2. CASE RomRowOf(b) # row
    BY <1>6, <2>2 DEF Effective
  <2> QED BY <2>1, <2>2
<1>10. CASE flush
  <2>1. romCache' = NoCache
    BY <1>1, <1>10
  <2>2. CacheOK'
    BY <2>1 DEF CacheOK
  <2>3. ASSUME NEW b \in RomCells PROVE Effective(b)' = IF b = a THEN cell ELSE Effective(b)
    <3>1. Effective(b)' = rom'[b]
      BY <1>2, <1>3, <2>1 DEF Effective
    <3>2. CASE w.changed
      <4>1. rom'[b] = IF RomRowOf(b) = w.row THEN w.cells[b] ELSE mem[b]
        BY <1>1, <1>10, <3>2 DEF WithRow
      <4> QED BY <1>7, <1>9, <3>1, <4>1
    <3>3. CASE ~w.changed
      <4>1. rom'[b] = mem[b]
        BY <1>1, <1>10, <3>3
      <4>2. RomRowOf(b) = row => mem[b] = rom[b] /\ b \in RowCells(row)
        BY <1>4, <1>6
      <4> QED BY <1>8, <1>9, <3>1, <3>3, <4>1, <4>2
    <3> QED BY <3>2, <3>3
  <2> QED BY <1>10, <2>1, <2>2, <2>3
<1>11. CASE ~flush
  <2>1. romCache' = w /\ rom' = mem
    BY <1>1, <1>11
  <2>2. romCache'.row = row /\ romCache' # NoCache
    BY <1>3, <1>4, <1>7, <2>1
  <2>3. CacheOK'
    <3>1. \A b \in RowCells(row) : b \in RomCells /\ RomRowOf(b) = row
      BY DEF RowCells
    <3>2. \A b \in RowCells(row) : mem[b] = rom[b]
      BY <1>6, <3>1
    <3> QED BY <1>4, <1>7, <1>8, <2>1, <3>2 DEF CacheOK
  <2>4. \A b \in RomCells : Effective(b)' = IF b = a THEN cell ELSE Effective(b)
    BY <1>7, <1>9, <2>1 DEF Effective
  <2> QED BY <1>6, <1>11, <2>1, <2>2, <2>3, <2>4
<1> QED BY <1>10, <1>11

-----------------------------------------------------------------------------
(* The inductive invariant *)

EepromTyped ==
    /\ firmware \in Firmwares /\ Shaped(firmware, setting)
    /\ writing \in 0 .. EndAt(firmware)
    /\ layout \in Firmwares \cup {<<>>}
    /\ CacheOK

\* Between saves the EEPROM has what was saved.
AtRest ==
    writing = 0 =>
      /\ romCache = NoCache
      /\ layout # <<>> =>
           /\ Shaped(layout, saved)
           /\ \A a \in 1 .. EndAt(layout) : rom[a] = CellOf(layout, saved, a)
           /\ valid => \A id \in Ids(firmware) : id \in Ids(layout) /\ SizeOf(firmware, id) = SizeOf(layout, id)

\* In a save, the cells it has passed have what it writes, in the cache or in the EEPROM.
Written ==
    writing # 0 =>
      /\ Shaped(firmware, saved)
      /\ \A a \in 1 .. EndAt(firmware) :
           a < writing \/ layout = firmware => Effective(a) = CellOf(firmware, saved, a)

\* From the row in the cache on, a dataset of the same firmware is still as it was.
Untouched ==
    writing # 0 =>
      /\ romCache = NoCache <=> writing = 1
      /\ romCache # NoCache => romCache.row = RomRowOf(writing - 1)
      /\ Shaped(firmware, before)
      /\ layout = firmware => \A a \in 1 .. EndAt(firmware) :
                                RomRowOf(a) >= romCache.row => rom[a] = CellOf(firmware, before, a)

EepromInv == EepromTyped /\ AtRest /\ Written /\ Untouched

LEMMA NotEmpty == <<>> \notin Firmwares
BY EepromAssumption

LEMMA RowsOfRom ==
  ASSUME NEW a \in RomCells
  PROVE  RomRowOf(a) \in Nat /\ RomRowOf(a) >= -1 /\ RomRowOf(a) # -1
<1>1. a <= a
  BY EepromAssumption DEF RomCells
<1>2. RomRowOf(a) \in Nat
  BY <1>1, RomRowsAscend
<1> QED BY <1>2

\* New values that differ from others in the byte at a.
ByteChanged(new, fw, val, a, v) == new = [val EXCEPT ![Place(fw, a)[1]][Place(fw, a)[2]] = v]

\* A byte more of a value changes the cell of that byte.
LEMMA ByteSaved ==
  ASSUME NEW fw \in Firmwares, NEW val, Shaped(fw, val), NEW a \in 2 .. EndAt(fw) - 1,
         Place(fw, a)[2] # 0, NEW v, NEW new, ByteChanged(new, fw, val, a, v)
  PROVE  /\ Shaped(fw, new)
         /\ CellOf(fw, new, a) = Data(v)
         /\ \A b \in 1 .. EndAt(fw) : b # a => CellOf(fw, new, b) = CellOf(fw, val, b)
<1> DEFINE id == Place(fw, a)[1]
           i == Place(fw, a)[2]
<1>1. /\ id \in Ids(fw) /\ i \in 0 .. SizeOf(fw, id) /\ a = HeaderCell(fw, id) + i
      /\ EndAt(fw) \in Nat /\ SizeOf(fw, id) \in Nat
  BY ByteOfPlace, EndOfDataset, NamesAndNumbers
<1>2. i \in 1 .. SizeOf(fw, id) /\ a # 1 /\ a # EndAt(fw)
  BY <1>1
<1> HIDE DEF id, i
<1>3. new = [val EXCEPT ![id] = [@ EXCEPT ![i] = v]]
  BY DEF id, i, ByteChanged
<1>4. DOMAIN val = Ids(fw) /\ \A d \in Ids(fw) : val[d] = [j \in 1 .. SizeOf(fw, d) |-> val[d][j]]
  BY DEF Shaped
<1>5. DOMAIN new = Ids(fw) /\ new[id] = [val[id] EXCEPT ![i] = v] /\ \A d \in Ids(fw) : d # id => new[d] = val[d]
  BY <1>1, <1>3, <1>4
<1>6. DOMAIN val[id] = 1 .. SizeOf(fw, id)
  BY <1>1, <1>4
<1>7. new[id] = [j \in 1 .. SizeOf(fw, id) |-> IF j = i THEN v ELSE val[id][j]]
  BY <1>5, <1>6
<1>8. new[id][i] = v /\ \A j \in 1 .. SizeOf(fw, id) : j # i => new[id][j] = val[id][j]
  BY <1>2, <1>7
<1>9. Shaped(fw, new)
  <2>1. ASSUME NEW d \in Ids(fw) PROVE new[d] = [j \in 1 .. SizeOf(fw, d) |-> new[d][j]]
    <3>1. CASE d = id
      BY <1>7, <3>1
    <3>2. CASE d # id
      BY <1>4, <1>5, <3>2
    <3> QED BY <3>1, <3>2
  <2> QED BY <1>5, <2>1 DEF Shaped
<1>10. CellOf(fw, new, a) = Data(v)
  BY <1>2, <1>8 DEF CellOf, id, i
<1>11. ASSUME NEW b \in 1 .. EndAt(fw), b # a PROVE CellOf(fw, new, b) = CellOf(fw, val, b)
  <2>1. CASE b = 1 \/ b = EndAt(fw)
    BY <2>1 DEF CellOf
  <2>2. CASE ~(b = 1 \/ b = EndAt(fw))
    <3>1. b \in 2 .. EndAt(fw) - 1
      BY <1>1, <2>2
    <3> DEFINE d == Place(fw, b)[1]
               j == Place(fw, b)[2]
    <3>2. d \in Ids(fw) /\ j \in 0 .. SizeOf(fw, d) /\ b = HeaderCell(fw, d) + j /\ SizeOf(fw, d) \in Nat
      BY <3>1, ByteOfPlace, NamesAndNumbers
    <3> HIDE DEF d, j
    <3>3. d = id => j # i
      BY <1>1, <1>11, <3>2
    <3>4. j # 0 => j \in 1 .. SizeOf(fw, d)
      BY <3>2
    <3>5. j # 0 => new[d][j] = val[d][j]
      BY <1>5, <1>8, <3>2, <3>3, <3>4
    <3> QED BY <3>5 DEF CellOf, d, j
  <2> QED BY <2>1, <2>2
<1> QED BY <1>9, <1>10, <1>11

LEMMA EepromStarts == EepromInit => EepromInv
<1> SUFFICES ASSUME EepromInit PROVE EepromInv
  OBVIOUS
<1> DEFINE Lengths == {Len(fw) : fw \in Firmwares}
<1>1. Lengths \in SUBSET Nat /\ Lengths # {}
  <2>1. \A fw \in Firmwares : Len(fw) \in Nat
    BY ParameterTyped
  <2>2. PICK fw \in Firmwares : TRUE
    BY EepromAssumption
  <2>3. Len(fw) \in Lengths
    OBVIOUS
  <2>4. \A n \in Lengths : n \in Nat
    BY <2>1
  <2> QED BY <2>3, <2>4
<1>2. PICK n \in Lengths : \A m \in Lengths : n <= m
  BY <1>1, LeastNumber
<1>3. PICK g \in Firmwares : n = Len(g)
  BY <1>2
<1>4. \A other \in Firmwares : Len(g) <= Len(other)
  BY <1>2, <1>3
<1>5. firmware \in Firmwares
  BY <1>3, <1>4 DEF EepromInit
<1>6. Shaped(firmware, setting)
  BY UniformFits DEF EepromInit
<1>7. EndAt(firmware) \in Nat
  BY <1>5, EndOfDataset
<1>8. writing = 0 /\ romCache = NoCache /\ layout = <<>>
  BY DEF EepromInit
<1> QED BY <1>5, <1>6, <1>7, <1>8 DEF EepromInv, EepromTyped, AtRest, Written, Untouched, CacheOK

LEMMA SetParameterStep == EepromInv /\ SetParameter => EepromInv'
<1> SUFFICES ASSUME EepromInv, SetParameter PROVE EepromInv'
  OBVIOUS
<1>1. PICK id \in Ids(firmware), v \in Settings :
         setting' = [setting EXCEPT ![id] = [i \in DOMAIN @ |-> v]]
  BY DEF SetParameter
<1>2. UNCHANGED <<rom, romCache, firmware, writing, valid, layout, before, saved>>
  BY DEF SetParameter, promHist
<1>3. firmware \in Firmwares /\ Shaped(firmware, setting)
  BY DEF EepromInv, EepromTyped
<1>4. Shaped(firmware, setting')
  <2>1. DOMAIN setting' = Ids(firmware) /\ setting'[id] = [i \in DOMAIN setting[id] |-> v]
        /\ \A d \in Ids(firmware) : d # id => setting'[d] = setting[d]
    BY <1>1, <1>3 DEF Shaped
  <2>2. DOMAIN setting[id] = 1 .. SizeOf(firmware, id)
    BY <1>3 DEF Shaped
  <2>3. ASSUME NEW d \in Ids(firmware)
        PROVE  setting'[d] = [i \in 1 .. SizeOf(firmware, d) |-> setting'[d][i]]
    <3>1. CASE d = id
      BY <2>1, <2>2, <3>1
    <3>2. CASE d # id
      BY <1>3, <2>1, <3>2 DEF Shaped
    <3> QED BY <3>1, <3>2
  <2> QED BY <2>1, <2>3 DEF Shaped
<1> QED BY <1>2, <1>4 DEF EepromInv, EepromTyped, AtRest, Written, Untouched, CacheOK, Effective

LEMMA BeginSaveStep == EepromInv /\ BeginSave => EepromInv'
<1> SUFFICES ASSUME EepromInv, BeginSave PROVE EepromInv'
  OBVIOUS
<1>1. /\ writing = 0 /\ writing' = 1 /\ saved' = before'
      /\ before' = IF layout = firmware THEN saved ELSE setting
      /\ UNCHANGED <<rom, romCache, firmware, setting, valid, layout>>
  BY DEF BeginSave
<1>2. EepromTyped /\ AtRest /\ firmware \in Firmwares /\ romCache = NoCache
  BY <1>1 DEF EepromInv, EepromTyped, AtRest
<1>3. Shaped(firmware, before')
  BY <1>1, <1>2, NotEmpty DEF EepromTyped, AtRest
<1>4. EndAt(firmware) \in Nat /\ EndAt(firmware) > 2 /\ 1 .. EndAt(firmware) \subseteq RomCells
  BY <1>2, EndOfDataset
<1>5. EepromTyped'
  <2>1. writing' \in 0 .. EndAt(firmware)
    BY <1>1, <1>4
  <2> QED BY <1>1, <1>2, <2>1 DEF EepromTyped, CacheOK
<1>6. layout = firmware => \A a \in 1 .. EndAt(firmware) : rom[a] = CellOf(firmware, before', a)
  BY <1>1, <1>2, NotEmpty DEF AtRest
<1>7. \A a \in RomCells : Effective(a)' = rom[a]
  BY <1>1, <1>2, RowsOfRom DEF Effective, NoCache
<1>8. Written'
  <2>1. \A a \in 1 .. EndAt(firmware) : ~(a < 1)
    BY <1>4
  <2> QED BY <1>1, <1>3, <1>4, <1>6, <1>7, <2>1 DEF Written
<1>9. Untouched'
  BY <1>1, <1>2, <1>3, <1>6 DEF Untouched
<1>10. AtRest'
  BY <1>1 DEF AtRest
<1> QED BY <1>5, <1>8, <1>9, <1>10 DEF EepromInv

\* A cell more of a dataset.
LEMMA CellWritten ==
  ASSUME EepromInv, writing \in 1 .. EndAt(firmware) - 1, writing' = writing + 1,
         UNCHANGED <<firmware, setting, layout, before>>,
         NEW cell, BufferWrite(cell, writing, FALSE), cell = CellOf(firmware, saved', writing),
         Shaped(firmware, saved'),
         \A a \in 1 .. EndAt(firmware) :
           a # writing => CellOf(firmware, saved', a) = CellOf(firmware, saved, a)
  PROVE  EepromInv'
<1>1. firmware \in Firmwares /\ CacheOK /\ EepromTyped
  BY DEF EepromInv, EepromTyped
<1>2. EndAt(firmware) \in Nat /\ EndAt(firmware) > 2 /\ 1 .. EndAt(firmware) \subseteq RomCells
  BY <1>1, EndOfDataset
<1>3. writing \in RomCells /\ writing # 0 /\ writing' # 0 /\ writing' \in 2 .. EndAt(firmware)
      /\ writing' # 1 /\ writing' - 1 = writing
  BY <1>2
<1>4. /\ CacheOK'
      /\ \A b \in RomCells : Effective(b)' = IF b = writing THEN cell ELSE Effective(b)
      /\ romCache'.row = RomRowOf(writing) /\ romCache' # NoCache
      /\ \A b \in RomCells :
           rom'[b] = IF RomRowOf(b) = romCache.row /\ RomRowOf(b) # RomRowOf(writing)
                     THEN Effective(b) ELSE rom[b]
  BY <1>1, <1>3, BufferKeeps
<1>5. romCache.row <= RomRowOf(writing) /\ RomRowOf(writing) \in Nat /\ romCache.row \in Int
  <2>1. CASE romCache = NoCache
    BY <1>3, <2>1, RowsOfRom DEF NoCache
  <2>2. CASE romCache # NoCache
    <3>1. romCache.row = RomRowOf(writing - 1) /\ writing # 1
      BY <1>3, <2>2 DEF EepromInv, Untouched
    <3>2. writing - 1 \in 1 .. EndAt(firmware) /\ writing - 1 <= writing
      BY <1>2, <3>1
    <3>3. writing - 1 \in RomCells
      BY <1>2, <3>2
    <3> QED BY <1>3, <3>1, <3>2, <3>3, RomRowsAscend
  <2> QED BY <2>1, <2>2
<1>6. EepromTyped'
  <2>1. writing' \in 0 .. EndAt(firmware)
    BY <1>2, <1>3
  <2> QED BY <1>1, <1>4, <2>1 DEF EepromTyped
<1>7. AtRest'
  BY <1>3 DEF AtRest
<1>8. Written'
  <2>1. ASSUME NEW a \in 1 .. EndAt(firmware), a < writing' \/ layout = firmware
        PROVE  Effective(a)' = CellOf(firmware, saved', a)
    <3>1. CASE a = writing
      BY <1>3, <1>4, <3>1
    <3>2. CASE a # writing
      <4>1. a \in RomCells /\ (a < writing' => a < writing)
        BY <1>2, <3>2
      <4>2. Effective(a) = CellOf(firmware, saved, a)
        BY <1>3, <2>1, <4>1 DEF EepromInv, Written
      <4> QED BY <1>4, <3>2, <4>1, <4>2
    <3> QED BY <3>1, <3>2
  <2>2. firmware' = firmware /\ layout' = layout
    OBVIOUS
  <2> QED BY <2>1, <2>2 DEF Written
<1>9. Untouched'
  <2>1. ASSUME layout = firmware, NEW a \in 1 .. EndAt(firmware), RomRowOf(a) >= romCache'.row
        PROVE  rom'[a] = CellOf(firmware, before, a)
    <3>1. a \in RomCells /\ RomRowOf(a) \in Nat
      BY <1>2, RowsOfRom
    <3>2. RomRowOf(a) >= RomRowOf(writing) /\ RomRowOf(a) >= romCache.row
      BY <1>4, <1>5, <2>1, <3>1
    <3>3. ~(RomRowOf(a) = romCache.row /\ RomRowOf(a) # RomRowOf(writing))
      BY <1>5, <3>1, <3>2
    <3>4. rom'[a] = rom[a]
      BY <1>4, <3>1, <3>3
    <3> QED BY <1>3, <2>1, <3>2, <3>4 DEF EepromInv, Untouched
  <2>2. Shaped(firmware, before)
    BY <1>3 DEF EepromInv, Untouched
  <2>3. firmware' = firmware /\ layout' = layout /\ before' = before
    OBVIOUS
  <2> QED BY <1>3, <1>4, <2>1, <2>2, <2>3 DEF Untouched
<1> QED BY <1>6, <1>7, <1>8, <1>9 DEF EepromInv

LEMMA WriteMarkStep == EepromInv /\ WriteMark => EepromInv'
<1> SUFFICES ASSUME EepromInv, WriteMark PROVE EepromInv'
  OBVIOUS
<1>1. /\ writing = 1 /\ writing' = 2 /\ BufferWrite(Begins, 1, FALSE)
      /\ UNCHANGED <<firmware, setting, layout, before, saved>>
  BY DEF WriteMark, promHist
<1>2. EndAt(firmware) \in Nat /\ EndAt(firmware) > 2
  BY EndOfDataset DEF EepromInv, EepromTyped
<1>3. writing \in 1 .. EndAt(firmware) - 1 /\ writing' = writing + 1
  BY <1>1, <1>2
<1>4. Begins = CellOf(firmware, saved', writing)
  BY <1>1 DEF CellOf
<1>5. Shaped(firmware, saved')
  BY <1>1 DEF EepromInv, Written
<1>6. BufferWrite(Begins, writing, FALSE)
  BY <1>1
<1>7. \A a \in 1 .. EndAt(firmware) :
        a # writing => CellOf(firmware, saved', a) = CellOf(firmware, saved, a)
  BY <1>1
<1>8. UNCHANGED <<firmware, setting, layout, before>>
  BY <1>1
<1> QED BY <1>3, <1>4, <1>5, <1>6, <1>7, <1>8, CellWritten

LEMMA WriteRecordStep == EepromInv /\ WriteRecord => EepromInv'
<1> SUFFICES ASSUME EepromInv, WriteRecord PROVE EepromInv'
  OBVIOUS
<1> DEFINE id == Place(firmware, writing)[1]
           i == Place(firmware, writing)[2]
<1>1. /\ 1 < writing /\ writing < EndAt(firmware) /\ writing' = writing + 1
      /\ UNCHANGED <<firmware, setting, layout, before>>
      /\ i = 0 => /\ BufferWrite(HeaderFor(firmware, id), writing, FALSE)
                  /\ saved' = saved
      /\ i # 0 => /\ BufferWrite(Data(setting[id][i]), writing, FALSE)
                  /\ saved' = [saved EXCEPT ![id][i] = setting[id][i]]
  BY DEF WriteRecord, HeaderFor
<1>2. firmware \in Firmwares /\ writing \in 0 .. EndAt(firmware)
      /\ EndAt(firmware) \in Nat /\ EndAt(firmware) > 2
  BY EndOfDataset DEF EepromInv, EepromTyped
<1>3. writing \in 2 .. EndAt(firmware) - 1 /\ writing \in 1 .. EndAt(firmware) - 1
      /\ writing # 0 /\ writing # 1 /\ writing # EndAt(firmware)
  BY <1>1, <1>2
<1>4. Shaped(firmware, saved)
  BY <1>3 DEF EepromInv, Written
<1>5. UNCHANGED <<firmware, setting, layout, before>> /\ writing' = writing + 1
  BY <1>1
<1>6. CASE i = 0
  <2>1. HeaderFor(firmware, id) = CellOf(firmware, saved', writing)
    BY <1>3, <1>6 DEF CellOf
  <2>2. Shaped(firmware, saved') /\ BufferWrite(HeaderFor(firmware, id), writing, FALSE)
    BY <1>1, <1>4, <1>6
  <2>3. \A a \in 1 .. EndAt(firmware) :
          a # writing => CellOf(firmware, saved', a) = CellOf(firmware, saved, a)
    BY <1>1, <1>6
  <2> HIDE DEF id
  <2> QED BY <1>3, <1>5, <2>1, <2>2, <2>3, CellWritten
<1>7. CASE i # 0
  <2>1. BufferWrite(Data(setting[id][i]), writing, FALSE)
    BY <1>1, <1>7
  <2>2. saved' = [saved EXCEPT ![id][i] = setting[id][i]]
    BY <1>1, <1>7
  <2> DEFINE v == setting[id][i]
             new == saved'
  <2>3. ByteChanged(new, firmware, saved, writing, v)
    BY <2>2 DEF ByteChanged
  <2> HIDE DEF v, new
  <2>4. /\ Shaped(firmware, new) /\ CellOf(firmware, new, writing) = Data(v)
        /\ \A a \in 1 .. EndAt(firmware) :
             a # writing => CellOf(firmware, new, a) = CellOf(firmware, saved, a)
    BY <1>2, <1>3, <1>4, <1>7, <2>3, ByteSaved
  <2>5. Data(v) = CellOf(firmware, saved', writing) /\ Shaped(firmware, saved')
        /\ \A a \in 1 .. EndAt(firmware) :
             a # writing => CellOf(firmware, saved', a) = CellOf(firmware, saved, a)
    BY <2>4 DEF new
  <2>6. BufferWrite(Data(v), writing, FALSE)
    BY <2>1 DEF v
  <2> QED BY <1>3, <1>5, <2>5, <2>6, CellWritten
<1> QED BY <1>6, <1>7

LEMMA WriteEndStep == EepromInv /\ WriteEnd => EepromInv'
<1> SUFFICES ASSUME EepromInv, WriteEnd PROVE EepromInv'
  OBVIOUS
<1>1. /\ writing = EndAt(firmware) /\ writing' = 0 /\ BufferWrite(Ends, writing, TRUE)
      /\ layout' = firmware /\ UNCHANGED <<firmware, setting, before, saved>>
  BY DEF WriteEnd
<1>2. firmware \in Firmwares /\ CacheOK /\ EepromTyped
  BY DEF EepromInv, EepromTyped
<1>3. EndAt(firmware) \in Nat /\ EndAt(firmware) > 2 /\ 1 .. EndAt(firmware) \subseteq RomCells
  BY <1>2, EndOfDataset
<1>4. writing \in RomCells /\ writing # 0 /\ writing # 1
  BY <1>1, <1>3
<1>5. /\ CacheOK' /\ romCache' = NoCache
      /\ \A b \in RomCells : Effective(b)' = IF b = writing THEN Ends ELSE Effective(b)
  BY <1>1, <1>2, <1>4, BufferKeeps
<1>6. Shaped(firmware, saved)
  BY <1>4 DEF EepromInv, Written
<1>7. ASSUME NEW a \in 1 .. EndAt(firmware) PROVE rom'[a] = CellOf(firmware, saved, a)
  <2>1. a \in RomCells /\ rom'[a] = Effective(a)'
    BY <1>3, <1>5, RowsOfRom DEF Effective, NoCache
  <2>2. CASE a = writing
    BY <1>1, <1>4, <1>5, <2>1, <2>2 DEF CellOf
  <2>3. CASE a # writing
    <3>1. a < writing
      BY <1>1, <1>3, <2>3
    <3>2. Effective(a) = CellOf(firmware, saved, a)
      BY <1>4, <3>1 DEF EepromInv, Written
    <3> QED BY <1>5, <2>1, <2>3, <3>2
  <2> QED BY <2>2, <2>3
<1>8. EepromTyped'
  <2>1. writing' \in 0 .. EndAt(firmware)
    BY <1>1, <1>3
  <2> QED BY <1>1, <1>2, <1>5, <2>1 DEF EepromTyped
<1>9. AtRest'
  <2>1. firmware' = firmware /\ layout' = firmware /\ saved' = saved
    BY <1>1
  <2> QED BY <1>5, <1>6, <1>7, <2>1 DEF AtRest
<1>10. Written' /\ Untouched'
  BY <1>1 DEF Written, Untouched
<1> QED BY <1>8, <1>9, <1>10 DEF EepromInv

LEMMA LoadStep == EepromInv /\ Load => EepromInv'
<1> SUFFICES ASSUME EepromInv, Load PROVE EepromInv'
  OBVIOUS
<1>1. /\ writing = 0 /\ setting' = LoadedOver(firmware, setting)
      /\ (valid' => valid) /\ UNCHANGED <<rom, romCache, firmware, writing, layout, before, saved>>
  BY DEF Load, promHist
<1>2. Shaped(firmware, setting')
  BY <1>1, LoadedFits DEF EepromInv, EepromTyped
<1>3. EepromTyped' /\ AtRest'
  BY <1>1, <1>2 DEF EepromInv, EepromTyped, AtRest, CacheOK
<1>4. Written' /\ Untouched'
  BY <1>1 DEF Written, Untouched
<1> QED BY <1>3, <1>4 DEF EepromInv

\* A save over a dataset of the same firmware has passed the rows before the one in the cache.
LEMMA HalfWritten ==
  ASSUME EepromInv, writing # 0, layout = firmware
  PROVE  /\ firmware \in Firmwares /\ Shaped(firmware, before) /\ Shaped(firmware, saved)
         /\ \A a \in 1 .. EndAt(firmware) :
              rom[a] = IF RomRowOf(a) >= romCache.row THEN CellOf(firmware, before, a)
                       ELSE CellOf(firmware, saved, a)
<1>1. firmware \in Firmwares
  BY DEF EepromInv, EepromTyped
<1>2. 1 .. EndAt(firmware) \subseteq RomCells
  BY <1>1, EndOfDataset
<1>3. ASSUME NEW a \in 1 .. EndAt(firmware)
      PROVE  rom[a] = IF RomRowOf(a) >= romCache.row THEN CellOf(firmware, before, a)
                      ELSE CellOf(firmware, saved, a)
  <2>1. CASE RomRowOf(a) >= romCache.row
    BY <2>1 DEF EepromInv, Untouched
  <2>2. CASE ~(RomRowOf(a) >= romCache.row)
    <3>1. RomRowOf(a) \in Nat
      BY <1>2, RowsOfRom
    <3>2. romCache.row # RomRowOf(a)
      BY <2>2, <3>1
    <3>3. Effective(a) = CellOf(firmware, saved, a)
      BY DEF EepromInv, Written
    <3> QED BY <2>2, <3>2, <3>3 DEF Effective
  <2> QED BY <2>1, <2>2
<1> QED BY <1>1, <1>3 DEF EepromInv, Written, Untouched

\* What is loaded from a dataset whose bytes come from v or w: the dataset has it.
LEMMA LoadedIsThere ==
  ASSUME NEW fw \in Firmwares, NEW v, NEW w, NEW old, Mixes(fw, v, w)
  PROVE  \A a \in 1 .. EndAt(fw) : rom[a] = CellOf(fw, LoadedOver(fw, old), a)
<1> DEFINE new == LoadedOver(fw, old)
<1>1. /\ Bears(fw) /\ EndAt(fw) \in Nat
      /\ \A id \in Ids(fw) : \A i \in 1 .. SizeOf(fw, id) :
           /\ \A u : CellOf(fw, u, HeaderCell(fw, id) + i) = Data(u[id][i])
           /\ Stored(HeaderCell(fw, id) + i) = rom[HeaderCell(fw, id) + i]
  BY DatasetBears, EndOfDataset
<1>2. ASSUME NEW id \in Ids(fw), NEW i \in 1 .. SizeOf(fw, id)
      PROVE  new[id][i] = rom[HeaderCell(fw, id) + i].size
  <2>1. Found(fw, id) = [j \in 1 .. SizeOf(fw, id) |-> Stored(HeaderCell(fw, id) + j).size]
    BY <1>1, FoundIn
  <2>2. i \in DOMAIN Found(fw, id) /\ DOMAIN <<>> = {}
    BY <2>1
  <2>3. new[id] = Found(fw, id)
    BY <2>2 DEF LoadedOver
  <2> QED BY <1>1, <2>1, <2>3
<1> HIDE DEF new
<1> SUFFICES ASSUME NEW a \in 1 .. EndAt(fw) PROVE rom[a] = CellOf(fw, new, a)
  BY DEF new
<1>3. rom[a] \in {CellOf(fw, v, a), CellOf(fw, w, a)}
  BY DEF Mixes
<1>4. CASE a = 1 \/ a = EndAt(fw)
  BY <1>3, <1>4 DEF CellOf
<1>5. CASE ~(a = 1 \/ a = EndAt(fw)) /\ Place(fw, a)[2] = 0
  BY <1>3, <1>5 DEF CellOf
<1>6. CASE ~(a = 1 \/ a = EndAt(fw)) /\ Place(fw, a)[2] # 0
  <2> DEFINE id == Place(fw, a)[1]
             i == Place(fw, a)[2]
  <2>1. a \in 2 .. EndAt(fw) - 1
    BY <1>1, <1>6
  <2>2. id \in Ids(fw) /\ i \in 0 .. SizeOf(fw, id) /\ i # 0 /\ a = HeaderCell(fw, id) + i
    BY <1>6, <2>1, ByteOfPlace
  <2> HIDE DEF id, i
  <2>3. i \in 1 .. SizeOf(fw, id)
    BY <2>2, NamesAndNumbers
  <2>4. \A u : CellOf(fw, u, a) = Data(u[id][i])
    BY <1>1, <2>2, <2>3
  <2>5. rom[a] = Data(v[id][i]) \/ rom[a] = Data(w[id][i])
    BY <1>3, <2>4
  <2>6. rom[a] = Data(rom[a].size)
    BY <2>5 DEF Data
  <2>7. new[id][i] = rom[a].size
    BY <1>2, <2>2, <2>3
  <2> QED BY <2>4, <2>6, <2>7
<1> QED BY <1>4, <1>5, <1>6

LEMMA RestartsStep == EepromInv /\ Restarts => EepromInv'
<1> SUFFICES ASSUME EepromInv, Restarts PROVE EepromInv'
  OBVIOUS
<1>1. /\ firmware' \in IF writing = 0 THEN Firmwares ELSE {firmware}
      /\ romCache' = NoCache /\ writing' = 0
      /\ setting' = LoadedOver(firmware', Uniform(firmware', Preset))
      /\ valid' = NoComplaint(firmware')
      /\ layout' = IF writing = 0 \/ layout = firmware THEN layout ELSE <<>>
      /\ saved' = IF writing # 0 /\ layout = firmware THEN setting' ELSE saved
      /\ rom' = rom
  BY DEF Restarts
<1>2. EepromTyped /\ AtRest /\ firmware \in Firmwares /\ layout \in Firmwares \cup {<<>>}
  BY DEF EepromInv, EepromTyped
<1>3. firmware' \in Firmwares /\ layout' \in Firmwares \cup {<<>>}
  BY <1>1, <1>2
<1>4. Shaped(firmware', setting')
  BY <1>1, <1>3, UniformFits, LoadedFits
<1>5. EepromTyped'
  <2>1. EndAt(firmware') \in Nat
    BY <1>3, EndOfDataset
  <2>2. writing' \in 0 .. EndAt(firmware')
    BY <1>1, <2>1
  <2> QED BY <1>1, <1>3, <1>4, <2>2 DEF EepromTyped, CacheOK
<1>6. ASSUME layout' # <<>>
      PROVE  /\ Shaped(layout', saved')
             /\ \A a \in 1 .. EndAt(layout') : rom[a] = CellOf(layout', saved', a)
             /\ NoComplaint(firmware') =>
                  \A id \in Ids(firmware') : id \in Ids(layout') /\ SizeOf(firmware', id) = SizeOf(layout', id)
  <2>1. CASE writing = 0
    <3>1. layout' = layout /\ saved' = saved /\ layout # <<>> /\ layout \in Firmwares
      BY <1>1, <1>2, <1>6, <2>1
    <3>2. Shaped(layout, saved) /\ \A a \in 1 .. EndAt(layout) : rom[a] = CellOf(layout, saved, a)
      BY <1>2, <2>1, <3>1 DEF AtRest
    <3>3. Mixes(layout, saved, saved)
      BY <3>2 DEF Mixes
    <3>4. Bears(layout)
      BY <3>1, <3>3, DatasetBears
    <3>5. NoComplaint(firmware') =>
            \A id \in Ids(firmware') : id \in Ids(layout) /\ SizeOf(firmware', id) = SizeOf(layout, id)
      BY <3>1, <3>4, FoundIn
    <3> QED BY <3>1, <3>2, <3>5
  <2>2. CASE writing # 0
    <3>1. layout = firmware /\ layout' = firmware /\ firmware' = firmware /\ saved' = setting'
      BY <1>1, <1>6, <2>2
    <3>2. Mixes(firmware, before, saved)
      <4>1. \A a \in 1 .. EndAt(firmware) :
              rom[a] = IF RomRowOf(a) >= romCache.row THEN CellOf(firmware, before, a)
                       ELSE CellOf(firmware, saved, a)
        BY <2>2, <3>1, HalfWritten
      <4> QED BY <4>1 DEF Mixes
    <3>3. saved' = LoadedOver(firmware, Uniform(firmware, Preset))
      BY <1>1, <3>1
    <3>4. \A a \in 1 .. EndAt(firmware) : rom[a] = CellOf(firmware, saved', a)
      BY <1>2, <3>2, <3>3, LoadedIsThere
    <3> QED BY <1>4, <3>1, <3>4
  <2> QED BY <2>1, <2>2
<1>7. AtRest'
  BY <1>1, <1>6 DEF AtRest
<1>8. Written' /\ Untouched'
  BY <1>1 DEF Written, Untouched
<1> QED BY <1>5, <1>7, <1>8 DEF EepromInv

LEMMA EepromStep == EepromInv /\ [EepromNext]_promVars => EepromInv'
<1> SUFFICES ASSUME EepromInv, [EepromNext]_promVars PROVE EepromInv'
  OBVIOUS
<1>1. CASE SetParameter
  BY <1>1, SetParameterStep
<1>2. CASE BeginSave
  BY <1>2, BeginSaveStep
<1>3. CASE WriteMark
  BY <1>3, WriteMarkStep
<1>4. CASE WriteRecord
  BY <1>4, WriteRecordStep
<1>5. CASE WriteEnd
  BY <1>5, WriteEndStep
<1>6. CASE Load
  BY <1>6, LoadStep
<1>7. CASE Restarts
  BY <1>7, RestartsStep
<1>8. CASE UNCHANGED promVars
  BY <1>8 DEF promVars, EepromInv, EepromTyped, AtRest, Written, Untouched, CacheOK, Effective
<1> QED BY <1>1, <1>2, <1>3, <1>4, <1>5, <1>6, <1>7, <1>8 DEF EepromNext

\* The cache and the EEPROM together have what a save has written, and what it has not yet.
THEOREM EepromInvariance == EepromSpec => []EepromInv
<1>1. EepromInit => EepromInv
  BY EepromStarts
<1>2. EepromInv /\ [EepromNext]_promVars => EepromInv'
  BY EepromStep
<1> QED BY <1>1, <1>2, PTL DEF EepromSpec

LEMMA InvSurvives == EepromInv => Survives
<1> SUFFICES ASSUME EepromInv, writing = 0, layout # <<>>
             PROVE  /\ \A fw \in Firmwares : \A id \in Ids(fw) \cap Ids(layout) :
                         SizeOf(fw, id) = SizeOf(layout, id) => Found(fw, id) = saved[id]
                    /\ valid => \A id \in Ids(firmware) :
                                  id \in Ids(layout) /\ SizeOf(firmware, id) = SizeOf(layout, id)
  BY DEF Survives
<1>1. /\ layout \in Firmwares /\ Shaped(layout, saved)
      /\ \A a \in 1 .. EndAt(layout) : rom[a] = CellOf(layout, saved, a)
      /\ valid => \A id \in Ids(firmware) : id \in Ids(layout) /\ SizeOf(firmware, id) = SizeOf(layout, id)
  BY DEF EepromInv, EepromTyped, AtRest
<1>2. Mixes(layout, saved, saved)
  BY <1>1 DEF Mixes
<1>3. /\ Bears(layout) /\ EndAt(layout) \in Nat
      /\ \A id \in Ids(layout) : \A i \in 1 .. SizeOf(layout, id) :
           /\ HeaderCell(layout, id) + i \in 2 .. EndAt(layout) - 1
           /\ \A u : CellOf(layout, u, HeaderCell(layout, id) + i) = Data(u[id][i])
           /\ Stored(HeaderCell(layout, id) + i) = rom[HeaderCell(layout, id) + i]
  BY <1>1, <1>2, DatasetBears, EndOfDataset
<1>4. ASSUME NEW fw \in Firmwares, NEW id \in Ids(fw) \cap Ids(layout), SizeOf(fw, id) = SizeOf(layout, id)
      PROVE  Found(fw, id) = saved[id]
  <2>1. Found(fw, id) = [i \in 1 .. SizeOf(layout, id) |-> Stored(HeaderCell(layout, id) + i).size]
    BY <1>1, <1>3, <1>4, FoundIn
  <2>2. ASSUME NEW i \in 1 .. SizeOf(layout, id)
        PROVE  Stored(HeaderCell(layout, id) + i).size = saved[id][i]
    <3>1. HeaderCell(layout, id) + i \in 1 .. EndAt(layout)
      BY <1>3
    <3>2. Stored(HeaderCell(layout, id) + i) = Data(saved[id][i])
      BY <1>1, <1>3, <3>1
    <3> QED BY <3>2 DEF Data
  <2>3. saved[id] = [i \in 1 .. SizeOf(layout, id) |-> saved[id][i]]
    BY <1>1 DEF Shaped
  <2>4. [i \in 1 .. SizeOf(layout, id) |-> Stored(HeaderCell(layout, id) + i).size]
        = [i \in 1 .. SizeOf(layout, id) |-> saved[id][i]]
    BY <2>2, Zenon
  <2> QED BY <2>1, <2>3, <2>4
<1> QED BY <1>1, <1>4

LEMMA InvTorn == EepromInv => TornBetweenRows
<1> SUFFICES ASSUME EepromInv, writing # 0, layout = firmware, NEW id \in Ids(firmware)
             PROVE  /\ DOMAIN Found(firmware, id) = DOMAIN before[id]
                    /\ \A i \in DOMAIN Found(firmware, id) :
                         Found(firmware, id)[i] \in {before[id][i], saved[id][i]}
                    /\ InOneRow(id) => Found(firmware, id) \in {before[id], saved[id]}
  BY DEF TornBetweenRows
<1> DEFINE s == SizeOf(firmware, id)
           cell(i) == HeaderCell(firmware, id) + i
           found == Found(firmware, id)
<1>1. /\ firmware \in Firmwares /\ Shaped(firmware, before) /\ Shaped(firmware, saved)
      /\ \A a \in 1 .. EndAt(firmware) :
              rom[a] = IF RomRowOf(a) >= romCache.row THEN CellOf(firmware, before, a)
                       ELSE CellOf(firmware, saved, a)
  BY HalfWritten
<1>2. Mixes(firmware, before, saved)
  BY <1>1 DEF Mixes
<1>3. /\ Bears(firmware) /\ EndAt(firmware) \in Nat
      /\ \A i \in 1 .. s :
           /\ cell(i) \in 2 .. EndAt(firmware) - 1 /\ Place(firmware, cell(i)) = <<id, i>>
           /\ \A u : CellOf(firmware, u, cell(i)) = Data(u[id][i])
           /\ Stored(cell(i)) = rom[cell(i)]
  BY <1>1, <1>2, DatasetBears, EndOfDataset
<1>4. found = [i \in 1 .. s |-> Stored(cell(i)).size]
  BY <1>1, <1>3, FoundIn
<1>5. /\ before[id] = [i \in 1 .. s |-> before[id][i]]
      /\ saved[id] = [i \in 1 .. s |-> saved[id][i]]
  BY <1>1 DEF Shaped
<1> HIDE DEF s, cell, found
<1>6. ASSUME NEW i \in 1 .. s
      PROVE  found[i] = IF RomRowOf(cell(i)) >= romCache.row THEN before[id][i] ELSE saved[id][i]
  <2>1. cell(i) \in 1 .. EndAt(firmware)
    BY <1>3
  <2>2. Stored(cell(i)) = Data(IF RomRowOf(cell(i)) >= romCache.row THEN before[id][i] ELSE saved[id][i])
    BY <1>1, <1>3, <2>1
  <2>3. found[i] = Stored(cell(i)).size
    BY <1>4
  <2> QED BY <2>2, <2>3 DEF Data
<1>7. DOMAIN found = 1 .. s /\ DOMAIN before[id] = 1 .. s /\ found = [i \in 1 .. s |-> found[i]]
  BY <1>4, <1>5
<1>8. ASSUME InOneRow(id) PROVE found \in {before[id], saved[id]}
  <2>1. PICK r \in RomRows : \A a \in 2 .. EndAt(firmware) - 1 :
          Place(firmware, a)[1] = id /\ Place(firmware, a)[2] > 0 => RomRowOf(a) = r
    BY <1>8 DEF InOneRow
  <2>2. ASSUME NEW i \in 1 .. s PROVE RomRowOf(cell(i)) = r
    <3>1. Place(firmware, cell(i))[1] = id /\ Place(firmware, cell(i))[2] = i /\ i > 0
      BY <1>3
    <3> QED BY <1>3, <2>1, <3>1
  <2>3. CASE r >= romCache.row
    <3>1. \A i \in 1 .. s : found[i] = before[id][i]
      BY <1>6, <2>2, <2>3
    <3>2. [i \in 1 .. s |-> found[i]] = [i \in 1 .. s |-> before[id][i]]
      BY <3>1, Zenon
    <3> QED BY <1>5, <1>7, <3>2
  <2>4. CASE ~(r >= romCache.row)
    <3>1. \A i \in 1 .. s : found[i] = saved[id][i]
      BY <1>6, <2>2, <2>4
    <3>2. [i \in 1 .. s |-> found[i]] = [i \in 1 .. s |-> saved[id][i]]
      BY <3>1, Zenon
    <3> QED BY <1>5, <1>7, <3>2
  <2> QED BY <2>3, <2>4
<1> QED BY <1>6, <1>7, <1>8 DEF found

\* Property DatasetKept for all firmwares, sizes and rows: what was saved is found by every
\* firmware that shares the parameter, and a power failure in a save over a dataset of the
\* same firmware leaves each byte as it was or was to be, and what is in one row whole.
THEOREM DatasetIsKept == EepromSpec => []DatasetKept
<1>1. EepromInv => DatasetKept
  BY InvSurvives, InvTorn DEF DatasetKept
<1> QED BY <1>1, EepromInvariance, PTL
=============================================================================
