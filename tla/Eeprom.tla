------------------------------- MODULE Eeprom -------------------------------
(***************************************************************************)
(* The configuration in the EEPROM (cli_basic.c): a dataset of records,    *)
(* one per configuration parameter, found again by the hash of its name,   *)
(* written byte by byte through a cache of one row.  The power may fail    *)
(* between any two rows, other terminals set parameters while one saves,   *)
(* and after an update a firmware reads the dataset of another one.        *)
(*                                                                         *)
(* A cell stands for the five bytes that begin a dataset, name and size a  *)
(* record, or end a dataset; and for each byte of a parameter.             *)
(***************************************************************************)
EXTENDS Integers, Sequences

CONSTANTS
    RomSize,     \* cells of the EEPROM
    RowLength,   \* CY_EEPROM_SIZEOF_ROW, in cells
    Firmwares,   \* the firmwares: sequences of parameters [id, size], as confparam has them
    Settings,    \* what the bytes of a parameter can be
    Preset,     \* what init_config sets
    MaxEvents    \* bound on settings, saves and power failures

RomCells == 1 .. RomSize
RomRows  == 0 .. (RomSize - 1) \div RowLength
RomRowOf(a) == (a - 1) \div RowLength
RowCells(r) == {a \in RomCells : RomRowOf(a) = r}

Begins == [kind |-> "begin", id |-> "none", size |-> 0]
Ends   == [kind |-> "end", id |-> "none", size |-> 0]
Header(p) == [kind |-> "record", id |-> p.id, size |-> p.size]
Data(v)   == [kind |-> "data", id |-> "none", size |-> v]
Erased     == [kind |-> "blank", id |-> "none", size |-> RomSize]    \* 0xFF

\* Where the dataset of a firmware has the header of its k-th parameter.
HeaderAt(fw) ==
    LET at[k \in 1 .. Len(fw) + 1] == IF k = 1 THEN 2 ELSE at[k - 1] + 1 + fw[k - 1].size IN at

EndAt(fw) == HeaderAt(fw)[Len(fw) + 1]

\* The names of a firmware's parameters have different hashes (EEPROM_check_hash).
ASSUME EepromAssumption ==
    /\ RomSize \in Nat /\ RowLength \in Nat \ {0} /\ MaxEvents \in Nat
    /\ Settings \subseteq Nat /\ Preset \in Settings
    /\ Firmwares # {}
    /\ \A fw \in Firmwares :
         /\ fw \in Seq([id : STRING, size : Nat \ {0}]) /\ fw # <<>>
         /\ \A k, l \in 1 .. Len(fw) : fw[k].id = fw[l].id => k = l
         /\ EndAt(fw) <= RomSize

VARIABLES
    rom,       \* the EEPROM
    romCache,     \* eeprom_buffer, last_row (-1 for 0xFFFF) and changed
    firmware,  \* the one that runs
    setting,   \* the bytes of each parameter in RAM
    writing,   \* the cell EEPROM_write_conf is at, 0 when it is not running
    valid,     \* ~dataset_not_valid
    layout,    \* history: the firmware that wrote the dataset, <<>> for none or a torn one
    before,    \* history: the parameters in the EEPROM when the save began,
    saved,     \* and what this save has put in their place
    events     \* events that may still come

promVars == <<rom, romCache, firmware, setting, writing, valid, layout, before, saved, events>>
promHist == <<layout, before, saved>>

Ids(fw) == {fw[k].id : k \in 1 .. Len(fw)}
SizeOf(fw, id) == fw[CHOOSE k \in 1 .. Len(fw) : fw[k].id = id].size
Uniform(fw, v) == [id \in Ids(fw) |-> [i \in 1 .. SizeOf(fw, id) |-> v]]

NoCache == [row |-> -1, cells |-> <<>>, changed |-> FALSE]

-----------------------------------------------------------------------------
(* Reading (EEPROM_read_conf) *)

Stored(a) == IF a \in RomCells THEN rom[a] ELSE Erased

\* The records a reader walks over from cell a on: <<where, header>>.
Records ==
    LET last(a) == a > RomSize \/ Stored(a).kind = "end"
        next(a) == IF last(a) THEN a ELSE a + 1 + Stored(a).size
        at[n \in 0 .. RomSize] == IF n = 0 THEN 2 ELSE next(at[n - 1])
    IN  {<<at[n], Stored(at[n])>> : n \in {m \in 0 .. RomSize : rom[1] = Begins /\ ~last(at[m])}}

Named(id) == {r \in Records : r[2].kind = "record" /\ r[2].id = id}
Fitting(fw, id) == {r \in Named(id) : r[2].size = SizeOf(fw, id)}
Latest(rs) == CHOOSE r \in rs : \A q \in rs : q[1] <= r[1]

\* The bytes of a parameter as fw finds them; it keeps its own when there are none.
Found(fw, id) ==
    IF Fitting(fw, id) = {} THEN <<>>
    ELSE [i \in 1 .. SizeOf(fw, id) |-> Stored(Latest(Fitting(fw, id))[1] + i).size]
LoadedOver(fw, old) ==
    [id \in Ids(fw) |-> IF Found(fw, id) = <<>> THEN old[id] ELSE Found(fw, id)]

\* No error: each parameter has a record, and none of another size.
NoComplaint(fw) ==
    rom[1] = Begins /\ \A id \in Ids(fw) : Named(id) # {} /\ Named(id) = Fitting(fw, id)

-----------------------------------------------------------------------------
(* Writing (EEPROM_buffer_write) *)

ReadRow(r) == [a \in RowCells(r) |-> rom[a]]

WithRow(mem, c) == [a \in RomCells |-> IF RomRowOf(a) = c.row THEN c.cells[a] ELSE mem[a]]

\* Faulty variant: going on to the next row forgets the one before.
TurnsToForgets(r) == rom

\* Another row than the one in the romCache: that one is written first if it has changed.
TurnsTo(r) == IF romCache.row # r /\ romCache.changed THEN WithRow(rom, romCache) ELSE rom

BufferWrite(cell, a, flush) ==
    LET c == IF romCache.row = RomRowOf(a) THEN romCache
             ELSE [row |-> RomRowOf(a), cells |-> ReadRow(RomRowOf(a)), changed |-> FALSE]
        w == [row |-> c.row, cells |-> [c.cells EXCEPT ![a] = cell],
              changed |-> c.changed \/ c.cells[a] # cell]
    IN  /\ rom' = IF flush /\ w.changed THEN WithRow(TurnsTo(w.row), w) ELSE TurnsTo(w.row)
        /\ romCache' = IF flush THEN NoCache ELSE w

\* What the dataset of a firmware has at a: <<record, byte>>.
Place(fw, a) ==
    LET k == CHOOSE k \in 1 .. Len(fw) : HeaderAt(fw)[k] <= a /\ a < HeaderAt(fw)[k + 1]
    IN  <<fw[k].id, a - HeaderAt(fw)[k]>>

EepromInit ==
    /\ rom = [a \in RomCells |-> Erased] /\ romCache = NoCache
    /\ firmware = CHOOSE fw \in Firmwares : \A other \in Firmwares : Len(fw) <= Len(other)
    /\ setting = Uniform(firmware, Preset)
    /\ writing = 0 /\ valid = FALSE
    /\ layout = <<>> /\ before = <<>> /\ saved = <<>>
    /\ events = MaxEvents

Event == events > 0 /\ events' = events - 1

SetParameter ==
    /\ Event
    /\ \E id \in Ids(firmware), v \in Settings :
         setting' = [setting EXCEPT ![id] = [i \in DOMAIN @ |-> v]]
    /\ UNCHANGED <<rom, romCache, firmware, writing, valid, promHist>>

BeginSave ==
    /\ Event
    /\ writing = 0 /\ writing' = 1
    /\ before' = IF layout = firmware THEN saved ELSE setting
    /\ saved' = before'
    /\ UNCHANGED <<rom, romCache, firmware, setting, valid, layout>>

WriteMark ==
    /\ writing = 1 /\ writing' = 2
    /\ BufferWrite(Begins, 1, FALSE)
    /\ UNCHANGED <<firmware, setting, valid, promHist, events>>

\* A byte of the name and size, or of the value as it is by now.
WriteRecord ==
    /\ 1 < writing /\ writing < EndAt(firmware) /\ writing' = writing + 1
    /\ LET id == Place(firmware, writing)[1]
           i == Place(firmware, writing)[2]
       IN  IF i = 0 THEN /\ BufferWrite(Header([id |-> id, size |-> SizeOf(firmware, id)]), writing, FALSE)
                         /\ UNCHANGED saved
           ELSE /\ BufferWrite(Data(setting[id][i]), writing, FALSE)
                /\ saved' = [saved EXCEPT ![id][i] = setting[id][i]]
    /\ UNCHANGED <<firmware, setting, valid, layout, before, events>>

WriteEnd ==
    /\ writing = EndAt(firmware) /\ writing' = 0
    /\ BufferWrite(Ends, writing, TRUE)
    /\ valid' = TRUE /\ layout' = firmware
    /\ UNCHANGED <<firmware, setting, before, saved, events>>

\* eeprom load
Load ==
    /\ Event /\ writing = 0
    /\ setting' = LoadedOver(firmware, setting)
    /\ valid' = (valid /\ NoComplaint(firmware))
    /\ UNCHANGED <<rom, romCache, firmware, writing, promHist>>

\* The power fails between two rows; the firmware starts again, or a new one does.  A
\* dataset that was about to replace one of another firmware is lost.
Restarts ==
    /\ Event
    /\ firmware' \in IF writing = 0 THEN Firmwares ELSE {firmware}
    /\ romCache' = NoCache /\ writing' = 0
    /\ setting' = LoadedOver(firmware', Uniform(firmware', Preset))
    /\ valid' = NoComplaint(firmware')
    /\ layout' = IF writing = 0 \/ layout = firmware THEN layout ELSE <<>>
    /\ saved' = IF writing # 0 /\ layout = firmware THEN setting' ELSE saved
    /\ UNCHANGED <<rom, before>>

EepromNext ==
    SetParameter \/ BeginSave \/ WriteMark \/ WriteRecord \/ WriteEnd \/ Load \/ Restarts

EepromSpec == EepromInit /\ [][EepromNext]_promVars

-----------------------------------------------------------------------------
(* Properties *)

InOneRow(id) ==
    \E r \in RomRows : \A a \in 2 .. EndAt(firmware) - 1 :
      Place(firmware, a)[1] = id /\ Place(firmware, a)[2] > 0 => RomRowOf(a) = r

Survives ==
    writing = 0 /\ layout # <<>> =>
        /\ \A fw \in Firmwares : \A id \in Ids(fw) \cap Ids(layout) :
             SizeOf(fw, id) = SizeOf(layout, id) => Found(fw, id) = saved[id]
        /\ valid => \A id \in Ids(firmware) :
                      id \in Ids(layout) /\ SizeOf(firmware, id) = SizeOf(layout, id)

TornBetweenRows ==
    writing # 0 /\ layout = firmware =>
        \A id \in Ids(firmware) : LET found == Found(firmware, id) IN
            /\ DOMAIN found = DOMAIN before[id]
            /\ \A i \in DOMAIN found : found[i] \in {before[id][i], saved[id][i]}
            /\ InOneRow(id) => found \in {before[id], saved[id]}

\* A dataset survives: every firmware finds in it what was saved of the parameters it
\* shares with the one that saved, whatever lay there before, and a parameter that is
\* missing or has another size is complained of, which is a fault (tsk_fault.c:240).
\* A power failure at any point of a save over a dataset of the same firmware leaves
\* each byte as it was or as it was to be, and each parameter that lies in one row as
\* a whole; a row itself is written whole or not at all.
DatasetKept == Survives /\ TornBetweenRows
=============================================================================
