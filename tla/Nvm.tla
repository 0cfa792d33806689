-------------------------------- MODULE Nvm --------------------------------
(***************************************************************************)
(* The upload of note maps and VMS blocks: min_vms (tsk_min.c) takes the   *)
(* packets of the host and writes them through the one row cache of nvm.c  *)
(* to the flash, where NoteMapper.c looks the map of a program up.  A map  *)
(* header and a map entry are one cell each here, and so is a block.  The  *)
(* MIN task handles a packet in one piece: the MIDI task, which looks maps *)
(* up, has the lower priority.                                             *)
(***************************************************************************)
EXTENDS Integers, Sequences, SequencesExt

CONSTANTS
    RowSize,     \* NVM_PAGE_SIZE
    MapCells,    \* MAPMEM_SIZE
    BlockCells,  \* the cells of the block memory behind it
    Uploads,     \* what the host may upload: [blocks, maps]
    Programs,    \* program numbers
    MaxUploads,  \* bound on the uploads
    MaxRestarts  \* bound on the uploads the host gives up and starts anew

CellValues == [count : Nat, from : Nat, to : Nat]

\* The host does not flush what it has not begun to write.
ASSUME NvmAssumption ==
    /\ RowSize \in Nat \ {0} /\ MapCells \in Nat \ {0} /\ BlockCells \in Nat
    /\ (MapCells + BlockCells) % RowSize = 0
    /\ \A u \in Uploads :
         /\ u.blocks # <<>> \/ u.maps # <<>>
         /\ u.blocks \in Seq(CellValues)
         /\ u.maps \in Seq([from : Nat, to : Nat, entries : Seq(CellValues)])
    /\ MaxUploads \in Nat /\ MaxRestarts \in Nat

FlashCells == 0 .. MapCells + BlockCells - 1
NoPage  == -1                               \* last_page = 0xFFFF
Blank   == [count |-> 255, from |-> 255, to |-> 255]
EndMark == [count |-> 0, from |-> 0, to |-> 0]
Null    == [state |-> "null", cells |-> <<>>]

VARIABLES
    flash,       \* the cells at NVM_mapMem
    written,     \* history: the cells with all that was written to them
    held,        \* page_content, or <<>>
    page,        \* page
    lastPage,    \* last_page
    mapHeader,   \* map_header: whether it is allocated, and its header
    mapEntries,  \* map_entries: allocated, freed or NULL, and its cells
    gotEntries,  \* n_map_entry
    writeAt,     \* last_write_index
    packets,     \* what the host still has to send of an upload
    upload,      \* history: the maps of that upload
    landed,      \* history: the maps of the last upload that was flushed
    whole,       \* history: the upload that runs began at the start of the table
    clean,       \* history: the table holds nothing of an upload that was given up
    wild,        \* history: an entry was copied outside of its allocation
    channelMap,  \* channelMap of one channel: an offset, or "null", or "default"
    program,     \* the program of the channel
    fresh,       \* history: the flash has not changed since the map was loaded
    left         \* uploads and restarts that may still come

cache   == <<flash, written, held, page, lastPage>>
parser  == <<mapHeader, mapEntries, gotEntries, writeAt>>
channel == <<channelMap, program>>
nvmVars == <<cache, parser, channel, packets, upload, landed, whole, clean, wild, fresh, left>>

NvmTypeOK ==
    /\ DOMAIN flash = FlashCells
    /\ held = <<>> \/ DOMAIN held = 0 .. RowSize - 1
    /\ page \in Int /\ lastPage \in Int
    /\ mapHeader.state \in {"null", "live"}
    /\ mapEntries.state \in {"null", "live", "freed"}
    /\ gotEntries \in 0 .. 255 /\ writeAt \in 0 .. MapCells
    /\ channelMap.at \in -1 .. MapCells
    /\ program \in Programs

NvmInit ==
    /\ flash = [c \in FlashCells |-> Blank]
    /\ written = flash /\ held = <<>> /\ page = 0 /\ lastPage = NoPage
    /\ mapHeader = Null /\ mapEntries = Null /\ gotEntries = 0 /\ writeAt = 0
    /\ packets = <<>> /\ upload = <<>> /\ landed = <<>>
    /\ whole = TRUE /\ clean = TRUE /\ wild = FALSE
    /\ channelMap = [is |-> "null", at |-> 0]
    /\ program = CHOOSE p \in Programs : \A q \in Programs : p <= q
    /\ fresh = FALSE
    /\ left = [uploads |-> MaxUploads, restarts |-> MaxRestarts]

-----------------------------------------------------------------------------
(* nvm.c *)

RowNumber(c) == c \div RowSize

\* What page_content is filled with.
FlashRow(f, row) == [o \in 0 .. RowSize - 1 |-> f[row * RowSize + o]]

\* CyWriteRowData
WriteRow(f, row, content) ==
    [c \in FlashCells |-> IF RowNumber(c) = row THEN content[c % RowSize] ELSE f[c]]

Store == [flash |-> flash, held |-> held, page |-> page, last |-> lastPage]

\* Faulty variant: a row that is left is not written.
TurnToForgets(s, row) ==
    [flash |-> s.flash, page |-> row, last |-> row,
     held |-> IF s.last = row THEN s.held ELSE FlashRow(s.flash, row)]

\* The row a write goes to is fetched, after the row held before has been written.
TurnTo(s, row) ==
    [flash |-> IF s.last \in {NoPage, row} THEN s.flash ELSE WriteRow(s.flash, s.last, s.held),
     page |-> row, last |-> row,
     held |-> IF s.last = row THEN s.held ELSE FlashRow(s.flash, row)]

\* The part of a write at index that falls into a row.
PatchRow(s, row, index, data) ==
    LET t == TurnTo(s, row)
        at(o) == row * RowSize + o - index + 1
    IN  [t EXCEPT !.held = [o \in 0 .. RowSize - 1 |->
                              IF at(o) \in DOMAIN data THEN data[at(o)] ELSE t.held[o]]]

\* nvm_write_buffer
WriteBuffer(s, index, data) ==
    LET first == RowNumber(index)
        rows  == RowNumber(index + Len(data) - 1) - first + 1
        patched[n \in 0 .. rows] ==
            IF n = 0 THEN s ELSE PatchRow(patched[n - 1], first + n - 1, index, data)
    IN  patched[rows]

\* nvm_flush
FlushStore(s) == [s EXCEPT !.flash = WriteRow(@, s.page, s.held), !.held = <<>>, !.last = NoPage]

Keep(s) ==
    /\ flash' = s.flash /\ held' = s.held /\ page' = s.page /\ lastPage' = s.last
    /\ fresh' = (fresh /\ s.flash = flash)

Put(f, index, data) ==
    [c \in FlashCells |-> IF c - index + 1 \in DOMAIN data THEN data[c - index + 1] ELSE f[c]]

Save(index, data) ==
    /\ Keep(WriteBuffer(Store, index, data))
    /\ written' = Put(written, index, data)

\* A header and the entries behind it, in two writes.
SaveBoth(index, header, entries) ==
    /\ Keep(WriteBuffer(WriteBuffer(Store, index, header), index + Len(header), entries))
    /\ written' = Put(Put(written, index, header), index + Len(header), entries)

-----------------------------------------------------------------------------
(* min_vms *)

Packet(kind) ==
    /\ packets # <<>> /\ Head(packets).kind = kind
    /\ packets' = Tail(packets)

WriteBlock ==
    /\ Packet("block")
    /\ Save(MapCells + Head(packets).id, <<Head(packets).cell>>)
    /\ UNCHANGED <<parser, channel, upload, landed, whole, clean, wild, left>>

\* A header with entries waits in memory for them; the memory of entries that were
\* not all received is not given back.
MapHeader ==
    /\ Packet("header") /\ Head(packets).cell.count # 0
    /\ mapHeader' = [state |-> "live", cells |-> <<Head(packets).cell>>]
    /\ mapEntries' = [state |-> "live", cells |-> [i \in 1 .. Head(packets).cell.count |-> Blank]]
    /\ gotEntries' = 0
    /\ UNCHANGED <<cache, channel, writeAt, upload, landed, whole, clean, wild, fresh, left>>

\* A header without entries ends the table.
MapEnd ==
    /\ Packet("header") /\ Head(packets).cell.count = 0
    /\ Save(writeAt, <<Head(packets).cell>>)
    /\ writeAt' = writeAt + 1
    /\ mapHeader' = Null /\ gotEntries' = 0
    /\ UNCHANGED <<mapEntries, channel, upload, landed, whole, clean, wild, left>>

\* Faulty variant: the map is written without its header.
MapEntryAlone ==
    /\ Packet("entry") /\ (mapHeader.state # "null" \/ mapEntries.state # "null")
    /\ gotEntries' = gotEntries + 1
    /\ wild' = (wild \/ mapEntries.state # "live" \/ gotEntries >= Len(mapEntries.cells))
    /\ LET cells == [mapEntries.cells EXCEPT ![gotEntries'] = Head(packets).cell]
       IN  IF gotEntries' = mapHeader.cells[1].count
           THEN /\ Save(writeAt, cells)
                /\ writeAt' = writeAt + Len(cells)
                /\ mapHeader' = Null /\ mapEntries' = Null
           ELSE /\ mapEntries' = [mapEntries EXCEPT !.cells = cells]
                /\ UNCHANGED <<cache, fresh, writeAt, mapHeader>>
    /\ UNCHANGED <<channel, upload, landed, whole, clean, left>>

\* The last entry of a map writes it, header first.
MapEntry ==
    /\ Packet("entry") /\ (mapHeader.state # "null" \/ mapEntries.state # "null")
    /\ gotEntries' = gotEntries + 1
    /\ wild' = (wild \/ mapEntries.state # "live" \/ gotEntries >= Len(mapEntries.cells))
    /\ LET cells == [mapEntries.cells EXCEPT ![gotEntries'] = Head(packets).cell]
       IN  IF gotEntries' = mapHeader.cells[1].count
           THEN /\ SaveBoth(writeAt, mapHeader.cells, cells)
                /\ writeAt' = writeAt + 1 + Len(cells)
                /\ mapHeader' = Null /\ mapEntries' = Null
           ELSE /\ mapEntries' = [mapEntries EXCEPT !.cells = cells]
                /\ UNCHANGED <<cache, fresh, writeAt, mapHeader>>
    /\ UNCHANGED <<channel, upload, landed, whole, clean, left>>

\* map_entries is freed and keeps its address.
FlushUpload ==
    /\ Packet("flush")
    /\ Keep(FlushStore(Store)) /\ UNCHANGED written
    /\ writeAt' = 0 /\ mapHeader' = Null
    /\ mapEntries' = [mapEntries EXCEPT !.state = IF @ = "null" THEN @ ELSE "freed"]
    /\ IF upload = <<>> THEN UNCHANGED <<landed, clean>>
                        ELSE landed' = upload /\ clean' = whole
    /\ UNCHANGED <<channel, gotEntries, upload, whole, wild, left>>

-----------------------------------------------------------------------------
(* The host *)

HeaderOf(m) == [count |-> Len(m.entries), from |-> m.from, to |-> m.to]

MapPackets(m) ==
    <<[kind |-> "header", cell |-> HeaderOf(m)]>>
        \o [i \in DOMAIN m.entries |-> [kind |-> "entry", cell |-> m.entries[i]]]

TablePackets(maps) ==
    IF maps = <<>> THEN <<>>
    ELSE FlattenSeq([i \in DOMAIN maps |-> MapPackets(maps[i])])
           \o <<[kind |-> "header", cell |-> EndMark]>>

BlockPackets(blocks) == [i \in DOMAIN blocks |-> [kind |-> "block", id |-> i - 1, cell |-> blocks[i]]]

\* Blocks, then the table with its end, then the flush that makes it last.
Packets(u) == BlockPackets(u.blocks) \o TablePackets(u.maps) \o <<[kind |-> "flush"]>>

\* Every cell the host can send.
Sent == UNION {{k.cell : k \in {q \in Range(Packets(u)) : q.kind # "flush"}} : u \in Uploads}

Upload ==
    \E u \in Uploads :
        /\ packets' = Packets(u) /\ upload' = u.maps
        /\ whole' = (writeAt = 0) /\ clean' = (clean /\ whole')

Begin ==
    /\ packets = <<>> /\ left.uploads > 0 /\ Upload
    /\ left' = [left EXCEPT !.uploads = @ - 1]
    /\ UNCHANGED <<cache, parser, channel, landed, wild, fresh>>

\* The link breaks: the host starts anew, the UD3 has not noticed.
Restart ==
    /\ packets # <<>> /\ left.restarts > 0 /\ Upload
    /\ left' = [left EXCEPT !.restarts = @ - 1]
    /\ UNCHANGED <<cache, parser, channel, landed, wild, fresh>>

-----------------------------------------------------------------------------
(* NoteMapper.c *)

Default == [is |-> "default", at |-> 0]

Covers(h, p) == h.from <= p /\ p <= h.to

\* The walk ends at the header at a place.
WalkEnds(f, at, p) ==
    f[at].count \in {0, 255} \/ Covers(f[at], p) \/ (f[at].from = 255 /\ f[at].to = 255)

\* The place of the next header is behind the entries of this one.
Onward(f, at, p) == IF at >= MapCells \/ WalkEnds(f, at, p) THEN at ELSE at + 1 + f[at].count

\* loadNewProgramm: the headers are walked until one covers the program, which takes at
\* most one round per cell.
LookupIn(f, p) ==
    LET offset[n \in 0 .. MapCells] == IF n = 0 THEN 0 ELSE Onward(f, offset[n - 1], p)
        end == offset[MapCells]
    IN  IF end < MapCells /\ f[end].count \notin {0, 255} /\ Covers(f[end], p)
        THEN [is |-> "flash", at |-> end] ELSE Default

Lookup(p) == LookupIn(flash, p)

ProgramChange ==
    /\ program' \in Programs
    /\ channelMap' = Lookup(program') /\ fresh' = TRUE
    /\ UNCHANGED <<cache, parser, packets, upload, landed, whole, clean, wild, left>>

\* The default map covers every program.
StillMatches ==
    \/ channelMap.is = "default"
    \/ channelMap.is = "flash" /\ Covers(flash[channelMap.at], program)

PlayNote ==
    /\ ~StillMatches
    /\ channelMap' = Lookup(program) /\ fresh' = TRUE
    /\ UNCHANGED <<cache, parser, packets, program, upload, landed, whole, clean, wild, left>>

MinTask == WriteBlock \/ MapHeader \/ MapEnd \/ MapEntry \/ FlushUpload

NvmNext == MinTask \/ Begin \/ Restart \/ ProgramChange \/ PlayNote

NvmSpec == NvmInit /\ [][NvmNext]_nvmVars

-----------------------------------------------------------------------------
(* Properties *)

\* The row cache is a write-back cache: no row of the flash ever holds anything but
\* what was written to it, as a whole, and a flush leaves nothing behind (nvm.c).
Rows == INSTANCE RowStore WITH
            Cells <- FlashCells, RowOf <- RowNumber,
            Contents <- {Blank} \cup Sent,
            memory <- written, flash <- flash
RowsAreKept == Rows!Spec

FirstMap(maps, p) == {i \in DOMAIN maps : maps[i].from <= p /\ p <= maps[i].to
                                         /\ \A j \in 1 .. i - 1 : ~(maps[j].from <= p /\ p <= maps[j].to)}

CellsOf(m) == <<HeaderOf(m)>> \o m.entries

\* An entry is copied into live memory that has a place for it, whatever upload was
\* given up before (tsk_min.c:345).
EntriesFit == ~wild

\* What the host has to see to: a table fits into its memory, and none of its headers
\* looks like the end of it, as the lookup stops there.
WellFormed(maps) ==
    /\ Len(TablePackets(maps)) <= MapCells
    /\ \A i \in DOMAIN maps : /\ Len(maps[i].entries) \in 1 .. 254
                              /\ ~(maps[i].from = 255 /\ maps[i].to = 255)

TablesWellFormed == \A u \in Uploads : WellFormed(u.maps)

\* Once the upload is flushed, a channel that loads a program plays the first map of
\* the table the host sent that covers it, entry for entry, or else the default map;
\* what an older and longer table left behind is not seen (NoteMapper.c:35); and
\* on the way no entry went astray.
UploadLands ==
    /\ EntriesFit
    /\ fresh /\ clean /\ packets = <<>> =>
           LET is == FirstMap(landed, program) IN
           IF is = {} THEN channelMap = Default
           ELSE \E i \in is :
                  /\ channelMap.is = "flash"
                  /\ \A k \in DOMAIN CellsOf(landed[i]) :
                       flash[channelMap.at + k - 1] = CellsOf(landed[i])[k]
=============================================================================
