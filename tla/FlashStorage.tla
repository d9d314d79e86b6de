---------------------------- MODULE FlashStorage ----------------------------
(***************************************************************************)
(* AP_FlashStorage: the virtual EEPROM kept in two flash sectors.          *)
(*                                                                         *)
(* Each sector is a header word and a log of blocks.  A write appends a    *)
(* block to the current sector; a full sector is switched for the other    *)
(* one; init() replays the logs into mem_buffer and compacts them.         *)
(*                                                                         *)
(* One action is one operation on the flash hardware (program a header,    *)
(* program a block, erase a sector) together with the RAM updates that     *)
(* follow it, so that a power failure can fall between any two of them.    *)
(* Sizes are in abstract units; the arithmetic on them is the code's.      *)
(***************************************************************************)
EXTENDS Integers, FiniteSets, TLC

CONSTANTS
    StorageSize, \* storage_size
    Values,      \* contents a block of mem_buffer can have
    Zero,        \* the all-zero block
    SectorSize,  \* flash_sector_size
    SectorHdr,   \* sizeof(sector_header)
    BlockHdr,    \* sizeof(block_header)
    BlockSize,   \* block_size
    MaxBlocks,   \* max_write / block_size
    WriteLens,   \* lengths, in blocks, of the calls of write() made by the caller
    MaxFaults,   \* bound: number of block writes that the hardware refuses
    MaxCuts,     \* bound: number of power failures
    MaxUpdates,  \* bound: number of changes of mem_buffer
    TwoPhase     \* TRUE: a block is marked WRITING, filled, marked VALID (F4)
                 \* FALSE: header and data are one flash word (H7, G4)

ASSUME SizesAssumption ==
    /\ StorageSize \in Nat \ {0} /\ MaxBlocks \in Nat \ {0}
    /\ SectorSize \in Nat /\ SectorHdr \in Nat \ {0}
    /\ BlockHdr \in Nat \ {0} /\ BlockSize \in Nat \ {0}
    /\ WriteLens \subseteq Nat \ {0} /\ MaxFaults \in Nat /\ MaxCuts \in Nat /\ MaxUpdates \in Nat
    /\ Zero \in Values
    /\ TwoPhase \in BOOLEAN


VARIABLES
    hdr,        \* state of the sector header in each sector
    body,       \* what is programmed at each offset of each sector
    mem,        \* mem_buffer
    current,    \* current_sector
    wofs,       \* write_offset
    reserved,   \* reserved_space
    werr,       \* write_error
    inSwitch,   \* in_switch_full_sector
    budget,     \* block writes refused, power failures and updates still to come
    pc,         \* the next flash operation, "idle" or "off"
    op,         \* the public call being executed
    nested,     \* executing the write_all() of protected_switch_full_sector
    base,       \* position and remaining length of the call's own write loop
    inner,      \* position of the nested write_all()
    armed,      \* hal.util->get_soft_armed(): flash_erase_ok() is its negation
    recent,     \* history: values a block had in mem since its last commit
    intact      \* history: no power failure hit one of the vulnerable windows

flashVars == <<hdr, body>>
ramVars   == <<current, wofs, reserved, werr, inSwitch>>
ctlVars   == <<pc, op, nested, base, inner>>
histVars  == <<recent, intact>>
envVars   == <<mem, armed, budget>>
vars == <<flashVars, ramVars, ctlVars, histVars, envVars>>

Sectors  == {0, 1}
NumBlocks == (StorageSize + BlockSize - 1) \div BlockSize
Blocks   == 0 .. NumBlocks - 1
Offsets  == 0 .. SectorSize - 1
MaxWrite == MaxBlocks * BlockSize

\* SectorState, and the header of a sector that was erased and not yet marked.
HdrStates == {"BLANK", "AVAILABLE", "IN_USE", "FULL"}

Erased == [state |-> "AVAILABLE"]
Entries == [state : {"WRITING", "VALID"}, first : Blocks, n : 1 .. MaxBlocks,
            data : [Blocks -> Values]]

Other(s) == 1 - s
BlankBody == [o \in Offsets |-> Erased]
AllBlocks(v) == [b \in Blocks |-> v]

\* Mutant: the headers of the blocks are not counted.
ReserveSizeNoHeaders == (StorageSize \div MaxWrite) * MaxWrite

\* Space that must be left in a sector so that init() can write out everything.
ReserveSize == (StorageSize \div MaxWrite) * (BlockHdr + MaxWrite) + MaxWrite
\* "assumes flash sectors are much bigger than storage size": a block fits
\* behind the sector header without touching the reserve.
ASSUME CapacityAssumption ==
    SectorSize >= SectorHdr + BlockHdr + MaxWrite + ReserveSize
-----------------------------------------------------------------------------
(* Replaying a sector                                                      *)

EntryEnd(o, e) == o + BlockHdr + e.n * BlockSize

InEntry(e, b) == b >= e.first /\ b < e.first + e.n

\* The contents m after the block e is loaded; an interrupted block is skipped.
Apply(e, m) ==
    IF e.state = "VALID"
    THEN [b \in Blocks |-> IF InEntry(e, b) THEN e.data[b] ELSE m[b]]
    ELSE m

\* load_sector() refuses a block that ends behind the storage.
OutOfRange(e) == e.state = "VALID" /\ (e.first + e.n) * BlockSize > StorageSize

InUse(s) == hdr[s] \in {"IN_USE", "FULL"}

\* The loop of load_sector() over a log ends at offset o.
LogEnds(log, o) == o < SectorSize - BlockHdr => log[o] = Erased

ScanDone(s, o) == InUse(s) => LogEnds(body[s], o)

\* Mutant: the sector in use is read before the FULL one.
FirstSectorInUse == IF hdr[1] = "IN_USE" THEN 1 ELSE 0

\* The sector init() reads first.
FirstSector ==
    IF \/ hdr[1] = "FULL" /\ hdr[0] # "FULL"
       \/ hdr[1] = "IN_USE" /\ hdr[0] = "AVAILABLE"
    THEN 1 ELSE 0

\* Mutant: FULL is not among the states that init() accepts.
BadHeadersFull == \E s \in Sectors : hdr[s] \in {"BLANK", "FULL"}

\* Headers that make init() call erase_all() straight away.
BadHeaders ==
    \/ \E s \in Sectors : hdr[s] = "BLANK"
    \/ hdr[0] = hdr[1] /\ hdr[0] # "AVAILABLE"
-----------------------------------------------------------------------------
(* Position of the write loops                                             *)

ChunkStarts == {p \in Blocks : p % MaxBlocks = 0}
ChunkLen(p) == IF NumBlocks - p < MaxBlocks THEN NumBlocks - p ELSE MaxBlocks
AllZero(m, p) == \A b \in Blocks : b >= p /\ b < p + ChunkLen(p) => m[b] = Zero

\* The loop of write_all() from position p on: the first chunk that is not all
\* zero, or NumBlocks when there is none.
NextChunk(m, p) ==
    {q \in ChunkStarts \cup {NumBlocks} :
        /\ q >= p
        /\ q # NumBlocks => ~AllZero(m, q)
        /\ \A r \in ChunkStarts : p <= r /\ r < q => AllZero(m, r)}

\* The block that the innermost active write() is about to append.
Pos == IF nested THEN inner ELSE base.pos
Len == IF ~nested /\ op = "write"
       THEN IF base.len < MaxBlocks THEN base.len ELSE MaxBlocks
       ELSE ChunkLen(Pos)

\* Mutants: the reserve, or the new block, is not counted.
SpaceRequiredNoReserve == BlockHdr + MaxWrite
SpaceRequiredNoBlock == reserved
SpaceRequired == BlockHdr + MaxWrite + reserved
SpaceOk == SectorSize - wofs >= SpaceRequired
-----------------------------------------------------------------------------
(* States in which a power failure makes the next init() lose data         *)

\* One turn of the loop of load_sector().
LoadStep(log, w) ==
    IF LogEnds(log, w.ofs) THEN w
    ELSE [ofs |-> EntryEnd(w.ofs, log[w.ofs]), mem |-> Apply(log[w.ofs], w.mem)]

\* The turns of load_sector() over a log, into m.
Walk(log, m) ==
    LET walk[k \in 0 .. SectorSize] ==
            IF k = 0 THEN [ofs |-> SectorHdr, mem |-> m]
            ELSE LoadStep(log, walk[k - 1])
    IN  walk

Replay(log, m) == Walk(log, m)[SectorSize]

\* What init() would load now, block by block, from sector s into m.
Scan(s, m) == IF InUse(s) THEN Replay(body[s], m) ELSE [ofs |-> SectorHdr, mem |-> m]

Loaded == Scan(Other(FirstSector), Scan(FirstSector, AllBlocks(Zero)).mem)

\* Space that write_all() needs from offset o on: each write() wants room for
\* the largest block.
ChunksToWrite(m) == Cardinality({p \in ChunkStarts : ~AllZero(m, p)})
WriteOutFits(o, m) ==
    ChunksToWrite(m) = 0 \/ o + ChunksToWrite(m) * (BlockHdr + MaxWrite) <= SectorSize

\* One sector is marked FULL and the other is not yet marked IN_USE.
SwitchWindow == {hdr[0], hdr[1]} = {"FULL", "AVAILABLE"}
\* A sector is erased and its header is not yet (completely) programmed.
EraseWindow  == (\E s \in Sectors : hdr[s] = "BLANK") \/ (\A s \in Sectors : hdr[s] = "AVAILABLE")
\* The write-out of init() no longer fits behind the log of the sector in use.
ReserveSpent ==
    /\ {hdr[0], hdr[1]} = {"FULL", "IN_USE"}
    /\ ~WriteOutFits(Loaded.ofs, Loaded.mem)

Vulnerable == SwitchWindow \/ EraseWindow \/ ReserveSpent
-----------------------------------------------------------------------------
(* Returning from the nested calls                                         *)

\* re_initialise() called by the flash_write callback inside write() or init().
ReInit == {"reinit", "reinitInInit"}

Goto(l) == pc' = l /\ UNCHANGED <<op, nested, base, inner>>

\* The public call returns to its caller.
Done == pc' = "idle" /\ op' = "none" /\ nested' = FALSE /\ UNCHANGED <<base, inner>>

\* write() returns false at the innermost level and so do the calls around it.
\* A failing write_all() makes init() call erase_all().
ReturnFalse ==
    /\ inSwitch' = FALSE
    /\ IF op \in {"init", "reinitInInit"}
       THEN pc' = "erase0" /\ op' = "init" /\ nested' = FALSE /\ UNCHANGED <<base, inner>>
       ELSE Done

\* write_all() of init() or re_initialise() goes on at position p.  The caller
\* of re_initialise() returns false whatever the outcome.
BaseLoop(p) ==
    \E q \in NextChunk(mem, p) :
        IF q # NumBlocks
        THEN /\ base' = [pos |-> q, len |-> 0] /\ pc' = "check"
             /\ UNCHANGED <<op, nested, inner, inSwitch>>
        ELSE IF op = "init" THEN Goto("initErase") /\ UNCHANGED inSwitch
        ELSE ReturnFalse

\* write_all() of protected_switch_full_sector() goes on at position p.
InnerLoop(p) ==
    \E q \in NextChunk(mem, p) :
        /\ inner' = q /\ nested' = TRUE
        /\ pc' = IF q # NumBlocks THEN "check" ELSE "switchErase"
        /\ UNCHANGED <<op, base>>

\* The block at Pos is in flash: the write loop advances.
Advance ==
    IF nested THEN InnerLoop(Pos + Len) /\ UNCHANGED inSwitch
    ELSE IF op # "write" THEN BaseLoop(Pos + Len)
    ELSE /\ UNCHANGED inSwitch
         /\ IF base.len > Len
            THEN /\ base' = [pos |-> Pos + Len, len |-> base.len - Len]
                 /\ pc' = "check" /\ UNCHANGED <<op, nested, inner>>
            ELSE Done
-----------------------------------------------------------------------------
(* write()                                                                 *)

\* A caller asks for len blocks from first on to be made durable.
Write(first, len) ==
    /\ pc = "idle" /\ first + len <= NumBlocks
    /\ pc' = "check" /\ op' = "write" /\ base' = [pos |-> first, len |-> len]
    /\ UNCHANGED <<flashVars, ramVars, histVars, nested, inner, envVars>>

WriteError ==
    /\ pc = "check" /\ werr
    /\ ReturnFalse
    /\ UNCHANGED <<flashVars, histVars, current, wofs, reserved, werr, envVars>>

EnoughSpace ==
    /\ pc = "check" /\ ~werr /\ SpaceOk
    /\ Goto("program")
    /\ UNCHANGED <<flashVars, ramVars, histVars, envVars>>

CanSwitch == reserved = 0 /\ hdr[Other(current)] = "AVAILABLE"

SwitchSectors ==
    /\ pc = "check" /\ ~werr /\ ~SpaceOk /\ CanSwitch
    /\ Goto("markFull")
    /\ UNCHANGED <<flashVars, ramVars, histVars, envVars>>

\* Mutant: no protection against recursion.
FullSwitchOkRecursive == ~armed
\* Erasing is allowed now, and switch_full_sector() is not running already.
FullSwitchOk == ~armed /\ ~inSwitch

\* switch_sectors() fails and a full switch is not possible either.
SwitchRefused ==
    /\ pc = "check" /\ ~werr /\ ~SpaceOk /\ ~CanSwitch
    /\ ~FullSwitchOk
    /\ werr' = (reserved = 0)
    /\ ReturnFalse
    /\ UNCHANGED <<flashVars, histVars, current, wofs, reserved, envVars>>

\* switch_full_sector(): write everything to the current sector again, so that
\* the other one can be erased.
SwitchFullSector ==
    /\ pc = "check" /\ ~werr /\ ~SpaceOk /\ ~CanSwitch
    /\ FullSwitchOk
    /\ inSwitch' = TRUE /\ werr' = FALSE /\ reserved' = 0
    /\ InnerLoop(0)
    /\ UNCHANGED <<flashVars, histVars, current, wofs, envVars>>

\* The copy of the blocks Pos .. Pos+Len-1 of mem_buffer that goes to flash.
NewEntry(st) ==
    [state |-> st, first |-> Pos, n |-> Len,
     data |-> [b \in Blocks |-> IF b >= Pos /\ b < Pos + Len THEN mem[b] ELSE Zero]]

\* hal.flash->write() succeeds on blank flash and where the same bits are
\* programmed already.  H7 looks before it writes.
Fresh(e) == wofs >= SectorHdr /\ body[current][wofs] \in {Erased, e}

\* F4 writes and reads back.  Writing only clears bits, so that over a block that
\* was left unfinished it depends on the bits whether it succeeds.
Programmable(e) ==
    \/ Fresh(e)
    \/ TwoPhase /\ wofs >= SectorHdr /\ body[current][wofs].state = "WRITING"

\* The block e at write_offset is complete; it now counts as committed.
Commit(e) ==
    /\ body' = [body EXCEPT ![current][wofs] = e]
    /\ wofs' = EntryEnd(wofs, e)
    /\ recent' = [b \in Blocks |-> IF InEntry(e, b) THEN {e.data[b], mem[b]} ELSE recent[b]]
    /\ Advance
    /\ UNCHANGED <<hdr, current, reserved, werr, intact, envVars>>

\* F4: the header with BLOCK_STATE_WRITING.  The data is copied before it.
ProgramWriting ==
    /\ pc = "program" /\ TwoPhase /\ Programmable(NewEntry("WRITING"))
    /\ body' = [body EXCEPT ![current][wofs] = NewEntry("WRITING")]
    /\ Goto("validate")
    /\ UNCHANGED <<hdr, ramVars, histVars, envVars>>

\* F4: the data and then the header with BLOCK_STATE_VALID.
ProgramValid ==
    /\ pc = "validate"
    /\ Commit([body[current][wofs] EXCEPT !.state = "VALID"])

\* H7, G4: header and data in one flash word.
ProgramWord ==
    /\ pc = "program" /\ ~TwoPhase /\ Programmable(NewEntry("VALID"))
    /\ Commit(NewEntry("VALID"))
-----------------------------------------------------------------------------
(* switch_sectors() and protected_switch_full_sector()                     *)

EraseSector(s) ==
    /\ hdr' = [hdr EXCEPT ![s] = "BLANK"]
    /\ body' = [body EXCEPT ![s] = BlankBody]

Mark(s, st) ==
    /\ hdr' = [hdr EXCEPT ![s] = st]
    /\ UNCHANGED body

MarkFull ==
    /\ pc = "markFull"
    /\ Mark(current, "FULL")
    /\ Goto("markInUse")
    /\ UNCHANGED <<ramVars, histVars, envVars>>

\* Mutant: write_offset is not moved to the start of the new sector.
MarkInUseNoRewind ==
    /\ pc = "markInUse"
    /\ Mark(Other(current), "IN_USE")
    /\ current' = Other(current)
    /\ reserved' = ReserveSize
    /\ Goto("program")
    /\ UNCHANGED <<wofs, werr, inSwitch, histVars, envVars>>

MarkInUse ==
    /\ pc = "markInUse"
    /\ Mark(Other(current), "IN_USE")
    /\ current' = Other(current)
    /\ reserved' = ReserveSize
    /\ wofs' = SectorHdr
    /\ Goto("program")
    /\ UNCHANGED <<werr, inSwitch, histVars, envVars>>

SwitchErase ==
    /\ pc = "switchErase"
    /\ EraseSector(Other(current))
    /\ Goto("switchAvailable")
    /\ UNCHANGED <<ramVars, histVars, envVars>>

\* The sector is available again and switch_sectors() is called; the write()
\* that called switch_full_sector() then goes on in the new sector.
SwitchAvailable ==
    /\ pc = "switchAvailable"
    /\ Mark(Other(current), "AVAILABLE")
    /\ IF reserved = 0
       THEN /\ pc' = "markFull" /\ nested' = FALSE /\ inSwitch' = FALSE
            /\ UNCHANGED <<op, base, inner>>
       ELSE ReturnFalse
    /\ UNCHANGED <<current, wofs, reserved, werr, histVars, envVars>>
-----------------------------------------------------------------------------
(* erase_all(), init() and re_initialise()                                 *)

Erase0 ==
    /\ pc = "erase0"
    /\ EraseSector(0)
    /\ werr' = FALSE /\ current' = 0 /\ wofs' = SectorHdr
    /\ Goto("erase1")
    /\ UNCHANGED <<reserved, inSwitch, histVars, envVars>>

Erase1 ==
    /\ pc = "erase1"
    /\ EraseSector(1)
    /\ Goto("available1")
    /\ UNCHANGED <<ramVars, histVars, envVars>>

Available1 ==
    /\ pc = "available1"
    /\ Mark(1, "AVAILABLE")
    /\ Goto("inUse0")
    /\ UNCHANGED <<ramVars, histVars, envVars>>

\* H7, G4: the header that says IN_USE is two flash words, and after the first
\* one it reads as AVAILABLE.
FirstWord0 ==
    /\ pc = "inUse0" /\ ~TwoPhase /\ hdr[0] = "BLANK"
    /\ Mark(0, "AVAILABLE")
    /\ Goto("inUse0")
    /\ UNCHANGED <<ramVars, histVars, envVars>>

\* The end of erase_all(); re_initialise() goes on with write_all().  What it
\* wrote is lost again when the init() around it goes on to erase_all().
InUse0 ==
    /\ pc = "inUse0" /\ (TwoPhase \/ hdr[0] = "AVAILABLE")
    /\ Mark(0, "IN_USE")
    /\ IF op \in ReInit THEN BaseLoop(0) ELSE Done /\ UNCHANGED inSwitch
    /\ recent' = [b \in Blocks |-> {Zero, mem[b]}]
    /\ intact' = (intact \/ op # "reinitInInit")
    /\ UNCHANGED <<current, wofs, reserved, werr, envVars>>

\* erase(): the caller wants an empty storage.
Erase ==
    /\ pc = "idle"
    /\ pc' = "erase0" /\ op' = "erase"
    /\ UNCHANGED <<flashVars, ramVars, histVars, nested, base, inner, envVars>>

\* init() reads the headers.  write_offset is 0 until a sector is loaded.
Boot ==
    /\ pc = "off"
    /\ op' = "init"
    /\ IF BadHeaders THEN pc' = "erase0" /\ UNCHANGED <<current, wofs>>
       ELSE /\ pc' = "load1" /\ current' = FirstSector
            /\ wofs' = IF InUse(FirstSector) THEN SectorHdr ELSE wofs
    /\ UNCHANGED <<flashVars, reserved, werr, inSwitch, histVars, nested, base, inner, envVars>>

\* load_sector(): first the older sector, then the other one.
LoadingSector == IF pc = "load1" THEN current ELSE Other(current)

LoadBlock ==
    /\ pc \in {"load1", "load2"} /\ ~ScanDone(LoadingSector, wofs)
    /\ LET e == body[LoadingSector][wofs]
       IN  IF OutOfRange(e) THEN Goto("erase0") /\ UNCHANGED <<mem, wofs>>
           ELSE mem' = Apply(e, mem) /\ wofs' = EntryEnd(wofs, e) /\ Goto(pc)
    /\ UNCHANGED <<flashVars, current, reserved, werr, inSwitch, histVars, armed, budget>>

\* Mutant: only the first sector is loaded.
LoadDoneEarly ==
    /\ pc \in {"load1", "load2"} /\ ScanDone(LoadingSector, wofs)
    /\ Goto("loaded")
    /\ UNCHANGED <<flashVars, ramVars, histVars, envVars>>

LoadDone ==
    /\ pc \in {"load1", "load2"} /\ ScanDone(LoadingSector, wofs)
    /\ IF pc = "load2" THEN Goto("loaded") /\ UNCHANGED wofs
       ELSE Goto("load2") /\ wofs' = IF InUse(Other(current)) THEN SectorHdr ELSE wofs
    /\ UNCHANGED <<flashVars, current, reserved, werr, inSwitch, histVars, envVars>>

\* If the first sector is FULL everything is written to the other one ...
InitWriteAll ==
    /\ pc = "loaded"
    /\ IF hdr[current] = "FULL"
       THEN current' = Other(current) /\ BaseLoop(0)
       ELSE Done /\ UNCHANGED <<current, inSwitch>>
    /\ recent' = [b \in Blocks |-> {mem[b]}]
    /\ UNCHANGED <<flashVars, wofs, reserved, werr, intact, envVars>>

\* ... and the FULL sector is erased.
InitErase ==
    /\ pc = "initErase"
    /\ EraseSector(Other(current))
    /\ Goto("initAvailable")
    /\ UNCHANGED <<ramVars, histVars, envVars>>

InitAvailable ==
    /\ pc = "initAvailable"
    /\ Mark(Other(current), "AVAILABLE")
    /\ reserved' = 0
    /\ Done
    /\ UNCHANGED <<current, wofs, werr, inSwitch, histVars, envVars>>
-----------------------------------------------------------------------------
(* The environment                                                         *)

\* flash_write() fails after STORAGE_FLASH_RETRIES attempts.  The callback then
\* calls re_initialise() when disarmed, at most every five seconds, and returns
\* false in any case.
FailedWrite ==
    /\ \/ ReturnFalse
       \/ /\ ~armed /\ op \notin ReInit
          /\ pc' = "erase0" /\ nested' = FALSE
          /\ op' = IF op = "init" THEN "reinitInInit" ELSE "reinit"
          /\ UNCHANGED <<inSwitch, base, inner>>
    /\ UNCHANGED <<hdr, current, wofs, reserved, werr, histVars, mem, armed>>

\* The hardware refuses; the block header may have been programmed.
WriteFault ==
    /\ pc \in {"program", "validate"} /\ budget.faults < MaxFaults
    /\ budget' = [budget EXCEPT !.faults = @ + 1]
    /\ \/ UNCHANGED body
       \/ /\ pc = "program" /\ TwoPhase /\ Programmable(NewEntry("WRITING"))
          /\ body' = [body EXCEPT ![current][wofs] = NewEntry("WRITING")]
    /\ FailedWrite

\* The flash at write_offset is not blank, and the write is refused for it.
Unprogrammable ==
    /\ pc = "program"
    /\ ~Fresh(NewEntry(IF TwoPhase THEN "WRITING" ELSE "VALID"))
    /\ UNCHANGED <<body, budget>>
    /\ FailedWrite

\* The main thread changes mem_buffer, at any time once init() is over.
Running == pc # "off" /\ op \notin {"init", "reinitInInit"}

Update(b, v) ==
    /\ Running /\ mem[b] # v /\ budget.updates > 0
    /\ budget' = [budget EXCEPT !.updates = @ - 1]
    /\ mem' = [mem EXCEPT ![b] = v]
    /\ recent' = [recent EXCEPT ![b] = @ \cup {v}]
    /\ UNCHANGED <<flashVars, ramVars, ctlVars, intact, armed>>

ArmOrDisarm ==
    /\ Running
    /\ armed' = ~armed
    /\ UNCHANGED <<flashVars, ramVars, ctlVars, histVars, mem, budget>>

PowerFailure ==
    /\ pc # "off" /\ budget.cuts > 0
    /\ budget' = [budget EXCEPT !.cuts = @ - 1]
    /\ pc' = "off" /\ op' = "none" /\ nested' = FALSE
    /\ base' = [pos |-> 0, len |-> 0] /\ inner' = 0
    /\ current' = 0 /\ wofs' = 0 /\ reserved' = 0 /\ werr' = FALSE /\ inSwitch' = FALSE
    /\ mem' = AllBlocks(Zero) /\ armed' = FALSE
    /\ intact' = (intact /\ ~Vulnerable)
    /\ UNCHANGED <<flashVars, recent>>
-----------------------------------------------------------------------------
\* A flash chip that has never been used.
Init ==
    /\ hdr = [s \in Sectors |-> "BLANK"]
    /\ body = [s \in Sectors |-> BlankBody]
    /\ pc = "off" /\ op = "none" /\ nested = FALSE
    /\ base = [pos |-> 0, len |-> 0] /\ inner = 0
    /\ current = 0 /\ wofs = 0 /\ reserved = 0 /\ werr = FALSE /\ inSwitch = FALSE
    /\ mem = AllBlocks(Zero) /\ armed = FALSE
    /\ budget = [faults |-> 0, cuts |-> MaxCuts, updates |-> MaxUpdates]
    /\ recent = [b \in Blocks |-> {Zero}] /\ intact = FALSE

\* The flash operations of the call that is being executed.
Step ==
    \/ WriteError \/ EnoughSpace \/ SwitchSectors \/ SwitchRefused \/ SwitchFullSector
    \/ ProgramWriting \/ ProgramValid \/ ProgramWord \/ Unprogrammable
    \/ MarkFull \/ MarkInUse \/ SwitchErase \/ SwitchAvailable
    \/ Erase0 \/ Erase1 \/ Available1 \/ FirstWord0 \/ InUse0
    \/ Boot \/ LoadBlock \/ LoadDone \/ InitWriteAll \/ InitErase \/ InitAvailable

Next ==
    \/ Step
    \/ \E b \in Blocks, n \in WriteLens : Write(b, n)
    \/ Erase
    \/ \E b \in Blocks, v \in Values : Update(b, v)
    \/ ArmOrDisarm \/ WriteFault \/ PowerFailure

Spec == Init /\ [][Next]_vars /\ WF_vars(Step)
-----------------------------------------------------------------------------
(* Properties                                                              *)

PCs == {"off", "idle", "load1", "load2", "loaded", "check", "program", "validate",
        "markFull", "markInUse", "switchErase", "switchAvailable", "initErase",
        "initAvailable", "erase0", "erase1", "available1", "inUse0"}

\* Every variable keeps its type.
TypeOK ==
    /\ hdr \in [Sectors -> HdrStates]
    /\ body \in [Sectors -> [Offsets -> Entries \cup {Erased}]]
    /\ mem \in [Blocks -> Values]
    /\ current \in Sectors /\ wofs \in 0 .. SectorSize
    /\ reserved \in {0, ReserveSize}
    /\ werr \in BOOLEAN /\ inSwitch \in BOOLEAN /\ nested \in BOOLEAN
    /\ armed \in BOOLEAN /\ intact \in BOOLEAN
    /\ pc \in PCs
    /\ op \in {"none", "write", "erase", "init"} \cup ReInit
    /\ base \in [pos : 0 .. NumBlocks, len : 0 .. NumBlocks] /\ inner \in 0 .. NumBlocks
    /\ recent \in [Blocks -> SUBSET Values]
    /\ budget \in [faults : Nat, cuts : Nat, updates : Nat]

\* At every moment outside the vulnerable windows the two logs hold, for every
\* block, the value last written by a write() that completed, or a newer one
\* (load_sector() after write(), switch_sectors() and the write-outs).
LogsHoldCommitted ==
    intact /\ ~Vulnerable => \A b \in Blocks : Loaded.mem[b] \in recent[b]

\* The block-by-block loading of init() gives each block its committed value or
\* a newer one, if the power failed outside the vulnerable windows.
BootRecovers ==
    intact /\ pc = "loaded" => \A b \in Blocks : mem[b] \in recent[b]

\* The hardware has refused no block write so far.
NoRefusal == budget.faults = 0

\* When no call is running, and unless a block write was refused, a power failure
\* loses nothing: headers are complete and the reserve of switch_sectors() still
\* has room for the write-out of init().
AtRestSafe == NoRefusal /\ intact /\ pc = "idle" => ~Vulnerable

\* init() calls erase_all() only when the power failed in a vulnerable window, or
\* a block write was refused.
BootKeepsData == NoRefusal /\ intact => ~(op = "init" /\ pc = "erase0")

\* The latch write_error, which makes every later write() fail, is never set
\* unless a block write was refused.
NoWriteError == NoRefusal /\ intact => ~werr

\* As long as no block write was refused, a block is only programmed on blank
\* flash inside the sector: "writing can only clear bits".
ProgramsBlankFlash ==
    NoRefusal /\ intact /\ pc = "program" =>
        \A o \in wofs .. wofs + BlockHdr + Len * BlockSize - 1 :
            o \in Offsets /\ body[current][o] = Erased

\* Blocks never run over the end of the sector, and the space that
\* switch_sectors() reserved for the write-out of init() is not used up by
\* write().
SpaceKept ==
    /\ reserved # 0 => SectorSize - wofs >= reserved
    /\ pc \in {"program", "validate"} => wofs + BlockHdr + Len * BlockSize <= SectorSize

\* Every call of write(), erase() and init() returns, unless the power fails.
CallsReturn == op # "none" ~> op = "none"
-----------------------------------------------------------------------------
(* What comments in the code say, and the code does not do                 *)

\* A power failure between marking the old sector FULL and the new one IN_USE
\* does not leave init() with an erase.
SwitchSurvivesPowerFailure == ~(op = "init" /\ pc = "erase0" /\ SwitchWindow)
=============================================================================
