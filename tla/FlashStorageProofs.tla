------------------------- MODULE FlashStorageProofs -------------------------
(***************************************************************************)
(* Proofs about FlashStorage for every size of storage, sector, header and *)
(* block that satisfies SizesAssumption and CapacityAssumption: the log    *)
(* stays inside its sector (IInv), and the facts about logs on which       *)
(* FlashDataProofs builds: what replaying them loads, and the room they    *)
(* leave.                                                                  *)
(***************************************************************************)
EXTENDS FlashStorage, WellFoundedInduction, TLAPS

\* A leaf is proved by Zenon unless it names SMT, which does the arithmetic.
USE Zenon

\* The sizes computed from the constants are natural numbers, and a block of
\* at most MaxBlocks storage blocks needs at most MaxWrite.
LEMMA SizeFacts ==
    /\ MaxWrite \in Nat \ {0}
    /\ NumBlocks \in Nat \ {0}
    /\ ReserveSize \in Nat
    /\ \A n \in 1 .. MaxBlocks : n * BlockSize \in Nat \ {0} /\ n * BlockSize <= MaxWrite
<1>1. MaxWrite \in Nat \ {0}
  BY SizesAssumption, SMT DEF MaxWrite
<1>2. NumBlocks \in Nat \ {0}
  <2>1. \A a, d \in Nat \ {0} : a \div d \in Nat
    BY SMT
  <2>2. \A a, d \in Nat \ {0} : a >= d => a \div d # 0
    BY SMT
  <2> QED BY <2>1, <2>2, SizesAssumption, SMT DEF NumBlocks
<1>3. ReserveSize \in Nat
  <2>1. StorageSize \div MaxWrite \in Nat
    BY <1>1, SizesAssumption, SMT
  <2>2. BlockHdr + MaxWrite \in Nat
    BY <1>1, SizesAssumption, SMT
  <2> QED BY <1>1, <2>1, <2>2, SMT DEF ReserveSize
<1>4. \A n \in 1 .. MaxBlocks : n * BlockSize \in Nat \ {0} /\ n * BlockSize <= MaxWrite
  BY SizesAssumption, SMT DEF MaxWrite
<1> QED BY <1>1, <1>2, <1>3, <1>4
-----------------------------------------------------------------------------
\* Every block in flash ends inside its sector.
EntriesFit ==
    \A s \in Sectors, o \in Offsets :
        body[s][o] # Erased => EntryEnd(o, body[s][o]) <= SectorSize

\* A block is about to be programmed: it fits in front of the reserve.
RoomToProgram ==
    pc \in {"program", "validate"} =>
        SectorSize - wofs >= BlockHdr + MaxWrite + reserved

\* The positions of the active write loops are inside the storage.
LoopsInside ==
    /\ pc \in {"check", "program", "validate", "markFull", "markInUse",
               "switchErase", "switchAvailable"} =>
         IF op = "write" THEN base.len >= 1 /\ base.pos + base.len <= NumBlocks
                         ELSE base.pos < NumBlocks
    /\ pc \in {"check", "program", "validate", "markFull", "markInUse"} /\ nested =>
         inner < NumBlocks

\* Control: the variables that say where the nested calls are.
CtlOK ==
    /\ pc \in PCs
    /\ op \in {"none", "write", "erase", "init"} \cup ReInit
    /\ nested \in BOOLEAN /\ inSwitch \in BOOLEAN
    /\ base \in [pos : 0 .. NumBlocks, len : 0 .. NumBlocks] /\ inner \in 0 .. NumBlocks
    /\ LoopsInside
    /\ nested => pc \in {"check", "program", "validate", "markFull", "markInUse",
                         "switchErase", "switchAvailable"}
    /\ pc \in {"load1", "load2", "loaded"} => op = "init"

\* The inductive invariant.
IInv ==
    /\ TypeOK
    /\ CtlOK
    /\ EntriesFit
    /\ RoomToProgram
    /\ reserved # 0 => SectorSize - wofs >= reserved
    /\ pc = "validate" => body[current][wofs] # Erased
    /\ pc \in {"off", "load1", "load2", "loaded"} => reserved = 0

\* An erased cell is not a block: the state field tells them apart.
LEMMA ErasedNotEntry == Erased \notin Entries
<1> SUFFICES ASSUME Erased \in Entries PROVE FALSE OBVIOUS
<1>1. Erased.state \in {"WRITING", "VALID"} BY DEF Entries
<1>2. Erased.state = "AVAILABLE" BY DEF Erased
<1> QED BY <1>1, <1>2

\* The piece of storage that the innermost write() appends is not empty, fits in
\* one block, and lies inside the storage.
LEMMA PosLen ==
    ASSUME IInv, pc \in {"check", "program", "validate"}
    PROVE  Pos \in Blocks /\ Len \in 1 .. MaxBlocks /\ Pos + Len <= NumBlocks
BY SizeFacts, SizesAssumption, SMT DEF IInv, CtlOK, LoopsInside, Pos, Len, ChunkLen, Blocks

\* What is programmed is a block of the log.
LEMMA NewEntryType ==
    ASSUME IInv, pc \in {"check", "program", "validate"}, NEW st \in {"WRITING", "VALID"}
    PROVE  NewEntry(st) \in Entries /\ NewEntry(st).n = Len /\ NewEntry(st) # Erased
<1>1. Pos \in Blocks /\ Len \in 1 .. MaxBlocks BY PosLen
<1>2. [b \in Blocks |-> IF b >= Pos /\ b < Pos + Len THEN mem[b] ELSE Zero] \in [Blocks -> Values]
  BY SizesAssumption DEF IInv, TypeOK
<1>3. NewEntry(st) \in Entries BY <1>1, <1>2 DEF NewEntry, Entries
<1> QED BY <1>3, ErasedNotEntry DEF NewEntry

\* The loop of write_all() stays inside the storage.
LEMMA NextChunkRange ==
    ASSUME NEW m, NEW p, NEW q \in NextChunk(m, p)
    PROVE  q \in 0 .. NumBlocks /\ (q # NumBlocks => q < NumBlocks)
BY SizeFacts, SMT DEF NextChunk, ChunkStarts, Blocks
-----------------------------------------------------------------------------
(* The control operators keep CtlOK                                        *)

\* Returning from the nested calls keeps the control variables sound: failing, ...
LEMMA ReturnFalseCtl ==
    ASSUME CtlOK, ReturnFalse
    PROVE  CtlOK' /\ pc' \in {"idle", "erase0"}
BY DEF CtlOK, LoopsInside, ReturnFalse, Done, PCs, ReInit

\* ... returning to the caller, ...
LEMMA DoneCtl ==
    ASSUME CtlOK, Done, inSwitch' \in BOOLEAN
    PROVE  CtlOK' /\ pc' = "idle"
BY DEF CtlOK, LoopsInside, Done, PCs

\* ... going on with the write_all() of init() or re_initialise(), ...
LEMMA BaseLoopCtl ==
    ASSUME CtlOK, NEW p, BaseLoop(p), ~nested, op # "write"
    PROVE  CtlOK' /\ pc' \in {"idle", "erase0", "check", "initErase"}
<1> PICK q \in NextChunk(mem, p) : 
        IF q # NumBlocks
        THEN /\ base' = [pos |-> q, len |-> 0] /\ pc' = "check"
             /\ UNCHANGED <<op, nested, inner, inSwitch>>
        ELSE IF op = "init" THEN Goto("initErase") /\ UNCHANGED inSwitch
        ELSE ReturnFalse
  BY DEF BaseLoop
<1>1. CASE q # NumBlocks
  BY <1>1, NextChunkRange, SizeFacts, SMT DEF CtlOK, LoopsInside, PCs
<1>2. CASE q = NumBlocks /\ op = "init"
  BY <1>2 DEF CtlOK, LoopsInside, PCs, Goto
<1>3. CASE q = NumBlocks /\ op # "init"
  BY <1>3, ReturnFalseCtl
<1> QED BY <1>1, <1>2, <1>3

\* ... going on with the one of switch_full_sector(), ...
LEMMA InnerLoopCtl ==
    ASSUME CtlOK, NEW p, InnerLoop(p), inSwitch' \in BOOLEAN,
           pc \in {"check", "program", "validate"}
    PROVE  CtlOK' /\ pc' \in {"check", "switchErase"}
<1> PICK q \in NextChunk(mem, p) :
        /\ inner' = q /\ nested' = TRUE
        /\ pc' = IF q # NumBlocks THEN "check" ELSE "switchErase"
        /\ UNCHANGED <<op, base>>
  BY DEF InnerLoop
<1> QED BY NextChunkRange, SizeFacts DEF CtlOK, LoopsInside, PCs

\* ... and going on after a block, at whichever level.
LEMMA AdvanceCtl ==
    ASSUME IInv, Advance, pc \in {"program", "validate"}
    PROVE  CtlOK' /\ pc' \in {"idle", "erase0", "check", "initErase", "switchErase"}
<1> USE DEF IInv
<1>1. CASE nested
  BY <1>1, InnerLoopCtl DEF Advance, CtlOK
<1>2. CASE ~nested /\ op # "write"
  BY <1>2, BaseLoopCtl DEF Advance
<1>3. CASE ~nested /\ op = "write" /\ base.len > Len
  BY <1>3, PosLen, SizeFacts, SMT DEF Advance, CtlOK, LoopsInside, PCs, Pos
<1>4. CASE ~nested /\ op = "write" /\ ~(base.len > Len)
  BY <1>4, DoneCtl DEF Advance, CtlOK
<1> QED BY <1>1, <1>2, <1>3, <1>4
-----------------------------------------------------------------------------
(* Every step keeps the inductive invariant                                *)

\* A block that is programmed starts inside the sector.
LEMMA WriteOffsetInside ==
    ASSUME IInv, pc \in {"program", "validate"}
    PROVE  wofs \in Offsets
BY SizeFacts, SizesAssumption, SMT DEF IInv, TypeOK, RoomToProgram, Offsets

\* Programming one block keeps the log well-formed.
LEMMA ProgramKeepsLog ==
    ASSUME IInv, pc \in {"program", "validate"}, NEW e \in Entries,
           body' = [body EXCEPT ![current][wofs] = e]
    PROVE  /\ body' \in [Sectors -> [Offsets -> Entries \cup {Erased}]]
           /\ EntriesFit'
           /\ wofs \in Offsets /\ body'[current][wofs] = e
           /\ EntryEnd(wofs, e) \in 0 .. SectorSize
           /\ SectorSize - EntryEnd(wofs, e) >= reserved
<1>1. /\ wofs \in Offsets /\ current \in Sectors
      /\ body \in [Sectors -> [Offsets -> Entries \cup {Erased}]]
  BY WriteOffsetInside DEF IInv, TypeOK
<1>2. /\ body' \in [Sectors -> [Offsets -> Entries \cup {Erased}]]
      /\ body'[current][wofs] = e
      /\ \A s \in Sectors, o \in Offsets :
            body'[s][o] = IF s = current /\ o = wofs THEN e ELSE body[s][o]
  BY <1>1
<1>3. e.n \in 1 .. MaxBlocks
  BY DEF Entries
<1>4. e.n * BlockSize \in Nat /\ e.n * BlockSize <= MaxWrite
  BY <1>3, SizeFacts
<1>5. /\ EntryEnd(wofs, e) \in 0 .. SectorSize
      /\ SectorSize - EntryEnd(wofs, e) >= reserved
  BY <1>4, SizeFacts, SizesAssumption, SMT DEF IInv, TypeOK, RoomToProgram, EntryEnd
<1>6. EntriesFit'
  BY <1>2, <1>5, SMT DEF IInv, EntriesFit, EntryEnd
<1> QED BY <1>1, <1>2, <1>5, <1>6

\* Completing a block keeps the invariant.
LEMMA CommitInv ==
    ASSUME IInv, pc \in {"program", "validate"}, NEW e \in Entries, Commit(e)
    PROVE  IInv'
<1>1. CtlOK' /\ pc' \in {"idle", "erase0", "check", "initErase", "switchErase"}
  BY AdvanceCtl DEF Commit
<1>2. /\ body' \in [Sectors -> [Offsets -> Entries \cup {Erased}]]
      /\ EntriesFit'
      /\ wofs' \in 0 .. SectorSize /\ SectorSize - wofs' >= reserved
  BY ProgramKeepsLog DEF Commit
<1>3. recent' \in [Blocks -> SUBSET Values]
  BY SMT DEF Commit, IInv, TypeOK, Entries
<1>4. TypeOK'
  BY <1>1, <1>2, <1>3 DEF Commit, IInv, TypeOK, CtlOK, envVars
<1> QED BY <1>1, <1>2, <1>4 DEF IInv, RoomToProgram, Commit

\* Erasing a sector keeps the types of the flash, and leaves no block that does not fit.
LEMMA EraseSectorLog ==
    ASSUME IInv, NEW s \in Sectors, EraseSector(s)
    PROVE  /\ hdr' \in [Sectors -> HdrStates]
           /\ body' \in [Sectors -> [Offsets -> Entries \cup {Erased}]]
           /\ EntriesFit'
<1>1. BlankBody \in [Offsets -> Entries \cup {Erased}]
  BY DEF BlankBody
<1>2. \A t \in Sectors : body'[t] = IF t = s THEN BlankBody ELSE body[t]
  BY DEF IInv, TypeOK, EraseSector
<1>3. EntriesFit'
  BY <1>2 DEF IInv, EntriesFit, BlankBody, EntryEnd
<1> QED BY <1>1, <1>3 DEF IInv, TypeOK, EraseSector, HdrStates

\* So does programming a header.
LEMMA MarkLog ==
    ASSUME IInv, NEW s \in Sectors, NEW st \in HdrStates, Mark(s, st)
    PROVE  /\ hdr' \in [Sectors -> HdrStates]
           /\ body' = body /\ EntriesFit'
BY DEF IInv, TypeOK, Mark, EntriesFit, EntryEnd

\* The write loop: every step of write() before something is programmed.
LEMMA CheckInv ==
    ASSUME IInv,
           \/ WriteError \/ EnoughSpace \/ SwitchSectors \/ SwitchRefused
           \/ SwitchFullSector
    PROVE  IInv'
<1> USE DEF IInv, flashVars, ramVars, histVars, envVars
<1>1. CASE WriteError
  <2>1. CtlOK' /\ pc' \in {"idle", "erase0"} BY <1>1, ReturnFalseCtl DEF WriteError
  <2> QED BY <1>1, <2>1 DEF WriteError, TypeOK, CtlOK, EntriesFit, EntryEnd, RoomToProgram
<1>2. CASE EnoughSpace
  <2>1. CtlOK' BY <1>2 DEF EnoughSpace, Goto, CtlOK, LoopsInside, PCs
  <2>2. RoomToProgram' BY <1>2 DEF EnoughSpace, SpaceOk, SpaceRequired, RoomToProgram
  <2> QED BY <1>2, <2>1, <2>2 DEF EnoughSpace, Goto, TypeOK, CtlOK, EntriesFit, EntryEnd
<1>3. CASE SwitchSectors
  <2>1. CtlOK' BY <1>3 DEF SwitchSectors, Goto, CtlOK, LoopsInside, PCs
  <2> QED
    BY <1>3, <2>1 DEF SwitchSectors, Goto, TypeOK, CtlOK, EntriesFit, EntryEnd, RoomToProgram
<1>4. CASE SwitchRefused
  <2>1. CtlOK' /\ pc' \in {"idle", "erase0"} BY <1>4, ReturnFalseCtl DEF SwitchRefused
  <2>2. werr' \in BOOLEAN BY <1>4 DEF SwitchRefused
  <2> QED
    BY <1>4, <2>1, <2>2 DEF SwitchRefused, TypeOK, CtlOK, EntriesFit, EntryEnd, RoomToProgram
<1>5. CASE SwitchFullSector
  <2>1. CtlOK' /\ pc' \in {"check", "switchErase"} BY <1>5, InnerLoopCtl DEF SwitchFullSector
  <2>2. reserved' = 0 /\ werr' = FALSE /\ inSwitch' \in BOOLEAN BY <1>5 DEF SwitchFullSector
  <2> QED
    BY <1>5, <2>1, <2>2 DEF SwitchFullSector, TypeOK, CtlOK, EntriesFit, EntryEnd, RoomToProgram
<1> QED BY <1>1, <1>2, <1>3, <1>4, <1>5

\* write(): programming a block, or failing to.
LEMMA ProgramInv ==
    ASSUME IInv,
           ProgramWriting \/ ProgramValid \/ ProgramWord \/ Unprogrammable \/ WriteFault
    PROVE  IInv'
<1> USE DEF flashVars, ramVars, histVars, envVars
<1>1. CASE ProgramWriting
  <2>1. NewEntry("WRITING") \in Entries /\ NewEntry("WRITING") # Erased
    BY <1>1, NewEntryType DEF ProgramWriting
  <2>2. /\ body' \in [Sectors -> [Offsets -> Entries \cup {Erased}]]
        /\ EntriesFit' /\ body'[current][wofs] # Erased
    BY <1>1, <2>1, ProgramKeepsLog DEF ProgramWriting
  <2>3. CtlOK' BY <1>1 DEF ProgramWriting, Goto, IInv, CtlOK, LoopsInside, PCs
  <2> QED BY <1>1, <2>2, <2>3 DEF ProgramWriting, Goto, IInv, TypeOK, CtlOK, RoomToProgram
<1>2. CASE ProgramValid
  <2> DEFINE old == body[current][wofs]
  <2>1. old \in Entries
    <3>1. wofs \in Offsets
      BY <1>2, WriteOffsetInside DEF ProgramValid
    <3>2. old \in Entries \cup {Erased} /\ old # Erased
      BY <1>2, <3>1, SMT DEF ProgramValid, IInv, TypeOK
    <3> QED BY <3>2
  <2>2. [old EXCEPT !.state = "VALID"] \in Entries
    BY <2>1 DEF Entries
  <2> QED BY <1>2, <2>2, CommitInv DEF ProgramValid
<1>3. CASE ProgramWord
  BY <1>3, NewEntryType, CommitInv DEF ProgramWord
<1>4. ASSUME FailedWrite, pc \in {"program", "validate", "markFull", "markInUse"}
      PROVE  CtlOK' /\ pc' \in {"idle", "erase0"}
  <2>1. CASE ReturnFalse BY <2>1, ReturnFalseCtl DEF IInv
  <2>2. CASE ~ReturnFalse
    BY <1>4, <2>2 DEF FailedWrite, IInv, CtlOK, LoopsInside, PCs, ReInit
  <2> QED BY <2>1, <2>2
<1>5. CASE Unprogrammable
  <2>1. CtlOK' /\ pc' \in {"idle", "erase0"} BY <1>4, <1>5 DEF Unprogrammable
  <2> QED BY <1>5, <2>1 DEF Unprogrammable, FailedWrite, IInv, TypeOK, CtlOK, EntriesFit,
                            EntryEnd, RoomToProgram
<1>6. CASE WriteFault
  <2>1. CtlOK' /\ pc' \in {"idle", "erase0"} BY <1>4, <1>6 DEF WriteFault
  <2>2. body' \in [Sectors -> [Offsets -> Entries \cup {Erased}]] /\ EntriesFit'
    <3>1. CASE body' = body BY <3>1 DEF IInv, TypeOK, EntriesFit, EntryEnd
    <3>2. CASE body' # body
      <4>1. pc = "program" /\ body' = [body EXCEPT ![current][wofs] = NewEntry("WRITING")]
        BY <1>6, <3>2 DEF WriteFault
      <4>2. NewEntry("WRITING") \in Entries BY <4>1, NewEntryType
      <4> QED BY <4>1, <4>2, ProgramKeepsLog
    <3> QED BY <3>1, <3>2
  <2>3. budget' \in [faults : Nat, cuts : Nat, updates : Nat]
    BY <1>6, SMT DEF WriteFault, IInv, TypeOK
  <2> QED
    BY <1>6, <2>1, <2>2, <2>3 DEF WriteFault, FailedWrite, IInv, TypeOK, CtlOK, RoomToProgram
<1> QED BY <1>1, <1>2, <1>3, <1>5, <1>6

\* switch_sectors(), protected_switch_full_sector() and erase_all().
LEMMA SectorInv ==
    ASSUME IInv,
           \/ MarkFull \/ MarkInUse \/ SwitchErase \/ SwitchAvailable
           \/ Erase0 \/ Erase1 \/ Available1 \/ FirstWord0 \/ InUse0
    PROVE  IInv'
<1> USE DEF flashVars, ramVars, histVars, envVars
<1>0. current \in Sectors /\ Other(current) \in Sectors
  BY SMT DEF IInv, TypeOK, Sectors, Other
<1>1. CASE MarkFull
  <2>1. hdr' \in [Sectors -> HdrStates] /\ body' = body /\ EntriesFit'
    BY <1>0, <1>1, MarkLog DEF MarkFull, HdrStates
  <2>2. CtlOK' BY <1>1 DEF MarkFull, Goto, IInv, CtlOK, LoopsInside, PCs
  <2> QED BY <1>1, <2>1, <2>2 DEF MarkFull, Goto, IInv, TypeOK, CtlOK, RoomToProgram
<1>2. CASE MarkInUse
  <2>1. hdr' \in [Sectors -> HdrStates] /\ body' = body /\ EntriesFit'
    BY <1>0, <1>2, MarkLog DEF MarkInUse, HdrStates
  <2>2. CtlOK' BY <1>2 DEF MarkInUse, Goto, IInv, CtlOK, LoopsInside, PCs
  <2>3. /\ pc' = "program" /\ wofs' = SectorHdr /\ reserved' = ReserveSize
        /\ current' \in Sectors
    BY <1>0, <1>2 DEF MarkInUse, Goto
  <2>4. /\ wofs' \in 0 .. SectorSize /\ SectorSize - wofs' >= reserved'
        /\ RoomToProgram'
    BY <2>3, SizeFacts, SizesAssumption, CapacityAssumption, SMT DEF RoomToProgram
  <2> QED BY <1>2, <2>1, <2>2, <2>3, <2>4 DEF MarkInUse, IInv, TypeOK, CtlOK
<1>3. CASE SwitchErase
  <2>1. /\ hdr' \in [Sectors -> HdrStates] /\ EntriesFit'
        /\ body' \in [Sectors -> [Offsets -> Entries \cup {Erased}]]
    BY <1>0, <1>3, EraseSectorLog DEF SwitchErase
  <2>2. CtlOK' BY <1>3 DEF SwitchErase, Goto, IInv, CtlOK, LoopsInside, PCs
  <2> QED BY <1>3, <2>1, <2>2 DEF SwitchErase, Goto, IInv, TypeOK, CtlOK, RoomToProgram
<1>4. CASE SwitchAvailable
  <2>1. hdr' \in [Sectors -> HdrStates] /\ body' = body /\ EntriesFit'
    BY <1>0, <1>4, MarkLog DEF SwitchAvailable, HdrStates
  <2>2. CtlOK' /\ pc' \in {"markFull", "idle", "erase0"}
    <3>1. CASE reserved = 0
      BY <1>4, <3>1 DEF SwitchAvailable, IInv, CtlOK, LoopsInside, PCs
    <3>2. CASE reserved # 0
      BY <1>4, <3>2, ReturnFalseCtl DEF SwitchAvailable, IInv
    <3> QED BY <3>1, <3>2
  <2> QED BY <1>4, <2>1, <2>2 DEF SwitchAvailable, IInv, TypeOK, CtlOK, RoomToProgram
<1>5. CASE Erase0
  <2>1. /\ hdr' \in [Sectors -> HdrStates] /\ EntriesFit'
        /\ body' \in [Sectors -> [Offsets -> Entries \cup {Erased}]]
    BY <1>5, EraseSectorLog DEF Erase0, Sectors
  <2>2. CtlOK' BY <1>5 DEF Erase0, Goto, IInv, CtlOK, LoopsInside, PCs
  <2>3. /\ wofs' = SectorHdr /\ reserved' \in {0, ReserveSize}
        /\ current' \in Sectors /\ werr' \in BOOLEAN
    BY <1>5 DEF Erase0, IInv, TypeOK, Sectors
  <2>4. wofs' \in 0 .. SectorSize /\ (reserved' # 0 => SectorSize - wofs' >= reserved')
    BY <2>3, SizeFacts, SizesAssumption, CapacityAssumption, SMT
  <2> QED BY <1>5, <2>1, <2>2, <2>3, <2>4 DEF Erase0, Goto, IInv, TypeOK, CtlOK, RoomToProgram
<1>6. CASE Erase1
  <2>1. /\ hdr' \in [Sectors -> HdrStates] /\ EntriesFit'
        /\ body' \in [Sectors -> [Offsets -> Entries \cup {Erased}]]
    BY <1>6, EraseSectorLog DEF Erase1, Sectors
  <2>2. CtlOK' BY <1>6 DEF Erase1, Goto, IInv, CtlOK, LoopsInside, PCs
  <2> QED BY <1>6, <2>1, <2>2 DEF Erase1, Goto, IInv, TypeOK, CtlOK, RoomToProgram
<1>7. CASE Available1
  <2>1. hdr' \in [Sectors -> HdrStates] /\ body' = body /\ EntriesFit'
    BY <1>7, MarkLog DEF Available1, HdrStates, Sectors
  <2>2. CtlOK' BY <1>7 DEF Available1, Goto, IInv, CtlOK, LoopsInside, PCs
  <2> QED BY <1>7, <2>1, <2>2 DEF Available1, Goto, IInv, TypeOK, CtlOK, RoomToProgram
<1>8. CASE InUse0
  <2>1. hdr' \in [Sectors -> HdrStates] /\ body' = body /\ EntriesFit'
    BY <1>8, MarkLog DEF InUse0, HdrStates, Sectors
  <2>2. CtlOK' /\ pc' \in {"idle", "erase0", "check", "initErase"}
    <3>1. CtlOK /\ ~nested BY <1>8 DEF InUse0, IInv, CtlOK
    <3>2. CASE op \in ReInit
      BY <1>8, <3>1, <3>2, BaseLoopCtl DEF InUse0, ReInit
    <3>3. CASE op \notin ReInit
      BY <1>8, <3>1, <3>3, DoneCtl DEF InUse0, CtlOK
    <3> QED BY <3>2, <3>3
  <2>3. recent' \in [Blocks -> SUBSET Values] /\ intact' \in BOOLEAN
    BY <1>8, SizesAssumption, SMT DEF InUse0, IInv, TypeOK
  <2> QED BY <1>8, <2>1, <2>2, <2>3 DEF InUse0, IInv, TypeOK, CtlOK, RoomToProgram
<1>9. CASE FirstWord0
  <2>1. hdr' \in [Sectors -> HdrStates] /\ body' = body /\ EntriesFit'
    BY <1>9, MarkLog DEF FirstWord0, HdrStates, Sectors
  <2>2. CtlOK' BY <1>9 DEF FirstWord0, Goto, IInv, CtlOK, LoopsInside, PCs
  <2> QED BY <1>9, <2>1, <2>2 DEF FirstWord0, Goto, IInv, TypeOK, CtlOK, RoomToProgram
<1> QED BY <1>1, <1>2, <1>3, <1>4, <1>5, <1>6, <1>7, <1>8, <1>9

\* Loading a block keeps the contents well-typed.
LEMMA ApplyType ==
    ASSUME NEW e \in Entries, NEW m \in [Blocks -> Values]
    PROVE  Apply(e, m) \in [Blocks -> Values]
BY DEF Apply, Entries

\* init(): reading the headers, loading the logs and compacting them.
LEMMA BootInv ==
    ASSUME IInv,
           Boot \/ LoadBlock \/ LoadDone \/ InitWriteAll \/ InitErase \/ InitAvailable
    PROVE  IInv'
<1> USE DEF flashVars, ramVars, histVars, envVars
<1>0. /\ current \in Sectors /\ Other(current) \in Sectors /\ FirstSector \in Sectors
      /\ SectorHdr \in 0 .. SectorSize
  BY SizeFacts, SizesAssumption, CapacityAssumption, SMT
  DEF IInv, TypeOK, Sectors, Other, FirstSector
<1>1. CASE Boot
  <2>1. CtlOK' /\ pc' \in {"erase0", "load1"}
    BY <1>1 DEF Boot, IInv, CtlOK, LoopsInside, PCs
  <2>2. wofs' \in 0 .. SectorSize /\ current' \in Sectors
    BY <1>0, <1>1 DEF Boot, IInv, TypeOK
  <2>3. reserved' = 0 BY <1>1 DEF Boot, IInv
  <2> QED
    BY <1>1, <2>1, <2>2, <2>3 DEF Boot, IInv, TypeOK, CtlOK, EntriesFit, EntryEnd, RoomToProgram
<1>2. CASE LoadBlock
  <2> DEFINE e == body[LoadingSector][wofs]
  <2>1. LoadingSector \in Sectors BY <1>0 DEF LoadingSector
  <2>2. wofs \in Offsets
    BY <1>2, SizeFacts, SizesAssumption, SMT DEF LoadBlock, ScanDone, LogEnds, IInv, TypeOK,
       Offsets
  <2>3. e \in Entries
    BY <1>2, <2>1, <2>2, SMT DEF LoadBlock, ScanDone, LogEnds, IInv, TypeOK
  <2>4. EntryEnd(wofs, e) \in 0 .. SectorSize
    <3>1. EntryEnd(wofs, e) <= SectorSize
      BY <2>1, <2>2, <2>3, ErasedNotEntry DEF IInv, EntriesFit
    <3>2. e.n * BlockSize \in Nat BY <2>3, SizeFacts DEF Entries
    <3> QED BY <3>1, <3>2, <2>2, SizesAssumption, SMT DEF EntryEnd, Offsets
  <2>5. Apply(e, mem) \in [Blocks -> Values] BY <2>3, ApplyType DEF IInv, TypeOK
  <2>6. /\ mem' \in [Blocks -> Values] /\ wofs' \in 0 .. SectorSize
        /\ pc' \in {"erase0", "load1", "load2"} /\ reserved' = 0
    BY <1>2, <2>4, <2>5 DEF LoadBlock, IInv, TypeOK, Goto
  <2>7. CtlOK' BY <1>2, <2>6 DEF LoadBlock, Goto, IInv, CtlOK, LoopsInside, PCs
  <2> QED
    BY <1>2, <2>6, <2>7 DEF LoadBlock, IInv, TypeOK, CtlOK, EntriesFit, EntryEnd, RoomToProgram
<1>3. CASE LoadDone
  <2>1. CtlOK' /\ pc' \in {"loaded", "load2"}
    BY <1>3 DEF LoadDone, Goto, IInv, CtlOK, LoopsInside, PCs
  <2>2. wofs' \in 0 .. SectorSize /\ reserved' = 0
    BY <1>0, <1>3 DEF LoadDone, IInv, TypeOK
  <2> QED
    BY <1>3, <2>1, <2>2 DEF LoadDone, IInv, TypeOK, CtlOK, EntriesFit, EntryEnd, RoomToProgram
<1>4. CASE InitWriteAll
  <2>1. CtlOK' /\ pc' \in {"idle", "erase0", "check", "initErase"}
    <3>1. CtlOK /\ ~nested /\ op # "write" BY <1>4 DEF InitWriteAll, IInv, CtlOK
    <3>2. CASE hdr[current] = "FULL" BY <1>4, <3>1, <3>2, BaseLoopCtl DEF InitWriteAll
    <3>3. CASE hdr[current] # "FULL" BY <1>4, <3>1, <3>3, DoneCtl DEF InitWriteAll, CtlOK
    <3> QED BY <3>2, <3>3
  <2>2. current' \in Sectors /\ recent' \in [Blocks -> SUBSET Values] /\ reserved' = 0
    BY <1>0, <1>4 DEF InitWriteAll, IInv, TypeOK
  <2> QED
    BY <1>4, <2>1, <2>2 DEF InitWriteAll, IInv, TypeOK, CtlOK, EntriesFit, EntryEnd, RoomToProgram
<1>5. CASE InitErase
  <2>1. /\ hdr' \in [Sectors -> HdrStates] /\ EntriesFit'
        /\ body' \in [Sectors -> [Offsets -> Entries \cup {Erased}]]
    BY <1>0, <1>5, EraseSectorLog DEF InitErase
  <2>2. CtlOK' BY <1>5 DEF InitErase, Goto, IInv, CtlOK, LoopsInside, PCs
  <2> QED BY <1>5, <2>1, <2>2 DEF InitErase, Goto, IInv, TypeOK, CtlOK, RoomToProgram
<1>6. CASE InitAvailable
  <2>1. hdr' \in [Sectors -> HdrStates] /\ body' = body /\ EntriesFit'
    BY <1>0, <1>6, MarkLog DEF InitAvailable, HdrStates
  <2>2. CtlOK' /\ pc' = "idle" BY <1>6, DoneCtl DEF InitAvailable, IInv, CtlOK
  <2>3. reserved' = 0 BY <1>6 DEF InitAvailable
  <2> QED BY <1>6, <2>1, <2>2, <2>3 DEF InitAvailable, IInv, TypeOK, CtlOK, RoomToProgram
<1> QED BY <1>1, <1>2, <1>3, <1>4, <1>5, <1>6

\* The callers, the main thread and power failures.
LEMMA EnvInv ==
    ASSUME IInv,
           \/ \E b \in Blocks, n \in WriteLens : Write(b, n)
           \/ Erase
           \/ \E b \in Blocks, v \in Values : Update(b, v)
           \/ ArmOrDisarm \/ PowerFailure
    PROVE  IInv'
<1> USE DEF flashVars, ramVars, ctlVars, histVars, envVars
<1>1. CASE \E b \in Blocks, n \in WriteLens : Write(b, n)
  <2> PICK b \in Blocks, n \in WriteLens : Write(b, n) BY <1>1
  <2>1. CtlOK'
    BY SizeFacts, SizesAssumption, SMT DEF Write, IInv, CtlOK, LoopsInside, PCs, Blocks
  <2> QED BY <2>1 DEF Write, IInv, TypeOK, CtlOK, EntriesFit, EntryEnd, RoomToProgram
<1>2. CASE Erase
  <2>1. CtlOK' BY <1>2 DEF Erase, IInv, CtlOK, LoopsInside, PCs
  <2> QED BY <1>2, <2>1 DEF Erase, IInv, TypeOK, CtlOK, EntriesFit, EntryEnd, RoomToProgram
<1>3. CASE \E b \in Blocks, v \in Values : Update(b, v)
  <2> PICK b \in Blocks, v \in Values : Update(b, v) BY <1>3
  <2>1. mem' \in [Blocks -> Values] /\ recent' \in [Blocks -> SUBSET Values]
    BY DEF Update, IInv, TypeOK
  <2>2. budget' \in [faults : Nat, cuts : Nat, updates : Nat]
    BY SMT DEF Update, IInv, TypeOK
  <2>3. CtlOK' BY DEF Update, IInv, CtlOK, LoopsInside
  <2> QED BY <2>1, <2>2, <2>3 DEF Update, IInv, TypeOK, CtlOK, EntriesFit, EntryEnd, RoomToProgram
<1>4. CASE ArmOrDisarm
  <2>1. armed' \in BOOLEAN BY <1>4 DEF ArmOrDisarm
  <2>2. CtlOK' BY <1>4 DEF ArmOrDisarm, IInv, CtlOK, LoopsInside
  <2> QED
    BY <1>4, <2>1, <2>2 DEF ArmOrDisarm, IInv, TypeOK, CtlOK, EntriesFit, EntryEnd, RoomToProgram
<1>5. CASE PowerFailure
  <2>0. /\ pc' = "off" /\ op' = "none" /\ nested' = FALSE /\ inSwitch' = FALSE
        /\ base' = [pos |-> 0, len |-> 0] /\ inner' = 0
    BY <1>5 DEF PowerFailure
  <2>1. CtlOK' /\ pc' = "off"
    <3>1. base' \in [pos : 0 .. NumBlocks, len : 0 .. NumBlocks] /\ inner' \in 0 .. NumBlocks
      BY <2>0, SizeFacts, SMT
    <3>2. LoopsInside' BY <2>0 DEF LoopsInside
    <3> QED BY <2>0, <3>1, <3>2 DEF CtlOK, PCs
  <2>5. AllBlocks(Zero) \in [Blocks -> Values] /\ 0 \in 0 .. SectorSize
    BY SizesAssumption, SMT DEF AllBlocks
  <2>2. /\ mem' \in [Blocks -> Values] /\ current' \in Sectors /\ wofs' \in 0 .. SectorSize
        /\ reserved' = 0 /\ werr' \in BOOLEAN /\ armed' \in BOOLEAN
    BY <1>5, <2>5 DEF PowerFailure, Sectors
  <2>3. intact' \in BOOLEAN BY <1>5 DEF PowerFailure
  <2>4. budget' \in [faults : Nat, cuts : Nat, updates : Nat]
    BY <1>5, SMT DEF PowerFailure, IInv, TypeOK
  <2> QED BY <1>5, <2>1, <2>2, <2>3, <2>4
          DEF PowerFailure, IInv, TypeOK, CtlOK, EntriesFit, EntryEnd, RoomToProgram
<1> QED BY <1>1, <1>2, <1>3, <1>4, <1>5
-----------------------------------------------------------------------------
\* Every step of the specification keeps the inductive invariant.
LEMMA InvStep ==
    ASSUME IInv, [Next]_vars
    PROVE  IInv'
<1>1. CASE Next
  BY <1>1, CheckInv, ProgramInv, SectorInv, BootInv, EnvInv DEF Next, Step
<1>2. CASE UNCHANGED vars
  BY <1>2, SMT DEF vars, flashVars, ramVars, ctlVars, histVars, envVars, IInv, TypeOK, CtlOK,
              LoopsInside, EntriesFit, EntryEnd, RoomToProgram
<1> QED BY <1>1, <1>2

\* The invariant holds when the chip is new and after every step.
THEOREM Invariance == Spec => []IInv
<1>1. Init => IInv
  <2> SUFFICES ASSUME Init PROVE IInv OBVIOUS
  <2>1. BlankBody \in [Offsets -> Entries \cup {Erased}] BY DEF BlankBody
  <2>0. /\ pc = "off" /\ op = "none" /\ nested = FALSE /\ inSwitch = FALSE
        /\ base = [pos |-> 0, len |-> 0] /\ inner = 0
    BY DEF Init
  <2>2. CtlOK
    <3>1. base \in [pos : 0 .. NumBlocks, len : 0 .. NumBlocks] /\ inner \in 0 .. NumBlocks
      BY <2>0, SizeFacts, SMT
    <3>2. LoopsInside BY <2>0 DEF LoopsInside
    <3> QED BY <2>0, <3>1, <3>2 DEF CtlOK, PCs
  <2>5. AllBlocks(Zero) \in [Blocks -> Values] /\ 0 \in 0 .. SectorSize
    BY SizesAssumption, SMT DEF AllBlocks
  <2>6. budget \in [faults : Nat, cuts : Nat, updates : Nat]
    BY SizesAssumption DEF Init
  <2>7. recent \in [Blocks -> SUBSET Values]
    BY SizesAssumption DEF Init
  <2>3. TypeOK
    BY <2>1, <2>2, <2>5, <2>6, <2>7 DEF Init, TypeOK, CtlOK, HdrStates, Sectors
  <2>4. EntriesFit BY DEF Init, EntriesFit, BlankBody
  <2> QED BY <2>2, <2>3, <2>4 DEF Init, IInv, RoomToProgram
<1>2. IInv /\ [Next]_vars => IInv'
  BY InvStep
<1> QED BY <1>1, <1>2, PTL DEF Spec

\* Whatever the sizes, every variable keeps its type: init() never scans past
\* the end of a sector and write_offset stays inside it.
THEOREM TypeCorrect == Spec => []TypeOK
<1>1. IInv => TypeOK BY DEF IInv
<1> QED BY <1>1, Invariance, PTL

\* Whatever the sizes, no block is programmed past the end of its sector, and
\* write() never eats into the space reserved for the write-out of init().
THEOREM ReserveIsKept == Spec => []SpaceKept
<1>1. IInv => SpaceKept
  <2> SUFFICES ASSUME IInv PROVE SpaceKept OBVIOUS
  <2>1. ASSUME pc \in {"program", "validate"}
        PROVE  wofs + BlockHdr + Len * BlockSize <= SectorSize
    <3>1. Len \in 1 .. MaxBlocks BY <2>1, PosLen
    <3>2. Len * BlockSize \in Nat /\ Len * BlockSize <= MaxWrite BY <3>1, SizeFacts
    <3> QED BY <2>1, <3>2, SizeFacts, SizesAssumption, SMT DEF IInv, TypeOK, RoomToProgram
  <2> QED BY <2>1 DEF IInv, SpaceKept
<1> QED BY <1>1, Invariance, PTL
-----------------------------------------------------------------------------
\* Replaying a log: what a recursive function computes, and load_sector().

\* Every nonempty set of natural numbers has a least element.
LEMMA Least ==
  ASSUME NEW T \in SUBSET Nat, T # {}
  PROVE  \E x \in T : \A y \in T : x <= y
<1> DEFINE R == {ss \in Nat \X Nat : ss[1] < ss[2]}
<1>1. IsWellFoundedOn(R, Nat)
  BY NatLessThanWellFounded DEF OpToRel
<1>2. \E x \in T : \A y \in T : ~ (<<y, x>> \in R)
  <2> HIDE DEF R
  <2> QED BY <1>1, WFMin
<1>3. PICK x \in T : \A y \in T : ~ (<<y, x>> \in R)
  BY <1>2
<1>4. ASSUME NEW y \in T PROVE x <= y
  <2>1. ~ (<<y, x>> \in R)
    BY <1>3
  <2>2. x \in Nat /\ y \in Nat
    OBVIOUS
  <2>3. ~ (y < x)
    BY <2>1, <2>2
  <2> QED BY <2>2, <2>3, SMT
<1> QED BY <1>4

\* Induction over a set: the library's induction theorems take an operator, this
\* one a set, which the provers can instantiate.
LEMMA NatSetInduction ==
  ASSUME NEW S, 0 \in S, \A n \in Nat : n \in S => n + 1 \in S
  PROVE  \A n \in Nat : n \in S
<1> SUFFICES ASSUME Nat \ S # {} PROVE FALSE
  OBVIOUS
<1>1. PICK x \in Nat \ S : \A y \in Nat \ S : x <= y
  BY Least
<1>2. x # 0 /\ x \in Nat
  OBVIOUS
<1>3. x - 1 \in Nat
  BY <1>2, SMT
<1>4. x - 1 \in S
  BY <1>1, <1>3, SMT
<1>5. (x - 1) + 1 \in S
  BY <1>3, <1>4
<1> QED BY <1>2, <1>5, SMT
-----------------------------------------------------------------------------
(* Replaying a log                                                         *)

\* The logs whose blocks end inside the sector, and the contents of mem_buffer.
Logs == {log \in [Offsets -> Entries \cup {Erased}] :
            \A o \in Offsets : log[o] # Erased => EntryEnd(o, log[o]) <= SectorSize}
\* What mem_buffer can be.
Memories == [Blocks -> Values]

\* The recursion of Walk.
WalkTurn(log, m, k, w) ==
    IF k = 0 THEN [ofs |-> SectorHdr, mem |-> m] ELSE LoadStep(log, w)
\* f is the function that Walk() defines, as far as n.
IsWalk(log, m, n, f) == f = [k \in 0 .. n |-> WalkTurn(log, m, k, f[k - 1])]

\* The recursion of Walk defines a function.
LEMMA WalkExists ==
    ASSUME NEW log, NEW m
    PROVE  \A n \in Nat : \E f : IsWalk(log, m, n, f)
<1> DEFINE S == {n \in Nat : \E f : IsWalk(log, m, n, f)}
<1>1. 0 \in S
  <2> DEFINE f == [k \in 0 .. 0 |-> [ofs |-> SectorHdr, mem |-> m]]
  <2>1. IsWalk(log, m, 0, f)
    BY SMT DEF IsWalk, WalkTurn
  <2> QED BY <2>1
<1>2. ASSUME NEW n \in Nat, n \in S PROVE n + 1 \in S
  <2>1. PICK f : IsWalk(log, m, n, f)
    BY <1>2
  <2> DEFINE g == [k \in 0 .. n + 1 |->
                     IF k = n + 1 THEN WalkTurn(log, m, k, f[n]) ELSE f[k]]
  <2>2. ASSUME NEW k \in 0 .. n + 1 PROVE g[k] = WalkTurn(log, m, k, g[k - 1])
    <3>1. CASE k = n + 1
      <4>1. g[k - 1] = f[n] BY <3>1, SMT
      <4> QED BY <3>1, <4>1
    <3>2. CASE k \in 1 .. n
      <4>1. g[k] = f[k] /\ g[k - 1] = f[k - 1] BY <3>2, SMT
      <4> QED BY <3>2, <4>1, <2>1, SMT DEF IsWalk
    <3>3. CASE k = 0
      <4>1. g[k] = WalkTurn(log, m, 0, f[0 - 1]) BY <3>3, <2>1, SMT DEF IsWalk
      <4> QED BY <3>3, <4>1 DEF WalkTurn
    <3> QED BY <3>1, <3>2, <3>3, SMT
  <2>3. g = [k \in 0 .. n + 1 |-> WalkTurn(log, m, k, g[k - 1])]
    <3> HIDE DEF g
    <3>1. g = [k \in 0 .. n + 1 |-> g[k]] BY DEF g
    <3> QED BY <2>2, <3>1
  <2>4. IsWalk(log, m, n + 1, g) BY <2>3 DEF IsWalk
  <2> QED BY <2>4, SMT
<1> HIDE DEF S
<1>3. \A n \in Nat : n \in S
  BY <1>1, <1>2, NatSetInduction
<1> QED BY <1>3 DEF S

\* The turns of load_sector(): the first one starts behind the sector header.
LEMMA WalkTurns ==
    ASSUME NEW log, NEW m
    PROVE  /\ Walk(log, m)[0] = [ofs |-> SectorHdr, mem |-> m]
           /\ \A k \in 0 .. SectorSize - 1 :
                 Walk(log, m)[k + 1] = LoadStep(log, Walk(log, m)[k])
<1> DEFINE f == CHOOSE f : f = [k \in 0 .. SectorSize |->
            IF k = 0 THEN [ofs |-> SectorHdr, mem |-> m] ELSE LoadStep(log, f[k - 1])]
           g == CHOOSE g : IsWalk(log, m, SectorSize, g)
<1>1. Walk(log, m) = f
  BY DEF Walk
<1>2. f = g
  BY DEF IsWalk, WalkTurn
<1>3. SectorSize \in Nat
  BY SizesAssumption
<1>4. IsWalk(log, m, SectorSize, g)
  BY <1>3, WalkExists
<1> HIDE DEF f, g
<1>5. g[0] = [ofs |-> SectorHdr, mem |-> m]
  BY <1>3, <1>4, SMT DEF IsWalk, WalkTurn
<1>6. ASSUME NEW k \in 0 .. SectorSize - 1 PROVE g[k + 1] = LoadStep(log, g[k])
  <2>1. k + 1 \in 0 .. SectorSize /\ (k + 1) - 1 = k /\ k + 1 # 0
    BY <1>3, SMT
  <2>2. g[k + 1] = WalkTurn(log, m, k + 1, g[(k + 1) - 1])
    BY <1>4, <2>1 DEF IsWalk
  <2> QED BY <2>1, <2>2 DEF WalkTurn
<1> QED BY <1>1, <1>2, <1>5, <1>6

\* One turn: either the loop is over, or the offset grows and stays in the sector.
LEMMA LoadStepMoves ==
    ASSUME NEW log \in Logs,
           NEW w \in [ofs : SectorHdr .. SectorSize, mem : Memories]
    PROVE  /\ LoadStep(log, w) \in [ofs : SectorHdr .. SectorSize, mem : Memories]
           /\ LogEnds(log, w.ofs) => LoadStep(log, w) = w
           /\ ~LogEnds(log, w.ofs) =>
                /\ LoadStep(log, w).ofs > w.ofs
                /\ w.ofs \in Offsets /\ log[w.ofs] \in Entries
                /\ LoadStep(log, w) = [ofs |-> EntryEnd(w.ofs, log[w.ofs]),
                                             mem |-> Apply(log[w.ofs], w.mem)]
<1>0. SectorSize \in Nat /\ SectorHdr \in Nat /\ BlockHdr \in Nat \ {0}
  BY SizesAssumption
<1>1. w.ofs \in SectorHdr .. SectorSize /\ w.mem \in Memories
  OBVIOUS
<1>2. CASE LogEnds(log, w.ofs)
  BY <1>2 DEF LoadStep
<1>3. CASE ~LogEnds(log, w.ofs)
  <2>1. w.ofs \in Offsets /\ log[w.ofs] # Erased
    BY <1>0, <1>1, <1>3, SMT DEF LogEnds, Offsets
  <2>2. log[w.ofs] \in Entries /\ EntryEnd(w.ofs, log[w.ofs]) <= SectorSize
    BY <2>1 DEF Logs
  <2> DEFINE e == log[w.ofs]
  <2>3. e.n * BlockSize \in Nat
    BY <2>2, SizeFacts DEF Entries
  <2>4. EntryEnd(w.ofs, e) > w.ofs /\ EntryEnd(w.ofs, e) \in SectorHdr .. SectorSize
    BY <1>0, <1>1, <2>2, <2>3, SMT DEF EntryEnd
  <2>5. Apply(e, w.mem) \in Memories
    BY <1>1, <2>2, ApplyType DEF Memories
  <2>6. LoadStep(log, w) = [ofs |-> EntryEnd(w.ofs, e), mem |-> Apply(e, w.mem)]
    BY <1>3 DEF LoadStep
  <2> QED BY <1>3, <2>1, <2>2, <2>4, <2>5, <2>6, SMT
<1> QED BY <1>2, <1>3

\* The states of the loop of load_sector().
Turns == [ofs : SectorHdr .. SectorSize, mem : Memories]

\* The loop of load_sector() stays inside the sector.
LEMMA WalkType ==
    ASSUME NEW log \in Logs, NEW m \in Memories
    PROVE  \A k \in 0 .. SectorSize : Walk(log, m)[k] \in Turns
<1> DEFINE W == Walk(log, m)
           S == {n \in Nat : n <= SectorSize => W[n] \in Turns}
<1>0. SectorSize \in Nat /\ SectorHdr \in Nat /\ SectorHdr <= SectorSize
  BY SizesAssumption, SizeFacts, CapacityAssumption, SMT
<1>w. /\ W[0] = [ofs |-> SectorHdr, mem |-> m]
      /\ \A k \in 0 .. SectorSize - 1 : W[k + 1] = LoadStep(log, W[k])
  BY WalkTurns, SMT
<1> HIDE DEF W
<1>1. 0 \in S
  BY <1>0, <1>w, SMT DEF Turns
<1>2. ASSUME NEW n \in Nat, n \in S PROVE n + 1 \in S
  <2> SUFFICES ASSUME n + 1 <= SectorSize PROVE W[n + 1] \in Turns
    BY SMT
  <2>0. n \in 0 .. SectorSize - 1 BY <1>0, SMT
  <2>1. W[n + 1] = LoadStep(log, W[n]) BY <1>w, <2>0
  <2>2. W[n] \in Turns BY <1>0, <1>2, SMT
  <2> QED BY <2>1, <2>2, LoadStepMoves DEF Turns
<1> HIDE DEF S
<1>3. \A n \in Nat : n \in S BY <1>1, <1>2, NatSetInduction
<1> QED BY <1>0, <1>3, SMT DEF S, W

\* When the loop of load_sector() ends after k turns, that is what it returns.
LEMMA WalkStays ==
    ASSUME NEW log \in Logs, NEW m \in Memories,
           NEW k \in 0 .. SectorSize, LogEnds(log, Walk(log, m)[k].ofs)
    PROVE  Replay(log, m) = Walk(log, m)[k]
<1> DEFINE W == Walk(log, m)
           S == {n \in Nat : k + n <= SectorSize => W[k + n] = W[k]}
<1>0. SectorSize \in Nat BY SizesAssumption
<1>w. /\ W[0] = [ofs |-> SectorHdr, mem |-> m]
      /\ \A j \in 0 .. SectorSize - 1 : W[j + 1] = LoadStep(log, W[j])
  BY WalkTurns, SMT
<1>e. LogEnds(log, W[k].ofs) OBVIOUS
<1> HIDE DEF W
<1>1. 0 \in S BY <1>0, SMT
<1>2. ASSUME NEW n \in Nat, n \in S PROVE n + 1 \in S
  <2> SUFFICES ASSUME k + (n + 1) <= SectorSize PROVE W[k + (n + 1)] = W[k]
    BY SMT
  <2>1. k + n \in 0 .. SectorSize - 1 /\ k + (n + 1) = (k + n) + 1 BY <1>0, SMT
  <2>2. W[(k + n) + 1] = LoadStep(log, W[k + n]) BY <1>w, <2>1
  <2>4. k + n <= SectorSize BY <1>0, <2>1, SMT
  <2>3. W[k + n] = W[k] BY <1>2, <2>4
  <2> QED BY <1>e, <2>1, <2>2, <2>3 DEF LoadStep
<1> HIDE DEF S
<1>3. \A n \in Nat : n \in S BY <1>1, <1>2, NatSetInduction
<1>4. SectorSize - k \in Nat /\ k + (SectorSize - k) = SectorSize BY <1>0, SMT
<1>5. W[SectorSize] = W[k] BY <1>3, <1>4, SMT DEF S
<1> QED BY <1>5 DEF Replay, W

\* load_sector() ends: every turn before the last one moves the offset.
LEMMA WalkFinishes ==
    ASSUME NEW log \in Logs, NEW m \in Memories
    PROVE  /\ LogEnds(log, Replay(log, m).ofs)
           /\ Replay(log, m) \in Turns
           /\ \A k \in 0 .. SectorSize :
                 ~LogEnds(log, Walk(log, m)[k].ofs) => k < SectorSize
<1> DEFINE W == Walk(log, m)
           S == {n \in Nat : n <= SectorSize =>
                    LogEnds(log, W[n].ofs) \/ W[n].ofs >= SectorHdr + n}
<1>0. SectorSize \in Nat /\ SectorHdr \in Nat \ {0} BY SizesAssumption
<1>t. \A k \in 0 .. SectorSize : W[k] \in Turns BY WalkType
<1>w. /\ W[0] = [ofs |-> SectorHdr, mem |-> m]
      /\ \A j \in 0 .. SectorSize - 1 : W[j + 1] = LoadStep(log, W[j])
  BY WalkTurns, SMT
<1> HIDE DEF W
<1>1. 0 \in S BY <1>0, <1>w, SMT
<1>2. ASSUME NEW n \in Nat, n \in S PROVE n + 1 \in S
  <2> SUFFICES ASSUME n + 1 <= SectorSize
               PROVE  LogEnds(log, W[n + 1].ofs) \/ W[n + 1].ofs >= SectorHdr + (n + 1)
    BY SMT
  <2>0. n \in 0 .. SectorSize - 1 BY <1>0, SMT
  <2>1. W[n + 1] = LoadStep(log, W[n]) BY <1>w, <2>0
  <2>2. W[n] \in Turns /\ W[n + 1] \in Turns BY <1>0, <1>t, SMT
  <2>3. LogEnds(log, W[n].ofs) \/ W[n].ofs >= SectorHdr + n BY <1>0, <1>2, SMT
  <2>4. CASE LogEnds(log, W[n].ofs) BY <2>1, <2>4 DEF LoadStep
  <2>5. CASE ~LogEnds(log, W[n].ofs)
    <3>1. W[n + 1].ofs > W[n].ofs BY <2>1, <2>2, <2>5, LoadStepMoves DEF Turns
    <3>2. W[n].ofs \in Nat /\ W[n + 1].ofs \in Nat BY <1>0, <2>2, SMT DEF Turns
    <3> QED BY <1>0, <2>3, <2>5, <3>1, <3>2, SMT
  <2> QED BY <2>4, <2>5
<1> HIDE DEF S
<1>3. \A n \in Nat : n \in S BY <1>1, <1>2, NatSetInduction
<1>4. ASSUME NEW k \in 0 .. SectorSize, ~LogEnds(log, W[k].ofs) PROVE k < SectorSize
  <2>1. W[k].ofs >= SectorHdr + k BY <1>0, <1>3, <1>4, SMT DEF S
  <2>2. W[k].ofs \in SectorHdr .. SectorSize BY <1>t DEF Turns
  <2> QED BY <1>0, <2>1, <2>2, SMT
<1>5. SectorSize \in 0 .. SectorSize BY <1>0, SMT
<1>6. LogEnds(log, W[SectorSize].ofs) BY <1>0, <1>4, <1>5, SMT
<1> QED BY <1>t, <1>4, <1>5, <1>6 DEF W, Replay

\* Loading the same log into two memories: the offsets are the same, and a block
\* of storage has the same value in both or the log does not mention it.
LEMMA TwoWalks ==
    ASSUME NEW log \in Logs, NEW m1 \in Memories, NEW m2 \in Memories
    PROVE  \A k \in 0 .. SectorSize :
              /\ Walk(log, m1)[k].ofs = Walk(log, m2)[k].ofs
              /\ \A b \in Blocks :
                    \/ Walk(log, m1)[k].mem[b] = Walk(log, m2)[k].mem[b]
                    \/ /\ Walk(log, m1)[k].mem[b] = m1[b]
                       /\ Walk(log, m2)[k].mem[b] = m2[b]
<1> DEFINE V == Walk(log, m1)
           W == Walk(log, m2)
           Same(v, w) == /\ v.ofs = w.ofs
                         /\ \A b \in Blocks : \/ v.mem[b] = w.mem[b]
                                              \/ v.mem[b] = m1[b] /\ w.mem[b] = m2[b]
           S == {n \in Nat : n <= SectorSize => Same(V[n], W[n])}
<1>0. SectorSize \in Nat BY SizesAssumption
<1>t. \A k \in 0 .. SectorSize : V[k] \in Turns /\ W[k] \in Turns BY WalkType
<1>w. /\ W[0] = [ofs |-> SectorHdr, mem |-> m2]
      /\ \A j \in 0 .. SectorSize - 1 : W[j + 1] = LoadStep(log, W[j])
  BY WalkTurns, SMT
<1>v. /\ V[0] = [ofs |-> SectorHdr, mem |-> m1]
      /\ \A j \in 0 .. SectorSize - 1 : V[j + 1] = LoadStep(log, V[j])
  BY WalkTurns, SMT
<1> HIDE DEF V, W
<1>1. 0 \in S BY <1>v, <1>w, SMT
<1>2. ASSUME NEW n \in Nat, n \in S PROVE n + 1 \in S
  <2> SUFFICES ASSUME n + 1 <= SectorSize PROVE Same(V[n + 1], W[n + 1])
    BY SMT
  <2>0. n \in 0 .. SectorSize - 1 BY <1>0, SMT
  <2>1. V[n + 1] = LoadStep(log, V[n]) /\ W[n + 1] = LoadStep(log, W[n])
    BY <1>v, <1>w, <2>0
  <2>2. V[n] \in Turns /\ W[n] \in Turns BY <1>0, <1>t, SMT
  <2>3. Same(V[n], W[n]) BY <1>0, <1>2, SMT
  <2>4. CASE LogEnds(log, V[n].ofs) BY <2>1, <2>3, <2>4 DEF LoadStep
  <2>5. CASE ~LogEnds(log, V[n].ofs)
    <3> DEFINE e == log[V[n].ofs]
    <3>1. /\ V[n + 1] = [ofs |-> EntryEnd(V[n].ofs, e), mem |-> Apply(e, V[n].mem)]
          /\ W[n + 1] = [ofs |-> EntryEnd(V[n].ofs, e), mem |-> Apply(e, W[n].mem)]
      BY <2>1, <2>3, <2>5 DEF LoadStep
    <3>2. V[n].mem \in Memories /\ W[n].mem \in Memories BY <2>2 DEF Turns
    <3> HIDE DEF e
    <3>3. ASSUME NEW b \in Blocks
          PROVE  \/ Apply(e, V[n].mem)[b] = Apply(e, W[n].mem)[b]
                 \/ Apply(e, V[n].mem)[b] = m1[b] /\ Apply(e, W[n].mem)[b] = m2[b]
      BY <2>3, <3>2 DEF Apply, Memories
    <3> QED BY <3>1, <3>3, SMT
  <2> QED BY <2>4, <2>5
<1> HIDE DEF S
<1>3. \A n \in Nat : n \in S BY <1>1, <1>2, NatSetInduction
<1> QED BY <1>0, <1>3, SMT DEF S, V, W

\* Two logs that agree below offset w are loaded alike until the loop gets there.
LEMMA SamePrefix ==
    ASSUME NEW log1 \in Logs, NEW log2 \in Logs, NEW m \in Memories,
           NEW w \in Nat, \A o \in Offsets : o < w => log1[o] = log2[o],
           NEW k \in 0 .. SectorSize, \A j \in 0 .. k - 1 : Walk(log1, m)[j].ofs < w
    PROVE  \A j \in 0 .. k : Walk(log2, m)[j] = Walk(log1, m)[j]
<1> DEFINE V == Walk(log1, m)
           W == Walk(log2, m)
           S == {n \in Nat : n <= k => W[n] = V[n]}
<1>0. SectorSize \in Nat BY SizesAssumption
<1>t. \A j \in 0 .. SectorSize : V[j] \in Turns BY WalkType
<1>w. /\ W[0] = [ofs |-> SectorHdr, mem |-> m]
      /\ \A j \in 0 .. SectorSize - 1 : W[j + 1] = LoadStep(log2, W[j])
  BY WalkTurns, SMT
<1>v. /\ V[0] = [ofs |-> SectorHdr, mem |-> m]
      /\ \A j \in 0 .. SectorSize - 1 : V[j + 1] = LoadStep(log1, V[j])
  BY WalkTurns, SMT
<1>b. \A j \in 0 .. k - 1 : V[j].ofs < w OBVIOUS
<1> HIDE DEF V, W
<1>1. 0 \in S BY <1>v, <1>w
<1>2. ASSUME NEW n \in Nat, n \in S PROVE n + 1 \in S
  <2> SUFFICES ASSUME n + 1 <= k PROVE W[n + 1] = V[n + 1]
    BY SMT
  <2>0. n \in 0 .. SectorSize - 1 BY <1>0, SMT
  <2>1. V[n + 1] = LoadStep(log1, V[n]) /\ W[n + 1] = LoadStep(log2, W[n])
    BY <1>v, <1>w, <2>0
  <2>2. V[n] \in Turns /\ W[n] = V[n] /\ V[n].ofs < w BY <1>0, <1>2, <1>b, <1>t, SMT
  <2>3. V[n].ofs < SectorSize - BlockHdr => V[n].ofs \in Offsets /\ log1[V[n].ofs] = log2[V[n].ofs]
    BY <2>2, SizesAssumption, SMT DEF Turns, Offsets
  <2>4. LogEnds(log1, V[n].ofs) <=> LogEnds(log2, V[n].ofs)
    BY <2>3 DEF LogEnds
  <2>5. CASE LogEnds(log1, V[n].ofs)
    BY <2>1, <2>2, <2>4, <2>5 DEF LoadStep
  <2>6. CASE ~LogEnds(log1, V[n].ofs)
    <3>1. log1[V[n].ofs] = log2[V[n].ofs] BY <2>3, <2>6 DEF LogEnds
    <3> QED BY <2>1, <2>2, <2>4, <2>6, <3>1 DEF LoadStep
  <2> QED BY <2>5, <2>6
<1> HIDE DEF S
<1>3. \A n \in Nat : n \in S BY <1>1, <1>2, NatSetInduction
<1> QED BY <1>0, <1>3, SMT DEF S, V, W

\* mem_buffer when init() starts.
Zeros == AllBlocks(Zero)

\* The loop of load_sector() comes to offset w.
Reached(log, w) ==
    \E k \in 0 .. SectorSize :
        /\ Walk(log, Zeros)[k].ofs = w
        /\ \A j \in 0 .. k - 1 : Walk(log, Zeros)[j].ofs < w

\* Nothing is programmed from offset w on, or behind it.
BlankFrom(log, w) == \A o \in Offsets : o >= w => log[o] = Erased
\* The flash behind the block at w is blank.
BlankBehind(log, w) == \A o \in Offsets : o > w => log[o] = Erased

\* The buffer that init() starts with.
LEMMA ZerosType == Zeros \in Memories
BY SizesAssumption DEF Zeros, AllBlocks, Memories

\* Sizes and offsets are natural numbers.
LEMMA OffsetFacts ==
    /\ SectorSize \in Nat /\ SectorHdr \in Nat \ {0} /\ BlockHdr \in Nat \ {0}
    /\ SectorHdr \in SectorHdr .. SectorSize
    /\ \A o \in Nat : o < SectorSize <=> o \in Offsets
    /\ \A o \in Nat, e \in Entries : EntryEnd(o, e) \in Nat /\ EntryEnd(o, e) > o
<1>1. /\ SectorSize \in Nat /\ SectorHdr \in Nat \ {0} /\ BlockHdr \in Nat \ {0}
      /\ SectorHdr \in SectorHdr .. SectorSize
  BY SizesAssumption, SizeFacts, CapacityAssumption, SMT
<1>2. \A o \in Nat : o < SectorSize <=> o \in Offsets
  BY <1>1, SMT DEF Offsets
<1>3. ASSUME NEW o \in Nat, NEW e \in Entries
      PROVE  EntryEnd(o, e) \in Nat /\ EntryEnd(o, e) > o
  <2>1. e.n * BlockSize \in Nat BY SizeFacts DEF Entries
  <2> QED BY <1>1, <2>1, SMT DEF EntryEnd
<1> QED BY <1>1, <1>2, <1>3

\* The loop of load_sector() ends at the first offset behind the log.
LEMMA LogEnd ==
    ASSUME NEW log \in Logs, NEW w \in SectorHdr .. SectorSize,
           Reached(log, w), BlankFrom(log, w), NEW m \in Memories
    PROVE  Replay(log, m).ofs = w
<1>1. PICK k \in 0 .. SectorSize : Walk(log, Zeros)[k].ofs = w
  BY DEF Reached
<1>2. Walk(log, m)[k].ofs = w
  BY <1>1, ZerosType, TwoWalks
<1>3. LogEnds(log, w)
  BY OffsetFacts, SMT DEF LogEnds, BlankFrom
<1>4. Replay(log, m) = Walk(log, m)[k]
  BY <1>2, <1>3, WalkStays
<1> QED BY <1>2, <1>4

\* The turn that loads the last block of a log.
LEMMA LastTurn ==
    ASSUME NEW log \in Logs, NEW w \in SectorHdr .. SectorSize, w < SectorSize - BlockHdr,
           log[w] \in Entries, BlankBehind(log, w), NEW m \in Memories,
           NEW k \in 0 .. SectorSize, Walk(log, m)[k].ofs = w
    PROVE  /\ k < SectorSize
           /\ Walk(log, m)[k + 1] =
                 [ofs |-> EntryEnd(w, log[w]), mem |-> Apply(log[w], Walk(log, m)[k].mem)]
           /\ Replay(log, m) = Walk(log, m)[k + 1]
<1> DEFINE W == Walk(log, m)
           q == EntryEnd(w, log[w])
<1>1. ~LogEnds(log, w)
  BY ErasedNotEntry DEF LogEnds
<1>2. k < SectorSize
  BY <1>1, WalkFinishes
<1>3. k \in 0 .. SectorSize - 1 /\ k + 1 \in 0 .. SectorSize
  BY <1>2, OffsetFacts, SMT
<1>4. W[k + 1] = LoadStep(log, W[k])
  <2>1. /\ W[0] = [ofs |-> SectorHdr, mem |-> m]
        /\ \A j \in 0 .. SectorSize - 1 : W[j + 1] = LoadStep(log, W[j])
    BY WalkTurns, SMT
  <2> HIDE DEF W
  <2> QED BY <1>3, <2>1
<1>5. W[k + 1] = [ofs |-> q, mem |-> Apply(log[w], W[k].mem)]
  BY <1>1, <1>4 DEF LoadStep
<1>6. LogEnds(log, q)
  <2>1. q \in Nat /\ q > w BY OffsetFacts, SMT
  <2> QED BY <2>1, OffsetFacts, SMT DEF LogEnds, BlankBehind
<1>7. Replay(log, m) = W[k + 1]
  BY <1>3, <1>5, <1>6, WalkStays, SMT
<1> QED BY <1>2, <1>5, <1>7

\* What appending the block e at offset w does to a log.
Appended(log, w, e, log2) ==
    /\ log2 \in Logs
    /\ Reached(log2, w) /\ BlankBehind(log2, w)
    /\ EntryEnd(w, e) \in SectorHdr .. SectorSize
    /\ Reached(log2, EntryEnd(w, e)) /\ BlankFrom(log2, EntryEnd(w, e))
    /\ \A m \in Memories :
          /\ Replay(log2, m).mem = Apply(e, Replay(log, m).mem)
          /\ Replay(log2, m).ofs = EntryEnd(w, e)

\* A block that is programmed behind the log, on blank flash or over a block that
\* was not completed, is loaded last.
LEMMA AppendLog ==
    ASSUME NEW log \in Logs, NEW w \in SectorHdr .. SectorSize, w < SectorSize - BlockHdr,
           Reached(log, w), BlankBehind(log, w),
           log[w] # Erased => log[w].state = "WRITING",
           NEW e \in Entries, EntryEnd(w, e) <= SectorSize
    PROVE  Appended(log, w, e, [log EXCEPT ![w] = e])
<1> DEFINE log2 == [log EXCEPT ![w] = e]
<1>0. w \in Nat /\ w \in Offsets BY OffsetFacts, SMT
<1>1. log \in [Offsets -> Entries \cup {Erased}] BY DEF Logs
<1>2. /\ log2 \in [Offsets -> Entries \cup {Erased}]
      /\ log2[w] = e
      /\ \A o \in Offsets : o # w => log2[o] = log[o]
  BY <1>0, <1>1
<1> HIDE DEF log2
<1>3. log2 \in Logs
  BY <1>2 DEF Logs
<1>4. BlankBehind(log2, w)
  <2>1. ASSUME NEW o \in Offsets, o > w PROVE log2[o] = Erased
    <3>1. o # w /\ log[o] = Erased BY <1>0, <2>1, SMT DEF BlankBehind
    <3> QED BY <1>2, <3>1
  <2> QED BY <2>1 DEF BlankBehind
<1>5. /\ EntryEnd(w, e) \in SectorHdr .. SectorSize
      /\ EntryEnd(w, e) > w /\ EntryEnd(w, e) \in Nat
  BY <1>0, OffsetFacts, SMT
<1>6. BlankFrom(log2, EntryEnd(w, e))
  BY <1>0, <1>4, <1>5, OffsetFacts, SMT DEF BlankBehind, BlankFrom, Offsets
<1>7. PICK k \in 0 .. SectorSize :
        /\ Walk(log, Zeros)[k].ofs = w
        /\ \A j \in 0 .. k - 1 : Walk(log, Zeros)[j].ofs < w
  BY DEF Reached
<1>8. ASSUME NEW m \in Memories
      PROVE  /\ Walk(log, m)[k].ofs = w
             /\ \A j \in 0 .. k - 1 : Walk(log, m)[j].ofs < w
             /\ \A j \in 0 .. k : Walk(log2, m)[j] = Walk(log, m)[j]
  <2>1. \A j \in 0 .. SectorSize : Walk(log, m)[j].ofs = Walk(log, Zeros)[j].ofs
    BY ZerosType, TwoWalks
  <2>2. \A j \in 0 .. k - 1 : j \in 0 .. SectorSize BY OffsetFacts, SMT
  <2>3. /\ Walk(log, m)[k].ofs = w
        /\ \A j \in 0 .. k - 1 : Walk(log, m)[j].ofs < w
    BY <1>7, <2>1, <2>2
  <2>4. \A o \in Offsets : o < w => log[o] = log2[o] BY <1>0, <1>2, SMT
  <2>5. \A j \in 0 .. k : Walk(log2, m)[j] = Walk(log, m)[j]
    BY <1>0, <1>3, <2>3, <2>4, SamePrefix
  <2> QED BY <2>3, <2>5
<1>9. ASSUME NEW m \in Memories
      PROVE  /\ k < SectorSize
             /\ Walk(log2, m)[k + 1] =
                   [ofs |-> EntryEnd(w, e), mem |-> Apply(e, Walk(log, m)[k].mem)]
             /\ Replay(log2, m) = Walk(log2, m)[k + 1]
  <2>1. k \in 0 .. k BY OffsetFacts, SMT
  <2>2. Walk(log2, m)[k] = Walk(log, m)[k] /\ Walk(log, m)[k].ofs = w
    BY <1>8, <2>1
  <2> QED BY <1>2, <1>3, <1>4, <2>2, LastTurn, SMT
<1>10. ASSUME NEW m \in Memories
       PROVE  Replay(log, m).mem = Walk(log, m)[k].mem
  <2>1. Walk(log, m)[k].ofs = w BY <1>8
  <2>2. CASE log[w] = Erased
    <3>1. LogEnds(log, w) BY <2>2 DEF LogEnds
    <3> QED BY <2>1, <3>1, WalkStays
  <2>3. CASE log[w] # Erased
    <3>1. log[w] \in Entries BY <1>0, <1>1, <2>3
    <3>2. /\ Walk(log, m)[k + 1] =
                [ofs |-> EntryEnd(w, log[w]), mem |-> Apply(log[w], Walk(log, m)[k].mem)]
          /\ Replay(log, m) = Walk(log, m)[k + 1]
      BY <2>1, <3>1, LastTurn
    <3>3. Apply(log[w], Walk(log, m)[k].mem) = Walk(log, m)[k].mem BY <2>3 DEF Apply
    <3> QED BY ONLY <3>2, <3>3
  <2> QED BY <2>2, <2>3
<1>11. Reached(log2, w)
  <2>1. \A j \in 0 .. k : Walk(log2, Zeros)[j] = Walk(log, Zeros)[j]
    BY <1>8, ZerosType
  <2>2. k \in 0 .. k /\ \A j \in 0 .. k - 1 : j \in 0 .. k BY OffsetFacts, SMT
  <2> QED BY <1>7, <2>1, <2>2 DEF Reached
<1>12. Reached(log2, EntryEnd(w, e))
  <2>1. \A j \in 0 .. k : Walk(log2, Zeros)[j] = Walk(log, Zeros)[j]
    BY <1>8, ZerosType
  <2>2. k < SectorSize /\ Walk(log2, Zeros)[k + 1].ofs = EntryEnd(w, e)
    <3>1. /\ k < SectorSize
          /\ Walk(log2, Zeros)[k + 1] =
                [ofs |-> EntryEnd(w, e), mem |-> Apply(e, Walk(log, Zeros)[k].mem)]
      BY <1>9, ZerosType
    <3> QED BY ONLY <3>1
  <2>3. ASSUME NEW j \in 0 .. (k + 1) - 1 PROVE Walk(log2, Zeros)[j].ofs < EntryEnd(w, e)
    <3>1. j \in 0 .. k /\ (j \in 0 .. k - 1 \/ j = k) BY OffsetFacts, SMT
    <3>2. Walk(log, Zeros)[j] \in Turns BY <3>1, OffsetFacts, WalkType, ZerosType, SMT
    <3>3. Walk(log, Zeros)[j].ofs \in Nat BY <3>2, OffsetFacts, SMT DEF Turns
    <3>4. Walk(log, Zeros)[j].ofs <= w BY <1>7, <3>1, <3>3, <1>0, SMT
    <3> QED BY <1>0, <1>5, <2>1, <3>1, <3>3, <3>4, SMT
  <2>4. k + 1 \in 0 .. SectorSize BY <2>2, OffsetFacts, SMT
  <2> QED BY <2>2, <2>3, <2>4 DEF Reached
<1>13. \A m \in Memories :
          /\ Replay(log2, m).mem = Apply(e, Replay(log, m).mem)
          /\ Replay(log2, m).ofs = EntryEnd(w, e)
  <2> SUFFICES ASSUME NEW m \in Memories
               PROVE  /\ Replay(log2, m).mem = Apply(e, Replay(log, m).mem)
                      /\ Replay(log2, m).ofs = EntryEnd(w, e)
    OBVIOUS
  <2>1. /\ Walk(log2, m)[k + 1] =
             [ofs |-> EntryEnd(w, e), mem |-> Apply(e, Walk(log, m)[k].mem)]
        /\ Replay(log2, m) = Walk(log2, m)[k + 1]
    BY ONLY <1>9, m \in Memories
  <2>2. Replay(log, m).mem = Walk(log, m)[k].mem BY <1>10
  <2> QED BY ONLY <2>1, <2>2
<1>14. Appended(log, w, e, log2)
  BY <1>3, <1>4, <1>5, <1>6, <1>11, <1>12, <1>13 DEF Appended
<1> QED BY <1>14 DEF log2

\* A sector that is not in use adds nothing, and neither does a blank one.
LEMMA NothingToLoad ==
    ASSUME NEW log \in Logs, NEW m \in Memories,
           log = BlankBody
    PROVE  Replay(log, m) = [ofs |-> SectorHdr, mem |-> m]
<1>1. Walk(log, m)[0] = [ofs |-> SectorHdr, mem |-> m] BY WalkTurns
<1>2. LogEnds(log, SectorHdr)
  BY OffsetFacts, SMT DEF LogEnds, BlankBody
<1>3. 0 \in 0 .. SectorSize BY OffsetFacts, SMT
<1> QED BY <1>1, <1>2, <1>3, WalkStays, SMT

\* A blank log ends behind the sector header.
LEMMA BlankLog ==
    /\ BlankBody \in Logs
    /\ Reached(BlankBody, SectorHdr) /\ BlankFrom(BlankBody, SectorHdr)
<1>1. BlankBody \in Logs BY DEF BlankBody, Logs
<1>2. Walk(BlankBody, Zeros)[0] = [ofs |-> SectorHdr, mem |-> Zeros] BY ONLY WalkTurns
<1>3. 0 \in 0 .. SectorSize /\ \A j \in 0 .. 0 - 1 : FALSE BY OffsetFacts, SMT
<1>4. Reached(BlankBody, SectorHdr) BY <1>2, <1>3, SMT DEF Reached
<1> QED BY <1>1, <1>4 DEF BlankFrom, BlankBody
-----------------------------------------------------------------------------
\* The chunks that write_all() writes.

\* storage_size is a multiple of max_write, as with 8192, 15360 or 16384 bytes and blocks
\* of up to 64 (F4, F7).  With the blocks of 30 and 6 bytes of H7 and G4 it is not.
EvenSize == StorageSize % MaxWrite = 0

\* Division with remainder.
LEMMA DivMod ==
    ASSUME NEW a \in Nat, NEW d \in Nat \ {0}
    PROVE  \E i \in Nat, r \in 0 .. d - 1 : a \div d = i /\ a % d = r /\ a = i * d + r
<1>1. a \div d \in Nat BY SMT
<1>2. a % d \in 0 .. d - 1 BY SMT
<1>3. a = d * (a \div d) + (a % d) BY SMT
<1>4. PICK i \in Nat : i = a \div d BY <1>1
<1>5. PICK r \in 0 .. d - 1 : r = a % d BY <1>2
<1>6. a = i * d + r BY <1>3, <1>4, <1>5, SMT
<1> QED BY <1>4, <1>5, <1>6

\* The quotient is unique.
LEMMA Quotient ==
    ASSUME NEW d \in Nat \ {0}, NEW i \in Nat, NEW j \in Nat, NEW r \in 0 .. d - 1,
           NEW s \in 0 .. d - 1, i * d + r = j * d + s
    PROVE  i = j /\ r = s
<1>1. ASSUME i < j PROVE FALSE
  <2>1. PICK k \in Nat : j = i + 1 + k
    <3>1. j - i - 1 \in Nat /\ j = i + 1 + (j - i - 1) BY <1>1, SMT
    <3> QED BY <3>1
  <2>2. j * d = i * d + d + k * d BY <2>1, SMT
  <2>3. k * d \in Nat /\ i * d \in Nat BY SMT
  <2> QED BY <2>2, <2>3, SMT
<1>2. ASSUME j < i PROVE FALSE
  <2>1. PICK k \in Nat : i = j + 1 + k
    <3>1. i - j - 1 \in Nat /\ i = j + 1 + (i - j - 1) BY <1>2, SMT
    <3> QED BY <3>1
  <2>2. i * d = j * d + d + k * d BY <2>1, SMT
  <2>3. k * d \in Nat /\ j * d \in Nat BY SMT
  <2> QED BY <2>2, <2>3, SMT
<1>3. i = j BY <1>1, <1>2, SMT
<1> QED BY <1>3, SMT

\* Quotient and remainder are determined by what they satisfy.
LEMMA DivOf ==
    ASSUME NEW d \in Nat \ {0}, NEW i \in Nat, NEW r \in 0 .. d - 1
    PROVE  (i * d + r) \div d = i /\ (i * d + r) % d = r
<1> DEFINE a == i * d + r
<1>1. a \in Nat BY SMT
<1> HIDE DEF a
<1>2. PICK j \in Nat, s \in 0 .. d - 1 : a \div d = j /\ a % d = s /\ a = j * d + s
  BY <1>1, DivMod
<1>3. j * d + s = i * d + r BY <1>2 DEF a
<1>4. j = i /\ s = r BY <1>3, Quotient, SMT
<1> QED BY <1>2, <1>4 DEF a

\* The number of chunks that write_all() divides the storage into.
Chunks == StorageSize \div MaxWrite
\* The space that write() wants for one of them.
CopyLen == BlockHdr + MaxWrite

\* The sizes that the proofs compute with.
LEMMA ChunkSizes ==
    /\ MaxBlocks \in Nat \ {0} /\ BlockSize \in Nat \ {0} /\ NumBlocks \in Nat \ {0}
    /\ MaxWrite \in Nat \ {0} /\ CopyLen \in Nat \ {0} /\ Chunks \in Nat
    /\ ReserveSize = Chunks * CopyLen + MaxWrite
    /\ MaxWrite = MaxBlocks * BlockSize
<1>1. /\ MaxBlocks \in Nat \ {0} /\ BlockSize \in Nat \ {0} /\ StorageSize \in Nat \ {0}
      /\ BlockHdr \in Nat
  BY SizesAssumption
<1>2. MaxWrite \in Nat \ {0} /\ NumBlocks \in Nat \ {0} BY SizeFacts
<1>3. Chunks \in Nat BY <1>1, <1>2, DivMod, SMT DEF Chunks
<1> QED BY <1>1, <1>2, <1>3, SMT DEF Chunks, CopyLen, ReserveSize, MaxWrite

\* An even storage is a whole number of chunks.
LEMMA EvenFacts ==
    ASSUME EvenSize
    PROVE  NumBlocks = Chunks * MaxBlocks /\ StorageSize = NumBlocks * BlockSize
<1>1. StorageSize \in Nat /\ MaxWrite \in Nat \ {0} /\ MaxBlocks \in Nat \ {0} /\ BlockSize \in Nat \ {0}
  BY ChunkSizes, SizesAssumption
<1>2. StorageSize = Chunks * MaxWrite /\ Chunks \in Nat
  BY <1>1, DivMod, ChunkSizes, SMTT(20) DEF Chunks, EvenSize
<1>3. Chunks * MaxWrite = (Chunks * MaxBlocks) * BlockSize
  BY <1>1, <1>2, ChunkSizes, SMT
<1>4. Chunks * MaxBlocks \in Nat BY <1>1, <1>2, SMT
<1>5. PICK x \in Nat : x = Chunks * MaxBlocks BY <1>4
<1>6. StorageSize = x * BlockSize BY <1>2, <1>3, <1>5
<1>7. BlockSize - 1 \in 0 .. BlockSize - 1 BY <1>1, SMT
<1>8. (x * BlockSize + (BlockSize - 1)) \div BlockSize = x
  BY <1>1, <1>7, DivOf
<1>9. StorageSize + BlockSize - 1 = x * BlockSize + (BlockSize - 1)
  BY <1>1, <1>6
<1>10. NumBlocks = x BY <1>8, <1>9 DEF NumBlocks
<1> QED BY <1>5, <1>6, <1>10

\* The positions of write_all(): the start of a chunk, or the end.
Stops == ChunkStarts \cup {NumBlocks}

\* A chunk starts at a multiple of its length.
LEMMA ChunkStart ==
    ASSUME NEW p \in Blocks
    PROVE  p \in ChunkStarts <=> \E i \in Nat : p = i * MaxBlocks
<1>1. p \in Nat /\ MaxBlocks \in Nat \ {0} BY ChunkSizes, SMT DEF Blocks
<1>2. ASSUME p \in ChunkStarts PROVE \E i \in Nat : p = i * MaxBlocks
  <2>1. p % MaxBlocks = 0 BY <1>2 DEF ChunkStarts
  <2>2. PICK i \in Nat, r \in 0 .. MaxBlocks - 1 : p % MaxBlocks = r /\ p = i * MaxBlocks + r
    BY <1>1, DivMod
  <2>3. i * MaxBlocks \in Nat BY <1>1, SMT
  <2> QED BY <2>1, <2>2, <2>3, SMT
<1>3. ASSUME NEW i \in Nat, p = i * MaxBlocks PROVE p \in ChunkStarts
  <2>1. 0 \in 0 .. MaxBlocks - 1 /\ p = i * MaxBlocks + 0 BY <1>1, <1>3, SMT
  <2>2. p % MaxBlocks = 0 BY <1>1, <2>1, DivOf
  <2> QED BY <2>2 DEF ChunkStarts
<1> QED BY <1>2, <1>3

\* The position of write_all() is a multiple of the length of a chunk.
LEMMA StopFacts ==
    ASSUME EvenSize, NEW p \in Stops
    PROVE  /\ p \in 0 .. NumBlocks
           /\ \E i \in Nat : i <= Chunks /\ p = i * MaxBlocks /\ (i = Chunks <=> p = NumBlocks)
<1>1. NumBlocks \in Nat \ {0} /\ MaxBlocks \in Nat \ {0} /\ Chunks \in Nat BY ChunkSizes
<1>2. NumBlocks = Chunks * MaxBlocks BY EvenFacts
<1>3. CASE p = NumBlocks BY <1>1, <1>2, <1>3, SMT
<1>4. CASE p # NumBlocks
  <2>1. p \in ChunkStarts /\ p \in Blocks BY <1>4 DEF Stops, ChunkStarts
  <2>2. PICK i \in Nat : p = i * MaxBlocks BY <2>1, ChunkStart
  <2>3. p \in Nat /\ p < NumBlocks BY <2>1, <1>1, SMT DEF Blocks
  <2>4. i < Chunks
    <3> SUFFICES ASSUME i >= Chunks PROVE FALSE BY <1>1, SMT
    <3>1. PICK k \in Nat : i = Chunks + k
      <4>1. i - Chunks \in Nat /\ i = Chunks + (i - Chunks) BY <1>1, SMT
      <4> QED BY <4>1
    <3>2. i * MaxBlocks = Chunks * MaxBlocks + k * MaxBlocks BY <1>1, <3>1, SMT
    <3>3. k * MaxBlocks \in Nat BY <1>1, SMT
    <3> QED BY <1>1, <1>2, <2>2, <2>3, <3>2, <3>3, SMT
  <2> QED BY <1>1, <1>4, <2>2, <2>3, <2>4, SMT
<1> QED BY <1>3, <1>4

\* In an even storage every chunk is full, and the next one starts behind it.
LEMMA NextStop ==
    ASSUME EvenSize, NEW p \in ChunkStarts
    PROVE  ChunkLen(p) = MaxBlocks /\ p + MaxBlocks \in Stops /\ p + MaxBlocks <= NumBlocks
<1>1. NumBlocks \in Nat \ {0} /\ MaxBlocks \in Nat \ {0} /\ Chunks \in Nat BY ChunkSizes
<1>2. NumBlocks = Chunks * MaxBlocks BY EvenFacts
<1>3. p \in Blocks /\ p \in Nat /\ p # NumBlocks BY <1>1, SMT DEF ChunkStarts, Blocks
<1>4. PICK i \in Nat : i <= Chunks /\ p = i * MaxBlocks /\ (i = Chunks <=> p = NumBlocks)
  BY StopFacts DEF Stops
<1>5. i < Chunks BY <1>1, <1>3, <1>4, SMT
<1>6. PICK k \in Nat : Chunks = (i + 1) + k
  <2>1. Chunks - (i + 1) \in Nat /\ Chunks = (i + 1) + (Chunks - (i + 1)) BY <1>1, <1>5, SMT
  <2> QED BY <2>1
<1>7. Chunks * MaxBlocks = (i + 1) * MaxBlocks + k * MaxBlocks BY <1>1, <1>6, SMT
<1>8. (i + 1) * MaxBlocks = p + MaxBlocks /\ k * MaxBlocks \in Nat BY <1>1, <1>4, SMT
<1>9. p + MaxBlocks <= NumBlocks BY <1>1, <1>2, <1>3, <1>7, <1>8, SMT
<1>10. ChunkLen(p) = MaxBlocks BY <1>1, <1>3, <1>9, SMT DEF ChunkLen
<1>11. p + MaxBlocks \in Stops
  <2>1. CASE p + MaxBlocks = NumBlocks BY <2>1 DEF Stops
  <2>2. CASE p + MaxBlocks # NumBlocks
    <3>1. p + MaxBlocks \in Blocks BY <1>1, <1>3, <1>9, <2>2, SMT DEF Blocks
    <3>2. p + MaxBlocks \in ChunkStarts BY <1>8, <3>1, ChunkStart, SMT
    <3> QED BY <3>2 DEF Stops
  <2> QED BY <2>1, <2>2
<1> QED BY <1>9, <1>10, <1>11

\* Every block of storage is in a chunk.
LEMMA ChunkOf ==
    ASSUME EvenSize, NEW p \in Stops, NEW b \in Blocks, p <= b
    PROVE  \E r \in ChunkStarts : p <= r /\ r <= b /\ b < r + MaxBlocks
<1>1. NumBlocks \in Nat \ {0} /\ MaxBlocks \in Nat \ {0} /\ b \in Nat
  BY ChunkSizes, SMT DEF Blocks
<1>3. PICK j \in Nat, t \in 0 .. MaxBlocks - 1 : b = j * MaxBlocks + t
  BY <1>1, DivMod
<1>4. PICK r \in Nat : r = j * MaxBlocks
  <2>1. j * MaxBlocks \in Nat BY <1>1, SMT
  <2> QED BY <2>1
<1>5. r <= b /\ b < r + MaxBlocks BY <1>1, <1>3, <1>4, SMT
<1>6. r \in Blocks BY <1>1, <1>5, SMT DEF Blocks
<1>7. r \in ChunkStarts BY <1>4, <1>6, ChunkStart
<1>8. PICK i \in Nat : p = i * MaxBlocks BY StopFacts
<1>9. p <= r
  <2> SUFFICES ASSUME j < i PROVE FALSE
    <3>1. ASSUME i <= j PROVE i * MaxBlocks <= j * MaxBlocks BY <1>1, <3>1, SMT
    <3> QED BY <1>4, <1>8, <3>1, SMT
  <2>1. PICK k \in Nat : i = (j + 1) + k
    <3>1. i - (j + 1) \in Nat /\ i = (j + 1) + (i - (j + 1)) BY SMT
    <3> QED BY <3>1
  <2>2. i * MaxBlocks = j * MaxBlocks + MaxBlocks + k * MaxBlocks BY <1>1, <2>1, SMT
  <2>3. k * MaxBlocks \in Nat BY <1>1, SMT
  <2> QED BY <1>1, <1>4, <1>5, <1>8, <2>2, <2>3, SMT
<1> QED BY <1>5, <1>7, <1>9
-----------------------------------------------------------------------------
\* The invariant about the data.

\* What load_sector() makes of a sector with header h.
Load(h, log, m) ==
    IF h \in {"IN_USE", "FULL"} THEN Replay(log, m) ELSE [ofs |-> SectorHdr, mem |-> m]

\* What init() would load when i is the newer one of the sectors.
Newest(H, B, i) == Load(H[i], B[i], Load(H[Other(i)], B[Other(i)], Zeros).mem)

\* The sector in use and the other one, which is FULL or blank.
Pair(H, B, i) ==
    /\ H[i] = "IN_USE" /\ H[Other(i)] \in {"AVAILABLE", "FULL"}
    /\ H[Other(i)] = "AVAILABLE" => B[Other(i)] = BlankBody

\* The log ends somewhere, and the flash behind it is blank.
Ended(log) == \E w \in SectorHdr .. SectorSize : Reached(log, w) /\ BlankFrom(log, w)

\* The logs hold what was committed, or a newer value.
Holds(H, B, i, R) == \A b \in Blocks : Newest(H, B, i).mem[b] \in R[b]

\* If init() has to write everything out, the sector in use has room for it.
OutFits(H, B, i) ==
    H[Other(i)] = "FULL" => WriteOutFits(Newest(H, B, i).ofs, Newest(H, B, i).mem)

\* What the power failure leaves behind, outside the vulnerable windows.
Rest(H, B, i, R) == Pair(H, B, i) /\ Ended(B[i]) /\ Holds(H, B, i, R) /\ OutFits(H, B, i)

\* The sector that init() loads first.
Older(H, i) == IF H[Other(i)] = "FULL" THEN Other(i) ELSE i

\* init() is somewhere in the loop of load_sector().
Within(log, m, o, x) ==
    \E k \in 0 .. SectorSize : Walk(log, m)[k] = [ofs |-> o, mem |-> x]

\* init() is loading the logs, i being the sector in use.
Loading(i) ==
    /\ Rest(hdr, body, i, recent)
    /\ current = Older(hdr, i)
    /\ pc = "load1" => Within(body[current], Zeros, wofs, mem)
    /\ pc = "load2" /\ current # i =>
          Within(body[i], Replay(body[current], Zeros).mem, wofs, mem)
    /\ pc = "load2" /\ current = i =>
          wofs = Replay(body[i], Zeros).ofs /\ mem = Replay(body[i], Zeros).mem
    /\ pc = "loaded" => wofs = Replay(body[i], Zeros).ofs /\ mem = Newest(hdr, body, i).mem

\* Where write() appends: behind the log, or over a block that was not completed.
Tail(log, w) ==
    /\ w \in SectorHdr .. SectorSize
    /\ Reached(log, w) /\ BlankBehind(log, w)
    /\ w \in Offsets /\ log[w] # Erased => log[w].state = "WRITING"

\* The log of one sector alone holds the blocks below p.
Copied(log, p, R) == \A b \in Blocks : b < p => Replay(log, Zeros).mem[b] \in R[b]

\* The chunks that write_all() still has to write, from position p on.
ToWrite(m, p) == {q \in ChunkStarts : q >= p /\ ~AllZero(m, q)}

\* There is room for all chunks from position p on, or for the ones not all zero.
Room(w, p) == MaxBlocks * (SectorSize - w) >= (NumBlocks - p) * CopyLen
\* ... or for the ones that are not all zero.
OutRoom(w, m, p) == w + Cardinality(ToWrite(m, p)) * CopyLen <= SectorSize

\* mem_buffer has, for every block, what was committed last or a newer value.
MemRecent == \A b \in Blocks : mem[b] \in recent[b]

\* switch_full_sector() copies everything to the sector in use.
Copying ==
    /\ reserved = 0 /\ inSwitch /\ op # "init" /\ inner \in Stops
    /\ Copied(body[current], inner, recent)
    /\ hdr[Other(current)] = "AVAILABLE" => Room(wofs, inner)

\* init() writes everything out.
WritingOut ==
    /\ ~nested /\ reserved = 0 /\ hdr[Other(current)] = "FULL"
    /\ base.pos \in ChunkStarts /\ ~AllZero(mem, base.pos)
    /\ Copied(body[current], base.pos, recent) /\ OutRoom(wofs, mem, base.pos)

\* Where write() is between its operations on one block, ...
LoopPCs == {"check", "program", "validate"}
\* ... and where a sector is in use.
RunPCs == LoopPCs \cup {"idle", "markFull", "switchErase", "initErase", "erase0"}

\* A sector is in use and write() appends to it.
Appending ==
    /\ Pair(hdr, body, current) /\ Tail(body[current], wofs)
    /\ Holds(hdr, body, current, recent) /\ MemRecent

\* A sector is in use: what holds at each operation of the calls.
RunOK ==
    /\ Appending
    /\ pc = "validate" => /\ body[current][wofs].state = "WRITING"
                          /\ body[current][wofs].first = Pos /\ body[current][wofs].n = Len
    /\ nested => Copying /\ pc # "markFull"
    /\ pc = "switchErase" => nested /\ inner = NumBlocks
    /\ pc = "markFull" => hdr[Other(current)] = "AVAILABLE" /\ op # "init"
    /\ op = "init" /\ pc \in LoopPCs => WritingOut
    /\ pc = "initErase" => Copied(body[current], NumBlocks, recent)

\* switch_sectors() has marked one sector FULL and not yet the other one IN_USE.
MarkOK ==
    /\ hdr[current] = "FULL" /\ hdr[Other(current)] = "AVAILABLE"
    /\ body[Other(current)] = BlankBody
    /\ Holds(hdr, body, current, recent) /\ MemRecent /\ ~nested /\ op # "init"

\* The other sector is erased and not yet marked AVAILABLE.
AvailOK ==
    /\ hdr[current] = "IN_USE" /\ hdr[Other(current)] = "BLANK"
    /\ body[Other(current)] = BlankBody /\ Tail(body[current], wofs)
    /\ Holds(hdr, body, current, recent) /\ MemRecent
    /\ pc = "switchAvailable" => reserved = 0 /\ op # "init"

\* erase_all() is between its first and its last operation.
EraseOK ==
    /\ current = 0 /\ wofs = SectorHdr /\ body[0] = BlankBody
    /\ pc # "erase1" => body[1] = BlankBody
    /\ pc # "inUse0" => hdr[0] = "BLANK"
    /\ pc = "inUse0" => hdr[0] \in {"BLANK", "AVAILABLE"} /\ hdr[1] = "AVAILABLE"

\* Every block in flash is inside the storage.
EntriesInside ==
    \A s \in Sectors, o \in Offsets :
        body[s][o] # Erased => body[s][o].first + body[s][o].n <= NumBlocks

\* The invariant about the data.
DInv ==
    /\ EntriesInside
    /\ pc = "off" => mem = Zeros
    /\ pc \in {"erase1", "available1", "inUse0"} => EraseOK
    /\ intact =>
         /\ pc = "off" => \E i \in Sectors : Rest(hdr, body, i, recent)
         /\ pc \in {"load1", "load2", "loaded"} => \E i \in Sectors : Loading(i)
         /\ pc \in RunPCs => RunOK
         /\ pc = "markInUse" => MarkOK
         /\ pc \in {"switchAvailable", "initAvailable"} => AvailOK

\* The two sectors.
LEMMA SectorFacts ==
    \A i \in Sectors : Other(i) \in Sectors /\ Other(i) # i /\ Other(Other(i)) = i
                       /\ \A j \in Sectors : j = i \/ j = Other(i)
BY SMT DEF Sectors, Other

\* The bodies of the sectors are logs.
AllLogs(B) == B \in [Sectors -> Logs]

\* The sectors hold logs, now ...
LEMMA LogsType ==
    ASSUME IInv
    PROVE  AllLogs(body)
<1>1. body \in [Sectors -> [Offsets -> Entries \cup {Erased}]] BY DEF IInv, TypeOK
<1>2. \A s \in Sectors : body[s] \in Logs BY <1>1 DEF IInv, EntriesFit, Logs
<1> QED BY <1>1, <1>2 DEF AllLogs

\* ... and after the step.
LEMMA LogsTypeNext ==
    ASSUME IInv'
    PROVE  AllLogs(body')
<1>1. body' \in [Sectors -> [Offsets -> Entries \cup {Erased}]] BY DEF IInv, TypeOK
<1>2. \A s \in Sectors : body'[s] \in Logs BY <1>1 DEF IInv, EntriesFit, Logs, EntryEnd
<1> QED BY <1>1, <1>2 DEF AllLogs

\* load_sector() ends inside the sector, with a buffer of the right type.
LEMMA LoadType ==
    ASSUME NEW h, NEW log \in Logs, NEW m \in Memories
    PROVE  /\ Load(h, log, m) \in Turns
           /\ Load(h, log, m).mem \in Memories
           /\ Replay(log, m) \in Turns /\ Replay(log, m).mem \in Memories
<1>1. Replay(log, m) \in Turns BY WalkFinishes
<1>2. [ofs |-> SectorHdr, mem |-> m] \in Turns BY OffsetFacts DEF Turns
<1>3. Load(h, log, m) \in Turns BY <1>1, <1>2 DEF Load
<1> QED BY <1>1, <1>3 DEF Turns

\* A blank sector, or one not in use, adds nothing.
LEMMA LoadNothing ==
    ASSUME NEW h, NEW log \in Logs, NEW m \in Memories,
           h \notin {"IN_USE", "FULL"} \/ log = BlankBody
    PROVE  Load(h, log, m) = [ofs |-> SectorHdr, mem |-> m]
BY NothingToLoad DEF Load

\* So does the loading of both sectors.
LEMMA NewestType ==
    ASSUME NEW H, NEW B, AllLogs(B), NEW i \in Sectors
    PROVE  Newest(H, B, i) \in Turns /\ Newest(H, B, i).mem \in Memories
<1>1. B[i] \in Logs /\ B[Other(i)] \in Logs BY SectorFacts DEF AllLogs
<1>2. Load(H[Other(i)], B[Other(i)], Zeros).mem \in Memories BY <1>1, ZerosType, LoadType
<1> QED BY <1>1, <1>2, LoadType DEF Newest

\* Only the headers and the bodies matter, and of the older sector only whether
\* it is in use.
LEMMA NewestAlone ==
    ASSUME NEW H, NEW B, AllLogs(B), NEW i \in Sectors, H[i] \in {"IN_USE", "FULL"},
           H[Other(i)] \notin {"IN_USE", "FULL"} \/ B[Other(i)] = BlankBody
    PROVE  Newest(H, B, i) = Replay(B[i], Zeros)
<1>1. B[i] \in Logs /\ B[Other(i)] \in Logs BY SectorFacts DEF AllLogs
<1>2. Load(H[Other(i)], B[Other(i)], Zeros) = [ofs |-> SectorHdr, mem |-> Zeros]
  BY <1>1, ZerosType, LoadNothing
<1>3. Load(H[Other(i)], B[Other(i)], Zeros).mem = Zeros BY <1>2, SMT
<1> QED BY <1>3 DEF Newest, Load

\* What one sector alone says of a block is what both say, or it says nothing.
LEMMA AloneOrNothing ==
    ASSUME NEW H, NEW B, AllLogs(B), NEW i \in Sectors, H[i] = "IN_USE", NEW b \in Blocks
    PROVE  \/ Replay(B[i], Zeros).mem[b] = Newest(H, B, i).mem[b]
           \/ Replay(B[i], Zeros).mem[b] = Zero
<1>1. B[i] \in Logs /\ B[Other(i)] \in Logs BY SectorFacts DEF AllLogs
<1>2. PICK m \in Memories : m = Load(H[Other(i)], B[Other(i)], Zeros).mem
  BY <1>1, ZerosType, LoadType
<1>3. Newest(H, B, i) = Replay(B[i], m) BY <1>2 DEF Newest, Load
<1>4. SectorSize \in 0 .. SectorSize BY OffsetFacts, SMT
<1>5. \/ Walk(B[i], Zeros)[SectorSize].mem[b] = Walk(B[i], m)[SectorSize].mem[b]
      \/ Walk(B[i], Zeros)[SectorSize].mem[b] = Zeros[b]
  BY <1>1, <1>4, ZerosType, TwoWalks
<1>6. Zeros[b] = Zero BY DEF Zeros, AllBlocks
<1> QED BY <1>3, <1>5, <1>6 DEF Replay

\* What init() loads, from the headers of the sectors.
LEMMA LoadedIs ==
    ASSUME IInv, NEW i \in Sectors, Pair(hdr, body, i)
    PROVE  /\ FirstSector = Older(hdr, i)
           /\ ~BadHeaders
           /\ Loaded.mem = Newest(hdr, body, i).mem
           /\ hdr[Other(i)] = "FULL" => Loaded = Newest(hdr, body, i)
           /\ hdr[Other(i)] = "FULL" <=> {hdr[0], hdr[1]} = {"FULL", "IN_USE"}
           /\ ~SwitchWindow /\ ~EraseWindow
<1>0. AllLogs(body) BY LogsType
<1>1. body[i] \in Logs /\ body[Other(i)] \in Logs BY <1>0, SectorFacts DEF AllLogs
<1>2. Other(i) \in Sectors /\ ((i = 0 /\ Other(i) = 1) \/ (i = 1 /\ Other(i) = 0))
  <2>1. CASE i = 0
    <3>1. Other(i) = 1 BY <2>1, SMT DEF Other
    <3> QED BY <2>1, <3>1 DEF Sectors
  <2>2. CASE i = 1
    <3>1. Other(i) = 0 BY <2>2, SMT DEF Other
    <3> QED BY <2>2, <3>1 DEF Sectors
  <2> QED BY <2>1, <2>2 DEF Sectors
<1>3. FirstSector = Older(hdr, i) BY <1>2 DEF FirstSector, Older, Pair
<1>4. ~BadHeaders /\ ~SwitchWindow /\ ~EraseWindow
  BY <1>2 DEF BadHeaders, SwitchWindow, EraseWindow, Pair, Sectors
<1>5. hdr[Other(i)] = "FULL" <=> {hdr[0], hdr[1]} = {"FULL", "IN_USE"}
  BY <1>2 DEF Pair
<1>6. \A s, m : Scan(s, m) = Load(hdr[s], body[s], m)
  BY DEF Scan, Load, InUse
<1>7. CASE hdr[Other(i)] = "FULL"
  <2>1. FirstSector = Other(i) /\ Other(FirstSector) = i
    BY <1>3, <1>7, SectorFacts DEF Older
  <2>2. Loaded = Newest(hdr, body, i)
    BY <1>6, <2>1 DEF Loaded, Newest, Zeros
  <2> QED BY <1>3, <1>4, <1>5, <2>2
<1>8. CASE hdr[Other(i)] # "FULL"
  <2>1. FirstSector = i /\ hdr[Other(i)] = "AVAILABLE" /\ hdr[i] = "IN_USE"
    BY <1>3, <1>8 DEF Older, Pair
  <2>2. Loaded = Load(hdr[Other(i)], body[Other(i)], Load(hdr[i], body[i], Zeros).mem)
    BY <1>6, <2>1 DEF Loaded, Zeros
  <2>3. Loaded = [ofs |-> SectorHdr, mem |-> Load(hdr[i], body[i], Zeros).mem]
    BY <2>1, <2>2 DEF Load
  <2>4. Loaded.mem = Replay(body[i], Zeros).mem
    BY <2>1, <2>3 DEF Load
  <2>5. Newest(hdr, body, i) = Replay(body[i], Zeros)
    BY <1>0, <2>1, NewestAlone
  <2> QED BY <1>3, <1>4, <1>5, <1>8, <2>4, <2>5
<1> QED BY <1>7, <1>8

\* The log behind which write() appends ends.
LEMMA TailEnds ==
    ASSUME NEW log \in Logs, NEW w, Tail(log, w)
    PROVE  Ended(log)
<1>1. w \in SectorHdr .. SectorSize /\ w \in Nat BY OffsetFacts, SMT DEF Tail
<1>2. CASE w \in Offsets /\ log[w] # Erased
  <2>1. log[w] \in Entries /\ EntryEnd(w, log[w]) <= SectorSize BY <1>2 DEF Logs
  <2>2. w < SectorSize - BlockHdr
    <3>1. log[w].n * BlockSize \in Nat \ {0} BY <2>1, SizeFacts DEF Entries
    <3> QED BY <1>1, <2>1, <3>1, OffsetFacts, SMT DEF EntryEnd
  <2> DEFINE e == log[w]
  <2>3. Appended(log, w, e, [log EXCEPT ![w] = e])
    BY <1>1, <1>2, <2>1, <2>2, AppendLog DEF Tail
  <2>4. log = [log EXCEPT ![w] = e] BY <1>2 DEF Logs
  <2>5. Appended(log, w, e, log) BY <2>3, <2>4
  <2> QED BY <2>5 DEF Appended, Ended
<1>3. CASE w \notin Offsets \/ log[w] = Erased
  <2>1. BlankFrom(log, w)
    <3>1. ASSUME NEW o \in Offsets, o >= w PROVE log[o] = Erased
      <4>1. o > w \/ o = w BY <1>1, <3>1, SMT DEF Offsets
      <4> QED BY <1>3, <4>1 DEF Tail, BlankBehind
    <3> QED BY <3>1 DEF BlankFrom
  <2> QED BY <1>1, <2>1 DEF Tail, Ended
<1> QED BY <1>2, <1>3

\* The chunks that write_all() skips are all zero.
LEMMA SkippedZero ==
    ASSUME EvenSize, NEW m, NEW p \in Stops, NEW q \in NextChunk(m, p)
    PROVE  /\ q \in Stops /\ q >= p
           /\ \A b \in Blocks : p <= b /\ b < q => m[b] = Zero
           /\ q # NumBlocks => q \in ChunkStarts /\ ~AllZero(m, q)
           /\ \A r \in ChunkStarts : p <= r /\ r < q => AllZero(m, r)
<1>1. /\ q \in Stops /\ q >= p
      /\ q # NumBlocks => q \in ChunkStarts /\ ~AllZero(m, q)
      /\ \A r \in ChunkStarts : p <= r /\ r < q => AllZero(m, r)
  BY DEF NextChunk, Stops
<1>2. ASSUME NEW b \in Blocks, p <= b, b < q PROVE m[b] = Zero
  <2>1. PICK r \in ChunkStarts : p <= r /\ r <= b /\ b < r + MaxBlocks
    BY <1>2, ChunkOf
  <2>2. b \in Nat /\ r \in Nat /\ q \in Nat
    BY <1>1, ChunkSizes, SMT DEF Blocks, ChunkStarts, Stops
  <2>3. AllZero(m, r) BY <1>1, <1>2, <2>1, <2>2, SMT
  <2>4. ChunkLen(r) = MaxBlocks BY NextStop
  <2> QED BY <2>1, <2>3, <2>4 DEF AllZero
<1> QED BY <1>1, <1>2

\* A skipped chunk counts as copied: what the log says of it was committed, or
\* is zero like mem_buffer.
LEMMA CopiedOn ==
    ASSUME EvenSize, NEW H, NEW B, AllLogs(B), NEW i \in Sectors, H[i] = "IN_USE", NEW R,
           Holds(H, B, i, R), NEW m, \A b \in Blocks : m[b] \in R[b],
           NEW p \in Stops, Copied(B[i], p, R), NEW q \in NextChunk(m, p)
    PROVE  Copied(B[i], q, R)
<1> SUFFICES ASSUME NEW b \in Blocks, b < q PROVE Replay(B[i], Zeros).mem[b] \in R[b]
  BY DEF Copied
<1>1. b \in Nat /\ p \in Nat BY ChunkSizes, SMT DEF Blocks, Stops, ChunkStarts
<1>2. CASE b < p BY <1>2 DEF Copied
<1>3. CASE p <= b
  <2>1. m[b] = Zero BY <1>3, SkippedZero
  <2>2. m[b] \in R[b] /\ Newest(H, B, i).mem[b] \in R[b] BY DEF Holds
  <2>3. \/ Replay(B[i], Zeros).mem[b] = Newest(H, B, i).mem[b]
        \/ Replay(B[i], Zeros).mem[b] = Zero
    BY AloneOrNothing
  <2> QED BY <2>1, <2>2, <2>3
<1> QED BY <1>1, <1>2, <1>3, SMT

\* While there is room for the chunks, there is room for the next one.
LEMMA RoomIsSpace ==
    ASSUME EvenSize, NEW w \in 0 .. SectorSize, NEW p \in ChunkStarts, Room(w, p)
    PROVE  SectorSize - w >= CopyLen
<1>1. /\ NumBlocks \in Nat /\ MaxBlocks \in Nat \ {0} /\ CopyLen \in Nat \ {0}
      /\ SectorSize \in Nat /\ p \in Nat
  BY ChunkSizes, OffsetFacts, SMT DEF ChunkStarts, Blocks
<1>2. PICK n \in Nat : NumBlocks - p = MaxBlocks + n
  <2>1. p + MaxBlocks <= NumBlocks BY NextStop
  <2>2. NumBlocks - p - MaxBlocks \in Nat /\ NumBlocks - p = MaxBlocks + (NumBlocks - p - MaxBlocks)
    BY <1>1, <2>1, SMT
  <2> QED BY <2>2
<1>3. PICK x \in Int : x = SectorSize - w BY <1>1, SMT
<1>4. MaxBlocks * x >= (MaxBlocks + n) * CopyLen BY <1>2, <1>3 DEF Room
<1>5. (MaxBlocks + n) * CopyLen = MaxBlocks * CopyLen + n * CopyLen /\ n * CopyLen \in Nat
  BY <1>1, SMT
<1>6. MaxBlocks * x >= MaxBlocks * CopyLen BY <1>1, <1>4, <1>5, SMT
<1>7. x >= CopyLen
  <2> SUFFICES ASSUME x < CopyLen PROVE FALSE BY <1>1, SMT
  <2>1. PICK d \in Nat \ {0} : CopyLen = x + d
    <3>1. CopyLen - x \in Nat \ {0} /\ CopyLen = x + (CopyLen - x) BY <1>1, SMT
    <3> QED BY <3>1
  <2>2. MaxBlocks * CopyLen = MaxBlocks * x + MaxBlocks * d BY <1>1, <2>1, SMT
  <2>3. MaxBlocks * d \in Nat \ {0} BY <1>1, SMT
  <2>4. MaxBlocks * x \in Int BY <1>1, SMT
  <2> QED BY <1>6, <2>2, <2>3, <2>4, SMT
<1> QED BY <1>3, <1>7

\* Copying one chunk keeps room for the others.
LEMMA RoomNext ==
    ASSUME EvenSize, NEW w \in 0 .. SectorSize, NEW p \in ChunkStarts, Room(w, p),
           NEW q \in Stops, q >= p + MaxBlocks
    PROVE  Room(w + CopyLen, q)
<1>1. /\ NumBlocks \in Nat /\ MaxBlocks \in Nat \ {0} /\ CopyLen \in Nat \ {0}
      /\ SectorSize \in Nat /\ p \in Nat /\ q \in 0 .. NumBlocks
  BY ChunkSizes, OffsetFacts, SMT DEF ChunkStarts, Blocks, Stops
<1>2. PICK n \in Nat : NumBlocks - p = (NumBlocks - q) + MaxBlocks + n
  <2>1. q - (p + MaxBlocks) \in Nat
        /\ NumBlocks - p = (NumBlocks - q) + MaxBlocks + (q - (p + MaxBlocks))
    BY <1>1, SMT
  <2> QED BY <2>1
<1>3. PICK x \in Int : x = SectorSize - w BY <1>1, SMT
<1>4. PICK y \in Nat : y = NumBlocks - q BY <1>1, SMT
<1>5. MaxBlocks * x >= (y + MaxBlocks + n) * CopyLen BY <1>2, <1>3, <1>4 DEF Room
<1>6. (y + MaxBlocks + n) * CopyLen = y * CopyLen + MaxBlocks * CopyLen + n * CopyLen
      /\ n * CopyLen \in Nat /\ y * CopyLen \in Nat /\ MaxBlocks * CopyLen \in Nat
  BY <1>1, SMT
<1>7. MaxBlocks * (x - CopyLen) = MaxBlocks * x - MaxBlocks * CopyLen /\ MaxBlocks * x \in Int
  BY <1>1, SMT
<1>8. MaxBlocks * (x - CopyLen) >= y * CopyLen BY <1>5, <1>6, <1>7, SMT
<1>9. SectorSize - (w + CopyLen) = x - CopyLen BY <1>1, <1>3, SMT
<1> QED BY <1>4, <1>8, <1>9 DEF Room

\* The reserve of switch_sectors() is room for all chunks.
LEMMA ReserveIsRoom ==
    ASSUME EvenSize, NEW w \in 0 .. SectorSize, SectorSize - w >= ReserveSize, NEW q \in Stops
    PROVE  Room(w, q)
<1>1. /\ NumBlocks \in Nat /\ MaxBlocks \in Nat \ {0} /\ CopyLen \in Nat \ {0}
      /\ SectorSize \in Nat /\ q \in 0 .. NumBlocks /\ Chunks \in Nat
      /\ NumBlocks = Chunks * MaxBlocks /\ MaxWrite \in Nat
      /\ ReserveSize = Chunks * CopyLen + MaxWrite
  BY ChunkSizes, OffsetFacts, EvenFacts, SMT DEF ChunkStarts, Blocks, Stops
<1>2. PICK x \in Int : x = SectorSize - w BY <1>1, SMT
<1>3. PICK y \in Nat : y = Chunks * CopyLen BY <1>1, SMT
<1>4. x >= y BY <1>1, <1>2, <1>3, SMT
<1>5. PICK z \in Nat : x = y + z
  <2>1. x - y \in Nat /\ x = y + (x - y) BY <1>4, SMT
  <2> QED BY <2>1
<1>6. MaxBlocks * x = MaxBlocks * y + MaxBlocks * z /\ MaxBlocks * z \in Nat
  BY <1>1, <1>5, SMT
<1>7. MaxBlocks * y = NumBlocks * CopyLen BY <1>1, <1>3, SMT
<1>8. PICK n \in Nat : NumBlocks = (NumBlocks - q) + n
  <2>1. q \in Nat /\ NumBlocks = (NumBlocks - q) + q BY <1>1, SMT
  <2> QED BY <2>1
<1>9. PICK u \in Nat : u = NumBlocks - q BY <1>1, SMT
<1>10. NumBlocks * CopyLen = u * CopyLen + n * CopyLen /\ n * CopyLen \in Nat /\ u * CopyLen \in Nat
  BY <1>1, <1>8, <1>9, SMT
<1>11. MaxBlocks * x >= u * CopyLen
  <2>1. MaxBlocks * y \in Nat BY <1>1, SMT
  <2> QED BY <2>1, <1>6, <1>7, <1>10, SMT
<1> QED BY <1>2, <1>9, <1>11 DEF Room
-----------------------------------------------------------------------------
\* How DInv is shown of a next state.

\* The conjuncts of DInv that matter where a sector is in use, ...
LEMMA ToRun ==
    ASSUME pc' \in RunPCs, EntriesInside', intact' => RunOK'
    PROVE  DInv'
BY DEF DInv, RunPCs, LoopPCs

\* ... between the two headers of switch_sectors(), ...
LEMMA ToMark ==
    ASSUME pc' = "markInUse", EntriesInside', intact' => MarkOK'
    PROVE  DInv'
BY DEF DInv, RunPCs, LoopPCs

\* ... between the erase of the other sector and its header, ...
LEMMA ToAvail ==
    ASSUME pc' \in {"switchAvailable", "initAvailable"}, EntriesInside', intact' => AvailOK'
    PROVE  DInv'
BY DEF DInv, RunPCs, LoopPCs

\* ... within erase_all() ...
LEMMA ToErase ==
    ASSUME pc' \in {"erase1", "available1", "inUse0"}, EntriesInside', EraseOK'
    PROVE  DInv'
BY DEF DInv, RunPCs, LoopPCs

\* ... and within init().
LEMMA ToLoad ==
    ASSUME pc' \in {"load1", "load2", "loaded"}, EntriesInside',
           intact' => \E i \in Sectors : Loading(i)'
    PROVE  DInv'
BY DEF DInv, RunPCs, LoopPCs

\* When write() has returned, or erase_all() is about to start, only the sectors matter.
LEMMA RunQuiet ==
    ASSUME Appending', pc' \in {"idle", "erase0"}, ~nested'
    PROVE  RunOK'
BY DEF RunOK, LoopPCs

\* In the middle of a write() that is neither nested nor one of init() too.
LEMMA RunPlain ==
    ASSUME Appending', pc' \in {"check", "program"}, ~nested', op' # "init"
    PROVE  RunOK'
BY DEF RunOK, LoopPCs

\* A step that changes neither flash nor buffers.
LEMMA AppendingSame ==
    ASSUME Appending, hdr' = hdr, body' = body, current' = current, wofs' = wofs,
           recent' = recent, mem' = mem
    PROVE  Appending'
BY DEF Appending, MemRecent

\* Blocks in flash stay inside the storage: flash that is not changed, ...
LEMMA InsideSame ==
    ASSUME EntriesInside, body' = body
    PROVE  EntriesInside'
BY DEF EntriesInside

\* ... a sector that is erased ...
LEMMA InsideErase ==
    ASSUME IInv, EntriesInside, NEW s \in Sectors, EraseSector(s)
    PROVE  /\ EntriesInside' /\ body'[s] = BlankBody /\ hdr'[s] = "BLANK"
           /\ body'[Other(s)] = body[Other(s)] /\ hdr'[Other(s)] = hdr[Other(s)]
<1>1. body \in [Sectors -> [Offsets -> Entries \cup {Erased}]] /\ hdr \in [Sectors -> HdrStates]
  BY DEF IInv, TypeOK
<1>2. body' = [body EXCEPT ![s] = BlankBody] /\ hdr' = [hdr EXCEPT ![s] = "BLANK"]
  BY DEF EraseSector
<1>3. body'[s] = BlankBody /\ hdr'[s] = "BLANK" BY <1>1, <1>2
<1>4. \A t \in Sectors : t # s => body'[t] = body[t] /\ hdr'[t] = hdr[t] BY <1>1, <1>2
<1>5. ASSUME NEW t \in Sectors, NEW o \in Offsets, body'[t][o] # Erased
      PROVE  body'[t][o].first + body'[t][o].n <= NumBlocks
  <2>1. CASE t = s BY <1>3, <1>5, <2>1 DEF BlankBody
  <2>2. CASE t # s BY <1>4, <1>5, <2>2 DEF EntriesInside
  <2> QED BY <2>1, <2>2
<1> QED BY <1>3, <1>4, <1>5, SectorFacts DEF EntriesInside

\* ... and a block that is programmed.
LEMMA InsideProgram ==
    ASSUME IInv, EntriesInside, wofs \in Offsets, NEW e, e.first + e.n <= NumBlocks,
           body' = [body EXCEPT ![current][wofs] = e]
    PROVE  EntriesInside'
<1>1. body \in [Sectors -> [Offsets -> Entries \cup {Erased}]] /\ current \in Sectors
  BY DEF IInv, TypeOK
<1>2. \A t \in Sectors, o \in Offsets :
         body'[t][o] = IF t = current /\ o = wofs THEN e ELSE body[t][o]
  BY <1>1
<1> QED BY <1>2, SMT DEF EntriesInside

\* Programming a header changes nothing else.
LEMMA MarkIs ==
    ASSUME IInv, NEW s \in Sectors, NEW st, Mark(s, st)
    PROVE  body' = body /\ hdr'[s] = st /\ hdr'[Other(s)] = hdr[Other(s)]
BY SectorFacts DEF Mark, IInv, TypeOK
=============================================================================
