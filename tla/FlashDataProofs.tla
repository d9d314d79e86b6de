-------------------------- MODULE FlashDataProofs ---------------------------
(***************************************************************************)
(* Proofs about FlashStorage, continued from FlashStorageProofs: every     *)
(* step keeps DInv, so that what was written is what init() loads, and,    *)
(* until the hardware refuses a block write, FInv, so that neither write() *)
(* nor init() ever run out of space.                                       *)
(***************************************************************************)
EXTENDS FlashStorageProofs, FiniteSetTheorems

\* A leaf is proved by Zenon unless it names SMT, which does the arithmetic.
USE Zenon

\* write(): what a block appended to a log does to what init() loads.

\* What programming a block at write_offset does to what init() would load.
LEMMA AppendData ==
    ASSUME IInv, IInv', pc \in {"program", "validate"}, Appending, hdr' = hdr, NEW e \in Entries,
           body' = [body EXCEPT ![current][wofs] = e]
    PROVE  /\ Pair(hdr, body', current)
           /\ Appended(body[current], wofs, e, body'[current])
           /\ Newest(hdr, body', current).mem = Apply(e, Newest(hdr, body, current).mem)
           /\ Replay(body'[current], Zeros).mem = Apply(e, Replay(body[current], Zeros).mem)
<1>1. body[current] \in Logs /\ body[Other(current)] \in Logs
  BY SectorFacts, LogsType DEF AllLogs, IInv, TypeOK
<1>2. wofs \in Offsets /\ EntryEnd(wofs, e) <= SectorSize
  <2>1. wofs \in Offsets /\ EntryEnd(wofs, e) \in 0 .. SectorSize BY ProgramKeepsLog
  <2> QED BY <2>1, SMT
<1>3. wofs \in SectorHdr .. SectorSize /\ wofs < SectorSize - BlockHdr
  <2>1. PICK k \in Nat \ {0} : k = e.n * BlockSize BY SizeFacts DEF Entries
  <2> QED BY <1>2, <2>1, OffsetFacts, SMT DEF Appending, Tail, EntryEnd
<1>4. Appended(body[current], wofs, e, body'[current])
  <2>1. Appended(body[current], wofs, e, [body[current] EXCEPT ![wofs] = e])
    BY <1>1, <1>2, <1>3, AppendLog DEF Appending, Tail
  <2> QED BY <2>1, SectorFacts DEF IInv, TypeOK
<1>5. hdr[current] = "IN_USE" /\ Pair(hdr, body', current) BY SMT DEF Appending, Pair
<1>6. PICK m \in Memories : m = Load(hdr[Other(current)], body[Other(current)], Zeros).mem
  BY <1>1, ZerosType, LoadType
<1>7. /\ Newest(hdr, body, current) = Replay(body[current], m)
      /\ Newest(hdr, body', current) = Replay(body'[current], m)
  BY <1>5, <1>6, SectorFacts DEF Newest, Load, IInv, TypeOK
<1> QED BY <1>4, <1>5, <1>6, <1>7, ZerosType DEF Appended

\* A block that is not complete is not loaded.
LEMMA WritingData ==
    ASSUME IInv, IInv', pc = "program", Appending, hdr' = hdr,
           NEW e \in Entries, e.state = "WRITING",
           body' = [body EXCEPT ![current][wofs] = e],
           current' = current, wofs' = wofs, recent' = recent, mem' = mem
    PROVE  /\ Appending'
           /\ body'[current][wofs] = e
           /\ Replay(body'[current], Zeros).mem = Replay(body[current], Zeros).mem
<1>1. /\ Pair(hdr, body', current)
      /\ Appended(body[current], wofs, e, body'[current])
      /\ Newest(hdr, body', current).mem = Apply(e, Newest(hdr, body, current).mem)
      /\ Replay(body'[current], Zeros).mem = Apply(e, Replay(body[current], Zeros).mem)
  BY AppendData
<1>2. body'[current][wofs] = e BY ProgramKeepsLog
<1>3. Holds(hdr, body', current, recent) BY <1>1 DEF Holds, Appending, Apply
<1> QED BY <1>1, <1>2, <1>3 DEF Apply, Appending, MemRecent, Appended, Tail

\* A block that is complete is what init() loads for its part of the storage.
LEMMA CommitData ==
    ASSUME IInv, IInv', pc \in {"program", "validate"}, Appending,
           NEW e \in Entries, e.state = "VALID", Commit(e)
    PROVE  /\ Appending'
           /\ \A p \in Nat : Copied(body[current], p, recent) /\ p = e.first =>
                 Copied(body'[current], p + e.n, recent')
           /\ \A p \in Nat : Copied(body[current], p, recent) =>
                 Copied(body'[current], p, recent')
<1>1. /\ body' = [body EXCEPT ![current][wofs] = e]
      /\ wofs' = EntryEnd(wofs, e) /\ current' = current /\ hdr' = hdr /\ mem' = mem
      /\ recent' = [b \in Blocks |-> IF InEntry(e, b) THEN {e.data[b], mem[b]} ELSE recent[b]]
  BY DEF Commit, envVars
<1>2. /\ Pair(hdr, body', current)
      /\ Appended(body[current], wofs, e, body'[current])
      /\ Newest(hdr, body', current).mem = Apply(e, Newest(hdr, body, current).mem)
      /\ Replay(body'[current], Zeros).mem = Apply(e, Replay(body[current], Zeros).mem)
  BY <1>1, AppendData
<1>3. Holds(hdr, body', current, recent')
  <2> SUFFICES ASSUME NEW b \in Blocks PROVE Newest(hdr, body', current).mem[b] \in recent'[b]
    BY DEF Holds
  <2>1. PICK m : m = Newest(hdr, body, current).mem OBVIOUS
  <2> QED BY <1>1, <1>2, <2>1 DEF Holds, Appending, Apply
<1>4. Tail(body'[current], EntryEnd(wofs, e))
  <2>1. PICK w \in SectorHdr .. SectorSize : w = EntryEnd(wofs, e) BY <1>2 DEF Appended
  <2> QED BY <1>2, <2>1, SMT DEF Tail, BlankFrom, BlankBehind, Offsets, Appended
<1>5. Appending' BY <1>1, <1>2, <1>3, <1>4 DEF Appending, MemRecent
<1>6. ASSUME NEW b \in Blocks, Replay(body[current], Zeros).mem[b] \in recent[b] \/ InEntry(e, b)
      PROVE  Replay(body'[current], Zeros).mem[b] \in recent'[b]
  <2>1. PICK m : m = Replay(body[current], Zeros).mem OBVIOUS
  <2> QED BY <1>1, <1>2, <1>6, <2>1, SMT DEF Apply
<1>7. ASSUME NEW p \in Nat, Copied(body[current], p, recent), p = e.first
       PROVE  Copied(body'[current], p + e.n, recent')
  <2> SUFFICES ASSUME NEW b \in Blocks, b < p + e.n
               PROVE  Replay(body'[current], Zeros).mem[b] \in recent'[b] BY DEF Copied
  <2> QED BY <1>6, <1>7, SMT DEF Blocks, Entries, Copied, InEntry
<1> QED BY <1>5, <1>6, <1>7 DEF Copied

\* There are finitely many chunks to write out.
LEMMA ToWriteCard ==
    ASSUME NEW m, NEW p
    PROVE  IsFiniteSet(ToWrite(m, p)) /\ Cardinality(ToWrite(m, p)) \in Nat
<1>1. IsFiniteSet(Blocks) BY FS_Interval, ChunkSizes, SMT DEF Blocks
<1> QED BY <1>1, FS_CardinalityType, FS_Subset DEF ToWrite, ChunkStarts

\* If write_all() has room for all that is to be written, it has room for a chunk.
LEMMA OutRoomIsSpace ==
    ASSUME NEW w \in 0 .. SectorSize, NEW m, NEW p \in ChunkStarts, ~AllZero(m, p),
           OutRoom(w, m, p)
    PROVE  SectorSize - w >= CopyLen
<1>1. PICK c \in Nat : c = Cardinality(ToWrite(m, p)) BY ToWriteCard
<1>2. p \in ToWrite(m, p) BY SMT DEF ToWrite, ChunkStarts, Blocks
<1>3. PICK d \in Nat : c = 1 + d BY <1>1, <1>2, ToWriteCard, FS_EmptySet, SMT
<1> QED BY <1>1, <1>3, OffsetFacts, ChunkSizes, SMT DEF OutRoom

\* Writing one chunk keeps room for the others.
LEMMA OutRoomNext ==
    ASSUME NEW w \in 0 .. SectorSize, NEW m, NEW p \in ChunkStarts, ~AllZero(m, p),
           OutRoom(w, m, p), NEW q \in Nat, q > p
    PROVE  OutRoom(w + CopyLen, m, q)
<1>1. PICK c \in Nat : c = Cardinality(ToWrite(m, p)) BY ToWriteCard
<1>2. PICK c2 \in Nat : c2 = Cardinality(ToWrite(m, q)) BY ToWriteCard
<1>3. IsFiniteSet(ToWrite(m, p)) BY ToWriteCard
<1>4. IsFiniteSet(ToWrite(m, p) \ {p}) /\ Cardinality(ToWrite(m, p) \ {p}) = c - 1
  BY <1>1, <1>3, FS_RemoveElement, SMT DEF ToWrite, ChunkStarts, Blocks
<1>5. ToWrite(m, q) \in SUBSET (ToWrite(m, p) \ {p})
  <2> SUFFICES ASSUME NEW r \in ToWrite(m, q) PROVE r \in ToWrite(m, p) /\ r # p OBVIOUS
  <2> QED BY SMT DEF ToWrite, ChunkStarts, Blocks
<1>6. PICK d \in Nat : c = c2 + 1 + d
  <2>1. c - 1 - c2 \in Nat /\ c = c2 + 1 + (c - 1 - c2) BY <1>2, <1>4, <1>5, FS_Subset, SMT
  <2> QED BY <2>1
<1>7. c * CopyLen = c2 * CopyLen + CopyLen + d * CopyLen /\ d * CopyLen \in Nat /\ c2 * CopyLen \in Nat
  BY <1>6, ChunkSizes, SMT
<1> QED BY <1>1, <1>2, <1>7, OffsetFacts, ChunkSizes, SMT DEF OutRoom

\* What WriteOutFits() promises is room for the chunks from any position on.
LEMMA OutRoomStart ==
    ASSUME NEW w \in 0 .. SectorSize, NEW m, WriteOutFits(w, m), NEW q \in Nat
    PROVE  OutRoom(w, m, q)
<1> DEFINE A == {p \in ChunkStarts : ~AllZero(m, p)}
<1>1. PICK c2 \in Nat : c2 = Cardinality(ToWrite(m, q)) BY ToWriteCard
<1>2. ToWrite(m, 0) = A BY SMT DEF ToWrite, ChunkStarts, Blocks
<1>3. IsFiniteSet(A) /\ Cardinality(A) \in Nat
  <2> HIDE DEF A
  <2> QED BY <1>2, ToWriteCard
<1>4. ToWrite(m, q) \in SUBSET A BY DEF ToWrite
<1>5. PICK c \in Nat : c = Cardinality(A) BY <1>3
<1>6. c2 <= c
  <2> HIDE DEF A
  <2> QED BY <1>1, <1>3, <1>4, <1>5, FS_Subset
<1>7. w + c2 * CopyLen <= SectorSize
  <2>1. CASE c = 0 BY <1>6, <2>1, ChunkSizes, SMT
  <2>2. CASE w + c * CopyLen <= SectorSize
    <3>1. PICK d \in Nat : c = c2 + d BY <1>6, SMT
    <3> QED BY <2>2, <3>1, OffsetFacts, ChunkSizes, SMT
  <2> QED BY <1>5, <2>1, <2>2 DEF WriteOutFits, ChunksToWrite, CopyLen
<1> QED BY <1>1, <1>7 DEF OutRoom

\* The position of the nested write_all() that is about to write.
LEMMA CopyingAt ==
    ASSUME IInv, pc \in LoopPCs, nested, Copying
    PROVE  inner \in ChunkStarts /\ Pos = inner /\ Len = ChunkLen(inner)
<1>1. inner # NumBlocks BY ChunkSizes, SMT DEF IInv, CtlOK, LoopsInside, LoopPCs, Copying
<1> QED BY <1>1, ChunkSizes DEF Stops, Pos, Len, Copying

\* write_all() starts at the first chunk.
LEMMA ZeroStop == 0 \in Stops
BY ChunkStart, ChunkSizes, SMT DEF Stops, Blocks

\* write(): the steps before something is programmed.
LEMMA CheckData ==
    ASSUME EvenSize, IInv, IInv', DInv,
           WriteError \/ EnoughSpace \/ SwitchSectors \/ SwitchRefused \/ SwitchFullSector
    PROVE  DInv'
<1>1. /\ pc = "check" /\ hdr' = hdr /\ body' = body /\ current' = current /\ wofs' = wofs
      /\ recent' = recent /\ intact' = intact /\ mem' = mem
  BY DEF WriteError, EnoughSpace, SwitchSectors, SwitchRefused, SwitchFullSector, flashVars,
     ramVars, histVars, envVars
<1>2. EntriesInside' BY <1>1, InsideSame DEF DInv
<1>3. intact => RunOK BY <1>1 DEF DInv, RunPCs, LoopPCs
<1>4. intact => Appending /\ Appending' BY <1>1, <1>3, AppendingSame DEF RunOK
<1>5. wofs \in 0 .. SectorSize /\ reserved \in {0, ReserveSize} /\ current \in Sectors
  BY DEF IInv, TypeOK
<1>6. CASE WriteError \/ SwitchRefused
  <2>1. pc' \in RunPCs BY <1>6 DEF RunPCs, ReturnFalse, Done, WriteError, SwitchRefused
  <2> QED
    BY <1>1, <1>2, <1>4, <1>6, <2>1, RunQuiet, ToRun DEF ReturnFalse, Done, WriteError,
       SwitchRefused
<1>7. CASE EnoughSpace
  <2>1. /\ pc' = "program" /\ nested' = nested /\ op' = op /\ inner' = inner /\ base' = base
        /\ reserved' = reserved /\ inSwitch' = inSwitch
    BY <1>7 DEF EnoughSpace, Goto, ramVars
  <2>2. ASSUME intact PROVE RunOK'
    BY <1>1, <1>3, <1>4, <2>1, <2>2 DEF RunOK, Copying, WritingOut, LoopPCs
  <2> QED BY <1>1, <1>2, <2>1, <2>2, ToRun DEF RunPCs, LoopPCs
<1>8. CASE SwitchSectors
  <2>1. /\ pc' = "markFull" /\ nested' = nested /\ op' = op
        /\ ~SpaceOk /\ reserved = 0 /\ hdr[Other(current)] = "AVAILABLE"
    BY <1>8 DEF SwitchSectors, Goto, CanSwitch
  <2>2. ASSUME intact PROVE RunOK'
    <3>1. ASSUME nested PROVE FALSE
      <4>1. inner \in ChunkStarts BY <1>1, <1>3, <2>2, <3>1, CopyingAt DEF LoopPCs, RunOK
      <4>2. Room(wofs, inner) BY <1>3, <2>1, <2>2, <3>1 DEF Copying, RunOK
      <4> QED
        BY <1>5, <2>1, <4>1, <4>2, ChunkSizes, RoomIsSpace, SMT DEF SpaceOk, SpaceRequired,
           CopyLen
    <3> QED BY <1>1, <1>3, <1>4, <2>1, <2>2, <3>1 DEF RunOK, LoopPCs, WritingOut
  <2> QED BY <1>1, <1>2, <2>1, <2>2, ToRun DEF RunPCs
<1>9. CASE SwitchFullSector
  <2>1. /\ ~SpaceOk /\ ~CanSwitch /\ InnerLoop(0) /\ inSwitch' = TRUE /\ reserved' = 0
    BY <1>9 DEF SwitchFullSector
  <2>2. PICK q \in NextChunk(mem, 0) :
           /\ inner' = q /\ nested' = TRUE
           /\ pc' = IF q # NumBlocks THEN "check" ELSE "switchErase"
           /\ op' = op
    BY <2>1 DEF InnerLoop
  <2>3. ASSUME intact PROVE RunOK'
    <3>1. op # "init"
      <4> SUFFICES ASSUME op = "init" PROVE FALSE OBVIOUS
      <4>1. WritingOut BY <1>1, <1>3, <2>3 DEF RunOK, LoopPCs
      <4> QED
        BY <1>5, <2>1, <4>1, ChunkSizes, OutRoomIsSpace, SMT DEF SpaceOk, SpaceRequired, CopyLen,
           WritingOut
    <3>2. q \in Stops BY SkippedZero, ZeroStop
    <3>3. Copied(body[current], q, recent)
      <4>1. Copied(body[current], 0, recent) BY SMT DEF Copied, Blocks
      <4>2. hdr[current] = "IN_USE" /\ Holds(hdr, body, current, recent)
            /\ \A b \in Blocks : mem[b] \in recent[b]
        BY <1>4, <2>3 DEF Appending, Pair, MemRecent
      <4>3. AllLogs(body) BY LogsType
      <4> QED BY <1>5, <4>1, <4>2, <4>3, CopiedOn, ZeroStop
    <3>4. hdr[Other(current)] = "AVAILABLE" => Room(wofs, q)
      <4> SUFFICES ASSUME hdr[Other(current)] = "AVAILABLE" PROVE Room(wofs, q) OBVIOUS
      <4> QED BY <1>5, <2>1, <3>2, ReserveIsRoom DEF IInv, CanSwitch
    <3>5. Copying' BY <1>1, <2>1, <2>2, <3>1, <3>2, <3>3, <3>4 DEF Copying
    <3> QED BY <1>4, <2>2, <2>3, <3>1, <3>5 DEF RunOK
  <2> QED BY <1>1, <1>2, <2>2, <2>3, ToRun DEF RunPCs, LoopPCs
<1> QED BY <1>6, <1>7, <1>8, <1>9

\* The write loop goes on behind a block that is complete.
LEMMA CommitRun ==
    ASSUME EvenSize, IInv, IInv', RunOK, pc \in {"program", "validate"},
           NEW e \in Entries, e.state = "VALID", e.first = Pos, e.n = Len, Commit(e)
    PROVE  RunOK'
<1>0. /\ wofs' = EntryEnd(wofs, e) /\ current' = current /\ hdr' = hdr /\ mem' = mem
      /\ reserved' = reserved /\ Advance /\ pc \in LoopPCs
  BY DEF Commit, envVars, LoopPCs
<1>1. /\ Appending'
      /\ \A p \in Nat : Copied(body[current], p, recent) /\ p = e.first =>
            Copied(body'[current], p + e.n, recent')
  BY CommitData DEF RunOK
<1>2. wofs \in 0 .. SectorSize /\ current \in Sectors /\ nested \in BOOLEAN
  BY DEF IInv, TypeOK
<1>3. AllLogs(body') BY LogsTypeNext
<1>4. /\ hdr[current] = "IN_USE" /\ Holds(hdr, body', current, recent')
      /\ \A b \in Blocks : mem[b] \in recent'[b]
  BY <1>0, <1>1 DEF Appending, Pair, MemRecent
\* A whole chunk was written.
<1>5. ASSUME Pos \in ChunkStarts, Len = ChunkLen(Pos), Copied(body[current], Pos, recent)
      PROVE  /\ Pos + Len \in Stops /\ Pos + Len = Pos + MaxBlocks /\ Pos \in Nat
             /\ wofs' = wofs + CopyLen
             /\ \A q \in NextChunk(mem, Pos + Len) : Copied(body'[current], q, recent')
  <2>1. Len = MaxBlocks /\ Pos + Len \in Stops BY <1>5, NextStop
  <2>2. Pos \in Nat BY <1>5, SMT DEF ChunkStarts, Blocks
  <2>3. Copied(body'[current], Pos + Len, recent') BY <1>1, <1>5, <2>2
  <2>4. wofs' = wofs + CopyLen
    <3>1. wofs' = wofs + BlockHdr + MaxBlocks * BlockSize BY <1>0, <2>1 DEF EntryEnd
    <3> QED BY <1>2, <3>1, ChunkSizes, OffsetFacts, SMT DEF CopyLen
  <2>5. \A q \in NextChunk(mem, Pos + Len) : Copied(body'[current], q, recent')
    BY <1>2, <1>3, <1>4, <2>1, <2>3, CopiedOn
  <2> QED BY <2>1, <2>2, <2>4, <2>5
<1>6. CASE nested
  <2>1. InnerLoop(Pos + Len) /\ inSwitch' = inSwitch BY <1>0, <1>6 DEF Advance
  <2>2. PICK q \in NextChunk(mem, Pos + Len) :
           /\ inner' = q /\ nested' = TRUE
           /\ pc' = IF q # NumBlocks THEN "check" ELSE "switchErase"
           /\ op' = op
    BY <2>1 DEF InnerLoop
  <2>3. Copying BY <1>6 DEF RunOK
  <2>4. inner \in ChunkStarts /\ Pos = inner /\ Len = ChunkLen(inner)
    BY <1>0, <1>6, <2>3, CopyingAt
  <2>5. Copied(body[current], Pos, recent) BY <2>3, <2>4 DEF Copying
  <2>6. /\ Pos + Len \in Stops /\ Pos + Len = Pos + MaxBlocks /\ Pos \in Nat
        /\ wofs' = wofs + CopyLen /\ Copied(body'[current], q, recent')
    BY <1>5, <2>4, <2>5
  <2>7. q \in Stops /\ q >= Pos + Len BY <2>6, SkippedZero
  <2>8. hdr[Other(current)] = "AVAILABLE" => Room(wofs', q)
    <3> SUFFICES ASSUME hdr[Other(current)] = "AVAILABLE" PROVE Room(wofs', q) OBVIOUS
    <3>1. Room(wofs, inner) BY <2>3 DEF Copying
    <3>2. q >= inner + MaxBlocks BY <2>4, <2>6, <2>7
    <3>3. Room(wofs + CopyLen, q) BY <1>2, <2>4, <2>7, <3>1, <3>2, RoomNext
    <3> QED BY <2>6, <3>3
  <2>9. Copying' BY <1>0, <2>1, <2>2, <2>3, <2>6, <2>7, <2>8 DEF Copying
  <2>10. pc' # "validate" /\ pc' # "markFull" /\ pc' # "initErase" BY <2>2
  <2>11. op' # "init" BY <2>2, <2>3 DEF Copying
  <2> QED BY <1>1, <2>2, <2>9, <2>10, <2>11 DEF RunOK, LoopPCs
<1>7. CASE ~nested /\ op # "write"
  <2>1. BaseLoop(Pos + Len) BY <1>0, <1>7 DEF Advance
  <2>2. PICK q \in NextChunk(mem, Pos + Len) :
           IF q # NumBlocks
           THEN /\ base' = [pos |-> q, len |-> 0] /\ pc' = "check"
                /\ UNCHANGED <<op, nested, inner, inSwitch>>
           ELSE IF op = "init" THEN Goto("initErase") /\ UNCHANGED inSwitch
           ELSE ReturnFalse
    BY <2>1 DEF BaseLoop
  <2>3. CASE op = "init"
    <3>1. WritingOut BY <1>0, <2>3 DEF RunOK
    <3>2. Pos = base.pos /\ Len = ChunkLen(Pos) /\ base.pos \in ChunkStarts
      BY <1>7, <3>1 DEF Pos, Len, WritingOut
    <3>3. Copied(body[current], Pos, recent) BY <3>1, <3>2 DEF WritingOut
    <3>4. /\ Pos + Len \in Stops /\ Pos + Len = Pos + MaxBlocks /\ Pos \in Nat
          /\ wofs' = wofs + CopyLen /\ Copied(body'[current], q, recent')
      BY <1>5, <3>2, <3>3
    <3>5. /\ q \in Stops /\ q >= Pos + Len
          /\ q # NumBlocks => q \in ChunkStarts /\ ~AllZero(mem, q)
      BY <3>4, SkippedZero
    <3>6. CASE q # NumBlocks
      <4>1. /\ base'.pos = q /\ pc' = "check" /\ op' = op /\ nested' = nested
        BY <2>2, <3>6, SMT
      <4>2. OutRoom(wofs', mem, q)
        <5>1. OutRoom(wofs, mem, base.pos) /\ ~AllZero(mem, base.pos) BY <3>1 DEF WritingOut
        <5>2. q \in Nat BY <3>5, <3>6, SMT DEF ChunkStarts, Blocks
        <5>3. q > base.pos
          <6>1. MaxBlocks \in Nat \ {0} BY ChunkSizes
          <6> QED BY <3>2, <3>4, <3>5, <5>2, <6>1, SMT
        <5>4. OutRoom(wofs + CopyLen, mem, q) BY <1>2, <3>2, <5>1, <5>2, <5>3, OutRoomNext
        <5> QED BY <3>4, <5>4
      <4>3. WritingOut'
        BY <1>0, <1>7, <3>1, <3>4, <3>5, <3>6, <4>1, <4>2 DEF WritingOut
      <4> QED BY <1>1, <1>7, <4>1, <4>3 DEF RunOK
    <3>7. CASE q = NumBlocks
      <4>1. pc' = "initErase" /\ nested' = nested BY <2>2, <2>3, <3>7 DEF Goto
      <4>2. Copied(body'[current'], NumBlocks, recent') BY <1>0, <3>4, <3>7
      <4> QED BY <1>1, <1>7, <4>1, <4>2 DEF RunOK, LoopPCs
    <3> QED BY <3>6, <3>7
  <2>4. CASE op # "init" /\ q # NumBlocks
    <3>1. pc' = "check" /\ op' = op /\ nested' = nested BY <2>2, <2>4
    <3> QED BY <1>1, <1>7, <2>4, <3>1, RunPlain
  <2>5. CASE op # "init" /\ q = NumBlocks
    <3>1. ReturnFalse BY <2>2, <2>5
    <3>2. pc' \in {"idle", "erase0"} /\ ~nested' BY <3>1 DEF ReturnFalse, Done
    <3> QED BY <1>1, <3>2, RunQuiet
  <2> QED BY <2>3, <2>4, <2>5
<1>8. CASE ~nested /\ op = "write"
  <2>1. CASE base.len > Len
    <3>1. pc' = "check" /\ op' = op /\ nested' = nested BY <1>0, <1>8, <2>1 DEF Advance
    <3> QED BY <1>1, <1>8, <3>1, RunPlain
  <2>2. CASE ~(base.len > Len)
    <3>1. Done BY <1>0, <1>8, <2>2 DEF Advance
    <3>2. pc' = "idle" /\ ~nested' BY <3>1 DEF Done
    <3> QED BY <1>1, <3>2, RunQuiet
  <2> QED BY <2>1, <2>2
<1> QED BY <1>6, <1>7, <1>8

\* What write() programs is inside the storage.
LEMMA NewEntryInside ==
    ASSUME IInv, pc \in {"program", "validate"}, NEW st \in {"WRITING", "VALID"}
    PROVE  /\ NewEntry(st) \in Entries /\ NewEntry(st).state = st
           /\ NewEntry(st).first = Pos /\ NewEntry(st).n = Len
           /\ NewEntry(st).first + NewEntry(st).n <= NumBlocks
           /\ wofs \in Offsets
BY NewEntryType, WriteOffsetInside, PosLen DEF NewEntry

\* write(): programming a block.
LEMMA ProgramData ==
    ASSUME EvenSize, IInv, IInv', DInv, ProgramWriting \/ ProgramValid \/ ProgramWord
    PROVE  DInv'
<1>1. pc \in {"program", "validate"} /\ pc \in RunPCs
  BY DEF ProgramWriting, ProgramValid, ProgramWord, RunPCs, LoopPCs
<1>2. EntriesInside /\ (intact => RunOK) BY <1>1 DEF DInv
<1>3. CASE ProgramWriting
  <2>1. /\ pc = "program" /\ body' = [body EXCEPT ![current][wofs] = NewEntry("WRITING")]
        /\ pc' = "validate" /\ op' = op /\ nested' = nested /\ base' = base /\ inner' = inner
        /\ hdr' = hdr /\ current' = current /\ wofs' = wofs /\ reserved' = reserved
        /\ inSwitch' = inSwitch /\ recent' = recent /\ intact' = intact /\ mem' = mem
    BY <1>3 DEF ProgramWriting, Goto, ramVars, histVars, envVars
  <2> DEFINE e == NewEntry("WRITING")
  <2>2. /\ e \in Entries /\ e.state = "WRITING" /\ e.first = Pos /\ e.n = Len
        /\ e.first + e.n <= NumBlocks /\ wofs \in Offsets
    BY <1>1, NewEntryInside
  <2> HIDE DEF e
  <2>3. body' = [body EXCEPT ![current][wofs] = e] BY <2>1 DEF e
  <2>4. EntriesInside' BY <1>2, <2>2, <2>3, InsideProgram
  <2>5. ASSUME intact PROVE RunOK'
    <3>1. RunOK /\ Appending BY <1>2, <2>5 DEF RunOK
    <3>2. /\ Appending' /\ body'[current][wofs] = e
          /\ Replay(body'[current], Zeros).mem = Replay(body[current], Zeros).mem
      BY <2>1, <2>2, <2>3, <3>1, WritingData
    <3>3. op = "init" => WritingOut' BY <2>1, <3>1, <3>2 DEF RunOK, WritingOut, LoopPCs, Copied
    <3> QED BY <2>1, <2>2, <3>1, <3>2, <3>3 DEF RunOK, Pos, Len, Copying, Copied
  <2> QED BY <2>1, <2>4, <2>5, ToRun DEF RunPCs, LoopPCs
<1>4. ASSUME NEW e \in Entries, e.state = "VALID", Commit(e), e.first + e.n <= NumBlocks,
             intact => e.first = Pos /\ e.n = Len
      PROVE  DInv'
  <2>1. EntriesInside' BY <1>1, <1>2, <1>4, InsideProgram, WriteOffsetInside DEF Commit
  <2>2. pc' \in RunPCs BY <1>1, <1>4, AdvanceCtl DEF RunPCs, LoopPCs, Commit
  <2> QED BY <1>1, <1>2, <1>4, <2>1, <2>2, ToRun, CommitRun DEF Commit
<1>5. CASE ProgramValid
  <2> DEFINE e == [body[current][wofs] EXCEPT !.state = "VALID"]
  <2>1. pc = "validate" /\ Commit(e) BY <1>5 DEF ProgramValid
  <2>2. body[current][wofs] \in Entries /\ current \in Sectors /\ wofs \in Offsets
    BY <2>1, WriteOffsetInside, SMT DEF IInv, TypeOK
  <2>3. /\ e \in Entries /\ e.state = "VALID"
        /\ e.first = body[current][wofs].first /\ e.n = body[current][wofs].n
    BY <2>2 DEF Entries
  <2>4. e.first + e.n <= NumBlocks BY <1>2, <2>1, <2>2, SMT DEF EntriesInside, IInv
  <2> HIDE DEF e
  <2> QED BY <1>2, <1>4, <2>1, <2>3, <2>4 DEF RunOK
<1>6. CASE ProgramWord
  <2> DEFINE e == NewEntry("VALID")
  <2> HIDE DEF e
  <2> QED BY <1>1, <1>4, <1>6, NewEntryInside DEF e, ProgramWord
<1> QED BY <1>3, <1>5, <1>6

\* write(): failing to program a block.
LEMMA FailData ==
    ASSUME EvenSize, IInv, IInv', DInv, Unprogrammable \/ WriteFault
    PROVE  DInv'
<1>1. pc \in {"program", "validate"} /\ pc \in RunPCs /\ FailedWrite
  BY DEF Unprogrammable, WriteFault, RunPCs, LoopPCs
<1>2. EntriesInside /\ (intact => Appending) BY <1>1 DEF DInv, RunOK
<1>3. /\ hdr' = hdr /\ current' = current /\ wofs' = wofs /\ recent' = recent
      /\ intact' = intact /\ mem' = mem
  BY <1>1 DEF FailedWrite, histVars
<1>4. pc' \in {"idle", "erase0"} /\ ~nested' BY <1>1 DEF FailedWrite, ReturnFalse, Done
<1>5. EntriesInside' /\ (intact => Appending')
  <2>1. CASE pc = "program" /\ body' = [body EXCEPT ![current][wofs] = NewEntry("WRITING")]
    <3> DEFINE e == NewEntry("WRITING")
    <3>1. /\ e \in Entries /\ e.state = "WRITING"
          /\ e.first + e.n <= NumBlocks /\ wofs \in Offsets
      BY <1>1, NewEntryInside
    <3> HIDE DEF e
    <3>2. body' = [body EXCEPT ![current][wofs] = e] BY <2>1 DEF e
    <3>3. intact => Appending' BY <1>2, <1>3, <2>1, <3>1, <3>2, WritingData
    <3> QED BY <1>2, <3>1, <3>2, <3>3, InsideProgram
  <2> QED BY <1>2, <1>3, <2>1, InsideSame, AppendingSame DEF Unprogrammable, WriteFault
<1> QED BY <1>3, <1>4, <1>5, RunQuiet, ToRun DEF RunPCs
-----------------------------------------------------------------------------
\* switch_sectors(), protected_switch_full_sector() and erase_all().

\* Erasing the other sector when everything was copied, or nothing is in it.
LEMMA OnlyOne ==
    ASSUME NEW H, NEW B, AllLogs(B), NEW i \in Sectors, H[i] \in {"IN_USE", "FULL"},
           H[Other(i)] \notin {"IN_USE", "FULL"}, NEW R, Copied(B[i], NumBlocks, R)
    PROVE  Holds(H, B, i, R)
BY NewestAlone, ChunkSizes, SMT DEF Holds, Copied, Blocks

\* And the other way round.
LEMMA OneIsCopied ==
    ASSUME NEW H, NEW B, AllLogs(B), NEW i \in Sectors, H[i] \in {"IN_USE", "FULL"},
           H[Other(i)] \notin {"IN_USE", "FULL"}, NEW R, Holds(H, B, i, R)
    PROVE  Copied(B[i], NumBlocks, R)
BY NewestAlone DEF Holds, Copied

\* write() appends to a blank sector behind its header.
LEMMA BlankTail == Tail(BlankBody, SectorHdr)
BY BlankLog, OffsetFacts DEF Tail, BlankBehind, BlankBody

\* switch_sectors().
LEMMA SwitchData ==
    ASSUME EvenSize, IInv, IInv', DInv, MarkFull \/ MarkInUse
    PROVE  DInv'
<1>1. /\ current \in Sectors /\ Other(current) \in Sectors /\ Other(current) # current
      /\ Other(Other(current)) = current /\ AllLogs(body)
  BY LogsType, SectorFacts DEF IInv, TypeOK
<1>2. CASE MarkFull
  <2>1. /\ pc = "markFull" /\ Mark(current, "FULL") /\ pc' = "markInUse" /\ op' = op
        /\ nested' = nested /\ current' = current /\ recent' = recent /\ intact' = intact
        /\ mem' = mem
    BY <1>2 DEF MarkFull, Goto, ramVars, histVars, envVars
  <2>2. body' = body /\ hdr'[current] = "FULL" /\ hdr'[Other(current)] = hdr[Other(current)]
    BY <1>1, <2>1, MarkIs
  <2>3. ASSUME intact PROVE MarkOK'
    <3>1. /\ hdr[Other(current)] = "AVAILABLE" /\ op # "init" /\ ~nested
          /\ Pair(hdr, body, current) /\ Holds(hdr, body, current, recent) /\ MemRecent
      BY <2>1, <2>3 DEF RunOK, Appending, DInv, RunPCs
    <3> QED BY <1>1, <2>1, <2>2, <3>1, NewestAlone, SMT DEF MarkOK, MemRecent, Pair, Holds
  <2> QED BY <2>1, <2>2, <2>3, ToMark, InsideSame DEF DInv
<1>3. CASE MarkInUse
  <2>1. /\ pc = "markInUse" /\ Mark(Other(current), "IN_USE") /\ pc' = "program" /\ op' = op
        /\ nested' = nested /\ current' = Other(current) /\ wofs' = SectorHdr
        /\ recent' = recent /\ intact' = intact /\ mem' = mem
    BY <1>3 DEF MarkInUse, Goto, histVars, envVars
  <2>2. body' = body /\ hdr'[Other(current)] = "IN_USE" /\ hdr'[current] = hdr[current]
    BY <1>1, <2>1, MarkIs
  <2>3. ASSUME intact PROVE RunOK'
    <3>1. /\ hdr[current] = "FULL" /\ hdr[Other(current)] = "AVAILABLE"
          /\ body[Other(current)] = BlankBody
          /\ Holds(hdr, body, current, recent) /\ MemRecent /\ ~nested /\ op # "init"
      BY <2>1, <2>3 DEF MarkOK, DInv
    <3>2. PICK m \in Memories : m = Replay(body[current], Zeros).mem
      BY <1>1, ZerosType, LoadType DEF AllLogs
    <3>3. Load("IN_USE", body[Other(current)], m) = [ofs |-> SectorHdr, mem |-> m]
      BY <1>1, <3>1, LoadNothing DEF AllLogs
    <3>4. Newest(hdr', body, Other(current)).mem = Newest(hdr, body, current).mem
      BY <1>1, <2>2, <3>1, <3>2, <3>3, NewestAlone, SMT DEF Newest, Load
    <3>5. Pair(hdr', body, Other(current)) BY <1>1, <2>2, <3>1 DEF Pair
    <3>6. Tail(body[Other(current)], SectorHdr) BY <3>1, BlankTail
    <3>7. Appending' BY <2>1, <2>2, <3>1, <3>4, <3>5, <3>6 DEF Appending, MemRecent, Holds
    <3> QED BY <2>1, <3>1, <3>7, RunPlain
  <2>4. EntriesInside' BY <2>2, InsideSame DEF DInv
  <2> QED BY <2>1, <2>3, <2>4, ToRun DEF RunPCs, LoopPCs
<1> QED BY <1>2, <1>3

\* The sector that was copied is erased.
LEMMA EraseOtherData ==
    ASSUME EvenSize, IInv, IInv', DInv, SwitchErase \/ InitErase
    PROVE  DInv'
<1>1. /\ current \in Sectors /\ Other(current) \in Sectors /\ Other(current) # current
      /\ Other(Other(current)) = current /\ AllLogs(body')
  BY LogsTypeNext, SectorFacts DEF IInv, TypeOK
<1>2. /\ pc \in {"switchErase", "initErase"} /\ EraseSector(Other(current))
      /\ pc' \in {"switchAvailable", "initAvailable"} /\ op' = op
      /\ pc = "initErase" => pc' = "initAvailable"
      /\ current' = current /\ wofs' = wofs /\ reserved' = reserved
      /\ recent' = recent /\ intact' = intact /\ mem' = mem
  BY DEF SwitchErase, InitErase, Goto, ramVars, histVars, envVars
<1>3. /\ EntriesInside' /\ body'[Other(current)] = BlankBody /\ hdr'[Other(current)] = "BLANK"
      /\ body'[current] = body[current] /\ hdr'[current] = hdr[current]
  BY <1>1, <1>2, InsideErase DEF DInv
<1>4. ASSUME intact PROVE AvailOK'
  <2>1. hdr[current] = "IN_USE" /\ Tail(body[current], wofs) /\ MemRecent
    BY <1>2, <1>4 DEF RunOK, Appending, Pair, DInv, RunPCs
  <2>2. /\ Copied(body[current], NumBlocks, recent)
        /\ pc = "switchErase" => reserved = 0 /\ op # "init"
    BY <1>2, <1>4 DEF RunOK, Copying, DInv, RunPCs
  <2> QED BY <1>1, <1>2, <1>3, <2>1, <2>2, OnlyOne DEF AvailOK, MemRecent
<1> QED BY <1>2, <1>3, <1>4, ToAvail

\* ... and marked AVAILABLE.
LEMMA AvailableData ==
    ASSUME EvenSize, IInv, IInv', DInv, SwitchAvailable \/ InitAvailable
    PROVE  DInv'
<1>1. /\ current \in Sectors /\ Other(current) \in Sectors /\ Other(current) # current
      /\ Other(Other(current)) = current /\ AllLogs(body) /\ AllLogs(body')
  BY LogsType, LogsTypeNext, SectorFacts DEF IInv, TypeOK
<1>2. /\ pc \in {"switchAvailable", "initAvailable"} /\ Mark(Other(current), "AVAILABLE")
      /\ current' = current /\ wofs' = wofs
      /\ recent' = recent /\ intact' = intact /\ mem' = mem
  BY DEF SwitchAvailable, InitAvailable, histVars, envVars
<1>3. body' = body /\ hdr'[Other(current)] = "AVAILABLE" /\ hdr'[current] = hdr[current]
  BY <1>1, <1>2, MarkIs
<1>4. EntriesInside' BY <1>3, InsideSame DEF DInv
<1>5. ASSUME intact PROVE Appending' /\ AvailOK
  <2>1. AvailOK BY <1>2, <1>5 DEF DInv
  <2>2. /\ hdr[current] = "IN_USE" /\ hdr[Other(current)] = "BLANK"
        /\ body[Other(current)] = BlankBody /\ Tail(body[current], wofs)
        /\ Holds(hdr, body, current, recent) /\ MemRecent
    BY <2>1 DEF AvailOK
  <2>3. Copied(body[current], NumBlocks, recent) BY <1>1, <2>2, OneIsCopied
  <2>4. Holds(hdr', body, current, recent) BY <1>1, <1>3, <2>2, <2>3, OnlyOne
  <2>5. Pair(hdr', body, current) BY <1>3, <2>2 DEF Pair
  <2> QED BY <1>2, <1>3, <2>1, <2>2, <2>4, <2>5 DEF Appending, MemRecent
<1>6. CASE SwitchAvailable /\ reserved = 0
  <2>1. pc = "switchAvailable" /\ pc' = "markFull" /\ ~nested' /\ op' = op
    BY <1>6 DEF SwitchAvailable
  <2>2. ASSUME intact PROVE RunOK'
    <3>1. op # "init" BY <1>5, <2>1, <2>2 DEF AvailOK
    <3> QED BY <1>2, <1>3, <1>5, <2>1, <2>2, <3>1 DEF RunOK, LoopPCs
  <2>3. pc' \in RunPCs BY <2>1 DEF RunPCs
  <2> QED BY <1>2, <1>4, <2>2, <2>3, ToRun
<1>7. CASE InitAvailable \/ (SwitchAvailable /\ reserved # 0)
  <2>1. pc' \in {"idle", "erase0"} /\ ~nested'
    BY <1>7 DEF InitAvailable, SwitchAvailable, ReturnFalse, Done
  <2>2. pc' \in RunPCs BY <2>1 DEF RunPCs
  <2> QED BY <1>2, <1>4, <1>5, <2>1, <2>2, RunQuiet, ToRun
<1> QED BY <1>6, <1>7

\* The two sectors.
LEMMA SectorNames == 0 \in Sectors /\ 1 \in Sectors /\ Other(0) = 1 /\ Other(1) = 0
BY SMT DEF Sectors, Other

\* erase_all(), up to its last operation.
LEMMA EraseAllData ==
    ASSUME IInv, IInv', DInv, Erase0 \/ Erase1 \/ Available1 \/ FirstWord0
    PROVE  DInv'
<1>1. EntriesInside BY DEF DInv
<1>2. CASE Erase0 BY <1>1, <1>2, ToErase, SectorNames, InsideErase DEF EraseOK, Erase0, Goto
<1>3. CASE Erase1
  <2>1. /\ pc = "erase1" /\ EraseSector(1) /\ current' = current /\ wofs' = wofs
        /\ pc' = "available1"
    BY <1>3 DEF Erase1, Goto, ramVars
  <2> QED BY <1>1, <2>1, ToErase, SectorNames, InsideErase DEF EraseOK, DInv
<1>4. CASE Available1
  <2>1. /\ pc = "available1" /\ Mark(1, "AVAILABLE") /\ current' = current /\ wofs' = wofs
        /\ pc' = "inUse0"
    BY <1>4 DEF Available1, Goto, ramVars
  <2>2. body' = body /\ hdr'[1] = "AVAILABLE" /\ hdr'[0] = hdr[0] BY <2>1, SectorNames, MarkIs
  <2> QED BY <1>1, <2>1, <2>2, InsideSame, ToErase DEF EraseOK, DInv
<1>5. CASE FirstWord0
  <2>1. /\ pc = "inUse0" /\ Mark(0, "AVAILABLE") /\ current' = current /\ wofs' = wofs
        /\ pc' = "inUse0"
    BY <1>5 DEF FirstWord0, Goto, ramVars
  <2>2. body' = body /\ hdr'[0] = "AVAILABLE" /\ hdr'[1] = hdr[1]
    BY <2>1, SectorNames, MarkIs, SMT
  <2> QED BY <1>1, <2>1, <2>2, InsideSame, ToErase DEF EraseOK, DInv
<1> QED BY <1>2, <1>3, <1>4, <1>5

\* The last operation of erase_all().
LEMMA InUse0Data ==
    ASSUME IInv, IInv', DInv, InUse0
    PROVE  DInv'
<1>1. /\ pc = "inUse0" /\ Mark(0, "IN_USE") /\ current' = current /\ wofs' = wofs /\ mem' = mem
      /\ recent' = [b \in Blocks |-> {Zero, mem[b]}]
  BY DEF InUse0, envVars
<1>2. body' = body /\ hdr'[0] = "IN_USE" /\ hdr'[1] = hdr[1] BY <1>1, SectorNames, MarkIs, SMT
<1>3. EntriesInside' BY <1>2, InsideSame DEF DInv
<1>4. /\ current = 0 /\ wofs = SectorHdr /\ body[0] = BlankBody /\ body[1] = BlankBody
      /\ hdr[1] = "AVAILABLE"
  BY <1>1 DEF EraseOK, DInv
<1>5. Replay(BlankBody, Zeros) = [ofs |-> SectorHdr, mem |-> Zeros]
  BY BlankLog, ZerosType, NothingToLoad
<1>6. \A b \in Blocks : Newest(hdr', body', 0).mem[b] = Zero
  BY <1>2, <1>4, <1>5, SectorNames, LogsTypeNext, NewestAlone, SMT DEF Zeros, AllBlocks
<1>7. Holds(hdr', body', 0, recent') /\ MemRecent' BY <1>1, <1>6 DEF Holds, MemRecent
<1>8. Appending' BY <1>1, <1>2, <1>4, <1>7, BlankTail, SectorNames DEF Appending, Pair
<1>9. CASE op \in ReInit
  <2>1. op # "init" BY <1>9 DEF ReInit
  <2>2. PICK q \in NextChunk(mem, 0) :
           IF q # NumBlocks
           THEN /\ base' = [pos |-> q, len |-> 0] /\ pc' = "check"
                /\ UNCHANGED <<op, nested, inner, inSwitch>>
           ELSE IF op = "init" THEN Goto("initErase") /\ UNCHANGED inSwitch
           ELSE ReturnFalse BY <1>9 DEF BaseLoop, InUse0
  <2>3. CASE q # NumBlocks
    <3>1. pc' = "check" /\ op' = op /\ nested' = nested BY <2>2, <2>3
    <3>2. RunOK' BY <1>1, <1>8, <2>1, <3>1, RunPlain DEF IInv, CtlOK
    <3> QED BY <1>3, <3>1, <3>2, ToRun DEF RunPCs, LoopPCs
  <2>4. CASE q = NumBlocks
    <3>1. RunOK' BY <1>8, <2>1, <2>2, <2>4, RunQuiet DEF ReturnFalse, Done
    <3>2. pc' \in RunPCs BY <2>1, <2>2, <2>4 DEF RunPCs, ReturnFalse, Done
    <3> QED BY <1>3, <3>1, <3>2, ToRun
  <2> QED BY <2>3, <2>4
<1>10. CASE op \notin ReInit
  <2>1. RunOK' BY <1>8, <1>10, RunQuiet DEF Done, InUse0
  <2>2. pc' \in RunPCs BY <1>10 DEF RunPCs, Done, InUse0
  <2> QED BY <1>3, <2>1, <2>2, ToRun
<1> QED BY <1>9, <1>10
-----------------------------------------------------------------------------
\* init().

\* init() reads the headers: both are as they were when the power failed.
LEMMA BootData ==
    ASSUME IInv, IInv', DInv, Boot
    PROVE  DInv'
<1>1. /\ pc = "off" /\ hdr' = hdr /\ body' = body /\ recent' = recent /\ intact' = intact
      /\ mem' = mem
  BY DEF Boot, flashVars, histVars, envVars
<1>2. CASE BadHeaders
  <2>1. ASSUME intact PROVE FALSE
    <3>1. PICK i \in Sectors : Rest(hdr, body, i, recent) BY <1>1, <2>1 DEF DInv
    <3> QED BY <1>2, <3>1, LoadedIs DEF Rest
  <2> QED BY <1>1, <1>2, <2>1, ToRun, InsideSame DEF DInv, RunPCs, Boot
<1>3. CASE ~BadHeaders
  <2>1. /\ pc' = "load1" /\ current' = FirstSector
        /\ wofs' = IF InUse(FirstSector) THEN SectorHdr ELSE wofs
    BY <1>3 DEF Boot
  <2>2. ASSUME intact PROVE \E i \in Sectors : Loading(i)'
    <3>1. PICK i \in Sectors : Rest(hdr, body, i, recent) BY <1>1, <2>2 DEF DInv
    <3>2. FirstSector = Older(hdr, i) BY <3>1, LoadedIs DEF Rest
    <3>3. Within(body[current'], Zeros, SectorHdr, Zeros)
      BY WalkTurns, OffsetFacts, SMT DEF Within
    <3>4. Loading(i)'
      BY <1>1, <2>1, <3>1, <3>2, <3>3 DEF Loading, DInv, InUse, Rest, Pair, Older
    <3> QED BY <3>4
  <2> QED BY <1>1, <2>1, <2>2, ToLoad, InsideSame DEF DInv
<1> QED BY <1>2, <1>3

\* The facts that the loading of a sector is about.
LEMMA LoadingFacts ==
    ASSUME IInv, DInv, NEW i \in Sectors, Loading(i)
    PROVE  /\ AllLogs(body) /\ current \in Sectors /\ Other(current) \in Sectors
           /\ body[i] \in Logs /\ body[Other(i)] \in Logs
           /\ hdr[i] = "IN_USE" /\ hdr[Other(i)] \in {"AVAILABLE", "FULL"}
           /\ \/ current = i /\ Other(current) = Other(i) /\ hdr[Other(i)] = "AVAILABLE"
              \/ current # i /\ current = Other(i) /\ Other(current) = i /\ hdr[Other(i)] = "FULL"
           /\ Replay(body[Other(i)], Zeros).mem \in Memories
<1>1. AllLogs(body) /\ current \in Sectors /\ Other(current) \in Sectors
  BY LogsType, SectorFacts DEF IInv, TypeOK
<1>2. body[i] \in Logs /\ body[Other(i)] \in Logs BY <1>1, SectorFacts DEF AllLogs
<1>3. /\ hdr[i] = "IN_USE" /\ hdr[Other(i)] \in {"AVAILABLE", "FULL"} /\ current = Older(hdr, i)
  BY DEF Loading, Rest, Pair
<1>4. \/ current = i /\ Other(current) = Other(i) /\ hdr[Other(i)] = "AVAILABLE"
      \/ current # i /\ current = Other(i) /\ Other(current) = i /\ hdr[Other(i)] = "FULL"
  BY <1>3, SectorFacts DEF Older
<1>5. Replay(body[Other(i)], Zeros).mem \in Memories BY <1>2, ZerosType, LoadType
<1> QED BY <1>1, <1>2, <1>3, <1>4, <1>5

\* One turn of the loop of load_sector().
LEMMA WithinNext ==
    ASSUME NEW log \in Logs, NEW m \in Memories, NEW o, NEW x, Within(log, m, o, x),
           ~LogEnds(log, o)
    PROVE  /\ o \in Offsets /\ log[o] \in Entries
           /\ Within(log, m, EntryEnd(o, log[o]), Apply(log[o], x))
<1>1. PICK k \in 0 .. SectorSize : Walk(log, m)[k] = [ofs |-> o, mem |-> x] BY DEF Within
<1>2. PICK w : w = Walk(log, m)[k] OBVIOUS
<1>3. w.ofs = o /\ w.mem = x BY <1>1, <1>2, SMT
<1>4. /\ w.ofs \in Offsets /\ log[w.ofs] \in Entries
      /\ LoadStep(log, w) = [ofs |-> EntryEnd(w.ofs, log[w.ofs]), mem |-> Apply(log[w.ofs], w.mem)]
  BY <1>2, <1>3, LoadStepMoves, WalkType DEF Turns
<1>5. Walk(log, m)[k + 1] = LoadStep(log, w)
  <2>1. /\ Walk(log, m)[0] = [ofs |-> SectorHdr, mem |-> m]
        /\ \A j \in 0 .. SectorSize - 1 : Walk(log, m)[j + 1] = LoadStep(log, Walk(log, m)[j])
    BY WalkTurns, SMT
  <2> QED BY <1>2, <1>3, <2>1, OffsetFacts, WalkFinishes, SMT
<1>6. Walk(log, m)[k + 1] = [ofs |-> EntryEnd(o, log[o]), mem |-> Apply(log[o], x)]
  BY <1>3, <1>4, <1>5
<1> QED BY <1>2, <1>3, <1>4, <1>6, OffsetFacts, WalkFinishes, SMT DEF Within

\* The end of the loop of load_sector().
LEMMA WithinEnd ==
    ASSUME NEW log \in Logs, NEW m \in Memories, NEW o, NEW x, Within(log, m, o, x),
           LogEnds(log, o)
    PROVE  /\ Replay(log, m) = [ofs |-> o, mem |-> x]
           /\ Replay(log, Zeros).ofs = o
<1>1. PICK k \in 0 .. SectorSize : Walk(log, m)[k] = [ofs |-> o, mem |-> x] BY DEF Within
<1>2. Replay(log, Zeros).ofs = Replay(log, m).ofs
  BY ZerosType, TwoWalks, OffsetFacts, SMT DEF Replay
<1> QED BY <1>1, <1>2, WalkStays, SMT

\* load_sector() loads a block that is inside the storage.
LEMMA LoadBlockOn ==
    ASSUME EvenSize, IInv, DInv, LoadBlock, intact
    PROVE  pc' = pc /\ \E i \in Sectors : Loading(i)'
<1>1. /\ pc \in {"load1", "load2"} /\ hdr' = hdr /\ body' = body /\ recent' = recent
      /\ intact' = intact /\ current' = current /\ ~ScanDone(LoadingSector, wofs)
  BY DEF LoadBlock, flashVars, histVars
<1>2. PICK e : e = body[LoadingSector][wofs] OBVIOUS
<1>3. PICK i \in Sectors : Loading(i) BY <1>1 DEF DInv
<1>4. /\ AllLogs(body) /\ current \in Sectors /\ Other(current) \in Sectors
      /\ body[i] \in Logs /\ body[Other(i)] \in Logs
      /\ hdr[i] = "IN_USE" /\ hdr[Other(i)] \in {"AVAILABLE", "FULL"}
      /\ \/ current = i /\ Other(current) = Other(i) /\ hdr[Other(i)] = "AVAILABLE"
         \/ current # i /\ current = Other(i) /\ Other(current) = i /\ hdr[Other(i)] = "FULL"
      /\ Replay(body[Other(i)], Zeros).mem \in Memories
  BY <1>3, LoadingFacts
<1>5. ~(pc = "load2" /\ current = i) BY <1>4, <1>1 DEF LoadingSector, InUse, ScanDone
<1>6. body[LoadingSector] \in Logs /\ LoadingSector \in Sectors BY <1>4 DEF LoadingSector
<1>7. PICK m \in Memories :
         /\ Within(body[LoadingSector], m, wofs, mem)
         /\ pc = "load1" => m = Zeros
         /\ pc = "load2" => m = Replay(body[current], Zeros).mem
  <2>1. CASE pc = "load1" BY <1>3, <2>1, ZerosType DEF Loading, LoadingSector
  <2>2. CASE pc = "load2" /\ current # i BY <1>3, <1>4, <2>2 DEF Loading, LoadingSector
  <2> QED BY <1>1, <1>5, <2>1, <2>2
<1>8. /\ wofs \in Offsets /\ e \in Entries
      /\ Within(body[LoadingSector], m, EntryEnd(wofs, e), Apply(e, mem))
  BY <1>6, <1>7, <1>1, <1>2, WithinNext DEF ScanDone
<1>9. ~OutOfRange(e)
  <2>1. e.first + e.n <= NumBlocks
    <3>1. e # Erased BY <1>8, ErasedNotEntry
    <3> QED BY <1>6, <1>8, <1>1, <1>2, <3>1, InsideSame DEF EntriesInside, DInv
  <2>2. PICK x \in Nat : x = e.first + e.n BY <1>8, SMT DEF Entries, Blocks
  <2>3. PICK y \in Nat : NumBlocks = x + y
    <3>1. NumBlocks - x \in Nat /\ NumBlocks = x + (NumBlocks - x) BY <2>1, <2>2, ChunkSizes, SMT
    <3> QED BY <3>1
  <2> QED BY <2>2, <2>3, EvenFacts, ChunkSizes, SMT DEF OutOfRange
<1>10. mem' = Apply(e, mem) /\ wofs' = EntryEnd(wofs, e) /\ pc' = pc
  BY <1>9, <1>2 DEF LoadBlock, Goto
<1>11. Loading(i)'
  <2>1. pc = "load1" => Within(body[current], Zeros, wofs', mem')
    BY <1>7, <1>8, <1>10 DEF LoadingSector
  <2>2. pc = "load2" /\ current # i => Within(body[i], Replay(body[current], Zeros).mem, wofs', mem')
    BY <1>4, <1>7, <1>8, <1>10 DEF LoadingSector
  <2> QED BY <1>3, <1>5, <1>10, <1>1, <2>1, <2>2 DEF Loading
<1> QED BY <1>10, <1>11

\* load_sector() loads a block.
LEMMA LoadBlockData ==
    ASSUME EvenSize, IInv, IInv', DInv, LoadBlock
    PROVE  DInv'
<1>1. /\ pc \in {"load1", "load2"} /\ hdr' = hdr /\ body' = body /\ recent' = recent
      /\ intact' = intact /\ current' = current /\ ~ScanDone(LoadingSector, wofs)
  BY DEF LoadBlock, flashVars, histVars
<1>2. EntriesInside /\ EntriesInside' BY <1>1, InsideSame DEF DInv
<1>3. PICK e : e = body[LoadingSector][wofs] OBVIOUS
<1>4. IF OutOfRange(e) THEN pc' = "erase0"
      ELSE mem' = Apply(e, mem) /\ wofs' = EntryEnd(wofs, e) /\ pc' = pc
  BY <1>3 DEF LoadBlock, Goto
<1>5. ASSUME intact PROVE pc' = pc /\ \E i \in Sectors : Loading(i)' BY <1>5, LoadBlockOn
<1>6. CASE pc' = "erase0"
  <2>1. ~intact BY <1>1, <1>5, <1>6
  <2>2. pc' \in RunPCs BY <1>6 DEF RunPCs
  <2> QED BY <1>1, <1>2, <2>1, <2>2, ToRun
<1>7. CASE pc' = pc BY <1>1, <1>2, <1>5, <1>7, ToLoad
<1> QED BY <1>4, <1>6, <1>7

\* load_sector() is at the end of a log.
LEMMA LoadDoneData ==
    ASSUME EvenSize, IInv, IInv', DInv, LoadDone
    PROVE  DInv'
<1>1. /\ pc \in {"load1", "load2"} /\ hdr' = hdr /\ body' = body /\ recent' = recent
      /\ intact' = intact /\ current' = current /\ mem' = mem /\ ScanDone(LoadingSector, wofs)
      /\ pc = "load2" => pc' = "loaded" /\ wofs' = wofs
      /\ pc = "load1" => pc' = "load2" /\ wofs' = IF InUse(Other(current)) THEN SectorHdr ELSE wofs
  BY DEF LoadDone, Goto, flashVars, histVars, envVars
<1>2. ASSUME intact PROVE \E i \in Sectors : Loading(i)'
  <2>1. PICK i \in Sectors : Loading(i) BY <1>1, <1>2 DEF DInv
  <2>2. /\ AllLogs(body) /\ current \in Sectors /\ Other(current) \in Sectors
        /\ body[i] \in Logs /\ body[Other(i)] \in Logs
        /\ hdr[i] = "IN_USE" /\ hdr[Other(i)] \in {"AVAILABLE", "FULL"}
        /\ \/ current = i /\ Other(current) = Other(i) /\ hdr[Other(i)] = "AVAILABLE"
           \/ current # i /\ current = Other(i) /\ Other(current) = i /\ hdr[Other(i)] = "FULL"
        /\ Replay(body[Other(i)], Zeros).mem \in Memories
    BY <2>1, LoadingFacts
  <2>3. Rest(hdr, body, i, recent) /\ current = Older(hdr, i) BY <2>1 DEF Loading
  <2>4. CASE pc = "load1"
    <3>1. Within(body[current], Zeros, wofs, mem) BY <2>1, <2>4 DEF Loading
    <3>2. Replay(body[current], Zeros) = [ofs |-> wofs, mem |-> mem]
      BY <1>1, <2>2, <2>4, <3>1, ZerosType, WithinEnd DEF ScanDone, LoadingSector, InUse
    <3>3. CASE current = i
      <4>1. wofs = Replay(body[i], Zeros).ofs /\ mem = Replay(body[i], Zeros).mem
        BY <3>2, <3>3, SMT
      <4>2. Loading(i)' BY <1>1, <2>2, <2>3, <2>4, <3>3, <4>1 DEF Loading, InUse
      <4> QED BY <4>2
    <3>4. CASE current # i
      <4>1. Replay(body[current], Zeros).mem = mem BY <3>2, SMT
      <4>2. Within(body[i], mem, SectorHdr, mem) BY OffsetFacts, WalkTurns, SMT DEF Within
      <4> QED BY <1>1, <2>2, <2>3, <2>4, <3>4, <4>1, <4>2 DEF Loading, InUse
    <3> QED BY <3>3, <3>4
  <2>5. CASE pc = "load2" /\ current = i
    <3>1. Newest(hdr, body, i) = Replay(body[i], Zeros) BY <2>2, <2>5, NewestAlone
    <3> QED BY <1>1, <2>1, <2>3, <2>5, <3>1 DEF Loading
  <2>6. CASE pc = "load2" /\ current # i
    <3>1. PICK m \in Memories : m = Replay(body[Other(i)], Zeros).mem BY <2>2
    <3>2. LogEnds(body[i], wofs) BY <1>1, <2>2, <2>6 DEF ScanDone, LoadingSector, InUse
    <3>3. Replay(body[i], m) = [ofs |-> wofs, mem |-> mem] /\ Replay(body[i], Zeros).ofs = wofs
      BY <2>1, <2>2, <2>6, <3>1, <3>2, WithinEnd, SMT DEF Loading
    <3>4. Newest(hdr, body, i).mem = mem BY <2>2, <2>6, <3>1, <3>3, SMT DEF Newest, Load
    <3> QED BY <1>1, <2>3, <2>6, <3>3, <3>4 DEF Loading
  <2> QED BY <1>1, <2>4, <2>5, <2>6
<1> QED BY <1>1, <1>2, ToLoad, InsideSame DEF DInv

\* init() has loaded everything and the sector i becomes the current one: write()
\* appends behind its log.
LEMMA LoadedTail ==
    ASSUME IInv, DInv, InitWriteAll, NEW i \in Sectors, Loading(i), current' = i
    PROVE  /\ Appending' /\ AllLogs(body) /\ hdr[i] = "IN_USE"
           /\ OutFits(hdr, body, i) /\ Newest(hdr, body, i).mem = mem
           /\ Newest(hdr, body, i).ofs = wofs
           /\ Holds(hdr, body, i, recent')
           /\ \A b \in Blocks : mem[b] \in recent'[b]
           /\ wofs \in Offsets => body[i][wofs] = Erased
<1>1. /\ pc = "loaded" /\ hdr' = hdr /\ body' = body /\ recent' = [b \in Blocks |-> {mem[b]}]
      /\ mem' = mem /\ wofs' = wofs
  BY DEF InitWriteAll, flashVars, envVars
<1>2. AllLogs(body) /\ body[i] \in Logs /\ body[Other(i)] \in Logs /\ hdr[i] = "IN_USE"
  BY LoadingFacts
<1>3. /\ Pair(hdr, body, i) /\ Ended(body[i]) /\ OutFits(hdr, body, i)
      /\ wofs = Replay(body[i], Zeros).ofs /\ mem = Newest(hdr, body, i).mem
  BY <1>1 DEF Loading, Rest
<1>4. PICK w \in SectorHdr .. SectorSize : Reached(body[i], w) /\ BlankFrom(body[i], w)
  BY <1>3 DEF Ended
<1>5. w = wofs BY <1>2, <1>3, <1>4, ZerosType, LogEnd
<1>6. PICK m \in Memories : m = Load(hdr[Other(i)], body[Other(i)], Zeros).mem
  BY <1>2, ZerosType, LoadType
<1>7. Newest(hdr, body, i) = Replay(body[i], m) BY <1>2, <1>6 DEF Newest, Load
<1>8. Newest(hdr, body, i).ofs = wofs BY <1>2, <1>4, <1>5, <1>7, LogEnd
<1>9. Tail(body[i], wofs)
  <2>1. BlankBehind(body[i], w) BY <1>4, SMT DEF BlankFrom, BlankBehind, Offsets
  <2>2. w \in Offsets => body[i][w] = Erased BY <1>4, SMT DEF BlankFrom
  <2> QED BY <1>4, <1>5, <2>1, <2>2 DEF Tail
<1>10. wofs \in Offsets => body[i][wofs] = Erased BY <1>4, <1>5, SMT DEF BlankFrom
<1>11. \A b \in Blocks : mem[b] \in recent'[b] BY <1>1
<1>12. Holds(hdr, body, i, recent') BY <1>3, <1>11 DEF Holds
<1>13. Appending' BY <1>1, <1>3, <1>9, <1>11, <1>12 DEF Appending, MemRecent
<1> QED BY <1>10, <1>2, <1>3, <1>8, <1>11, <1>12, <1>13

\* init() has loaded everything: it starts to write it out, or returns.
LEMMA InitWriteAllData ==
    ASSUME EvenSize, IInv, IInv', DInv, InitWriteAll
    PROVE  DInv'
<1>1. /\ pc = "loaded" /\ hdr' = hdr /\ body' = body /\ recent' = [b \in Blocks |-> {mem[b]}]
      /\ intact' = intact /\ mem' = mem /\ wofs' = wofs /\ reserved' = reserved
  BY DEF InitWriteAll, flashVars, envVars
<1>2. EntriesInside' BY <1>1, InsideSame DEF DInv
<1>3. op = "init" /\ ~nested /\ reserved = 0 /\ wofs \in 0 .. SectorSize
  BY <1>1 DEF IInv, CtlOK, TypeOK
<1>4. CASE hdr[current] = "FULL"
  <2>1. PICK q \in NextChunk(mem, 0) :
           IF q # NumBlocks
           THEN /\ base' = [pos |-> q, len |-> 0] /\ pc' = "check"
                /\ UNCHANGED <<op, nested, inner, inSwitch>>
           ELSE Goto("initErase") /\ UNCHANGED inSwitch BY <1>3, <1>4 DEF BaseLoop, InitWriteAll
  <2>2. pc' \in {"check", "initErase"} /\ op' = op /\ nested' = nested BY <2>1 DEF Goto
  <2>3. ASSUME intact PROVE RunOK'
    <3>1. PICK i \in Sectors : Loading(i) BY <1>1, <2>3 DEF DInv
    <3>2. current' = i /\ hdr[Other(i)] = "FULL" /\ Other(current) = i
      BY <1>4, <3>1, LoadingFacts DEF InitWriteAll
    <3>3. /\ Appending' /\ AllLogs(body) /\ hdr[i] = "IN_USE"
          /\ OutFits(hdr, body, i) /\ Newest(hdr, body, i).mem = mem
          /\ Newest(hdr, body, i).ofs = wofs
          /\ Holds(hdr, body, i, recent')
          /\ \A b \in Blocks : mem[b] \in recent'[b]
      BY <2>3, <3>1, <3>2, LoadedTail
    <3>4. /\ q \in Stops /\ q >= 0
          /\ q # NumBlocks => q \in ChunkStarts /\ ~AllZero(mem, q)
      BY ZeroStop, SkippedZero
    <3>5. Copied(body[i], q, recent') BY <3>3, ZeroStop, CopiedOn, SMT DEF Copied, Blocks
    <3>6. CASE q # NumBlocks
      <4>1. base'.pos = q /\ pc' = "check" BY <2>1, <3>6, SMT
      <4>2. OutRoom(wofs, mem, q)
        BY <1>3, <3>2, <3>3, <3>4, <3>6, OutRoomStart, SMT DEF OutFits, ChunkStarts, Blocks
      <4>3. WritingOut' BY <1>1, <1>3, <2>2, <3>2, <3>4, <3>5, <3>6, <4>1, <4>2 DEF WritingOut
      <4> QED BY <1>3, <2>2, <3>3, <4>1, <4>3 DEF RunOK
    <3>7. CASE q = NumBlocks
      <4>1. pc' = "initErase" BY <2>1, <3>7 DEF Goto
      <4> QED BY <1>1, <1>3, <2>2, <3>2, <3>3, <3>5, <3>7, <4>1 DEF RunOK, LoopPCs
    <3> QED BY <3>6, <3>7
  <2> QED BY <1>1, <1>2, <2>2, <2>3, ToRun DEF RunPCs, LoopPCs
<1>5. CASE hdr[current] # "FULL"
  <2>1. ASSUME intact PROVE RunOK'
    <3>1. PICK i \in Sectors : Loading(i) BY <1>1, <2>1 DEF DInv
    <3>2. Appending' BY <1>5, <2>1, <3>1, LoadedTail, LoadingFacts DEF InitWriteAll
    <3> QED BY <1>5, <3>2, RunQuiet DEF Done, InitWriteAll
  <2> QED BY <1>1, <1>2, <1>5, <2>1, ToRun, SMT DEF RunPCs, Done, InitWriteAll
<1> QED BY <1>4, <1>5
-----------------------------------------------------------------------------
\* The callers, the power supply, and the invariance of DInv.

\* The callers of write() and erase(), and the arming of the vehicle.
LEMMA CallerData ==
    ASSUME IInv, IInv', DInv,
           (\E b \in Blocks, n \in WriteLens : Write(b, n)) \/ Erase
    PROVE  DInv'
<1>1. /\ pc = "idle" /\ hdr' = hdr /\ body' = body /\ recent' = recent /\ intact' = intact
      /\ mem' = mem /\ current' = current /\ wofs' = wofs /\ nested' = nested
      /\ pc' \in {"check", "erase0"} /\ (pc' = "check" => op' = "write")
  BY DEF Write, Erase, flashVars, ramVars, histVars, envVars
<1>2. intact => Appending' BY <1>1, AppendingSame DEF DInv, RunPCs, RunOK
<1>3. intact => RunOK' BY <1>1, <1>2, RunPlain, RunQuiet DEF IInv, CtlOK
<1>4. pc' \in RunPCs BY <1>1 DEF RunPCs, LoopPCs
<1> QED BY <1>1, <1>3, <1>4, ToRun, InsideSame DEF DInv

\* Nothing that the invariant is about has changed.
LEMMA SameData ==
    ASSUME DInv, UNCHANGED <<flashVars, ramVars, ctlVars, histVars, mem>>
    PROVE  DInv'
<1>1. /\ hdr' = hdr /\ body' = body /\ current' = current /\ wofs' = wofs /\ reserved' = reserved
      /\ inSwitch' = inSwitch /\ pc' = pc /\ op' = op /\ nested' = nested /\ base' = base
      /\ inner' = inner /\ recent' = recent /\ intact' = intact /\ mem' = mem
  BY DEF flashVars, ramVars, ctlVars, histVars
<1>2. \A i \in Sectors : Loading(i) => Loading(i)' BY <1>1 DEF Loading
<1>3. RunOK => RunOK' BY <1>1, AppendingSame DEF RunOK, WritingOut, Pos, Len, Copying
<1>4. MarkOK => MarkOK' BY <1>1 DEF MarkOK, MemRecent
<1>5. AvailOK => AvailOK' BY <1>1 DEF AvailOK, MemRecent
<1>6. EraseOK => EraseOK' BY <1>1 DEF EraseOK
<1> QED BY <1>1, <1>2, <1>3, <1>4, <1>5, <1>6, InsideSame DEF DInv

\* The main thread changes mem_buffer while a call is running.
LEMMA UpdateData ==
    ASSUME IInv, IInv', DInv, NEW b \in Blocks, NEW v \in Values, Update(b, v)
    PROVE  DInv'
<1>1. /\ hdr' = hdr /\ body' = body /\ current' = current /\ wofs' = wofs /\ reserved' = reserved
      /\ inSwitch' = inSwitch /\ pc' = pc /\ op' = op /\ nested' = nested /\ base' = base
      /\ inner' = inner /\ intact' = intact /\ pc # "off" /\ op # "init"
      /\ mem' = [mem EXCEPT ![b] = v] /\ recent' = [recent EXCEPT ![b] = @ \cup {v}]
  BY DEF Update, Running, flashVars, ramVars, ctlVars
<1>2. MemRecent => MemRecent' BY <1>1 DEF MemRecent, IInv, TypeOK
<1>3. \A H, B, i : Holds(H, B, i, recent) => Holds(H, B, i, recent') BY <1>1, SMT DEF Holds
<1>4. Appending => Appending' BY <1>1, <1>2, <1>3 DEF Appending
<1>5. Copying => Copying' BY <1>1, SMT DEF Copying, Copied
<1>6. RunOK => RunOK' BY <1>1, <1>4, <1>5, SMT DEF RunOK, Copied, Pos, Len
<1>7. MarkOK => MarkOK' BY <1>1, <1>2, <1>3 DEF MarkOK
<1>8. AvailOK => AvailOK' BY <1>1, <1>2, <1>3 DEF AvailOK
<1>9. EraseOK => EraseOK' BY <1>1 DEF EraseOK
<1>10. pc \notin {"load1", "load2", "loaded"} BY <1>1 DEF IInv, CtlOK
<1> QED BY <1>1, <1>6, <1>7, <1>8, <1>9, <1>10, InsideSame DEF DInv

\* The sector in use and the other one, where write() appends.
LEMMA AppendingRest ==
    ASSUME IInv, Appending, ~Vulnerable
    PROVE  Rest(hdr, body, current, recent)
<1>1. current \in Sectors /\ AllLogs(body) BY LogsType DEF IInv, TypeOK
<1>2. Pair(hdr, body, current) /\ Tail(body[current], wofs) /\ Holds(hdr, body, current, recent)
  BY DEF Appending
<1>3. OutFits(hdr, body, current)
  <2> SUFFICES ASSUME hdr[Other(current)] = "FULL"
               PROVE  WriteOutFits(Newest(hdr, body, current).ofs, Newest(hdr, body, current).mem)
    BY DEF OutFits
  <2> QED BY <1>1, <1>2, LoadedIs DEF Vulnerable, ReserveSpent
<1> QED BY <1>1, <1>2, <1>3, TailEnds DEF Rest, AllLogs

\* Outside the vulnerable windows, the sectors are as init() wants to find them.
LEMMA RestOutside ==
    ASSUME IInv, DInv, intact, ~Vulnerable
    PROVE  \E i \in Sectors : Rest(hdr, body, i, recent)
<1>1. current \in Sectors /\ Other(current) \in Sectors BY SectorFacts DEF IInv, TypeOK
<1>2. CASE pc \in {"load1", "load2", "loaded"} BY <1>2 DEF DInv, Loading
<1>3. CASE pc \in RunPCs BY <1>1, <1>3, AppendingRest DEF DInv, RunOK
<1>4. CASE pc = "markInUse" BY <1>1, <1>4 DEF Vulnerable, SwitchWindow, MarkOK, Sectors, DInv
<1>5. CASE pc \in {"switchAvailable", "initAvailable"}
  BY <1>1, <1>5 DEF Vulnerable, EraseWindow, DInv, AvailOK
<1>6. CASE pc \in {"erase1", "available1", "inUse0"}
  BY <1>6 DEF Vulnerable, EraseWindow, Sectors, EraseOK, DInv
<1>7. pc \in PCs BY DEF IInv, TypeOK
<1> QED BY <1>2, <1>3, <1>4, <1>5, <1>6, <1>7 DEF PCs, RunPCs, LoopPCs, DInv

\* A power failure outside the vulnerable windows leaves what init() needs.
LEMMA PowerFailureData ==
    ASSUME IInv, IInv', DInv, PowerFailure
    PROVE  DInv'
<1>1. /\ hdr' = hdr /\ body' = body /\ recent' = recent /\ pc' = "off" /\ mem' = Zeros
      /\ intact' = (intact /\ ~Vulnerable)
  BY DEF PowerFailure, flashVars, Zeros
<1>2. EntriesInside' BY <1>1, InsideSame DEF DInv
<1>3. intact' => \E i \in Sectors : Rest(hdr', body', i, recent') BY <1>1, RestOutside
<1> QED BY <1>1, <1>2, <1>3 DEF DInv, RunPCs, LoopPCs

\* Every step keeps the invariant about the data.
LEMMA DataStep ==
    ASSUME EvenSize, IInv, DInv, [Next]_vars
    PROVE  DInv'
<1>1. IInv' BY InvStep
<1>2. CASE Step
  BY <1>1, <1>2, CheckData, ProgramData, FailData, SwitchData, EraseOtherData, AvailableData,
     EraseAllData, InUse0Data, BootData, LoadBlockData, LoadDoneData, InitWriteAllData DEF Step
<1>3. CASE \E b \in Blocks, v \in Values : Update(b, v) BY <1>1, <1>3, UpdateData
<1>4. CASE (\E b \in Blocks, n \in WriteLens : Write(b, n)) \/ Erase BY <1>1, <1>4, CallerData
<1>5. CASE ArmOrDisarm BY <1>5, SameData DEF ArmOrDisarm
<1>6. CASE WriteFault BY <1>1, <1>6, FailData
<1>7. CASE PowerFailure BY <1>1, <1>7, PowerFailureData
<1>8. CASE UNCHANGED vars BY <1>8, SameData DEF vars, envVars
<1> QED BY <1>2, <1>3, <1>4, <1>5, <1>6, <1>7, <1>8 DEF Next

\* The flash chip that has never been used.
LEMMA DataInit ==
    ASSUME Init PROVE DInv
BY DEF DInv, Init, Zeros, EntriesInside, BlankBody

\* The invariant about the data holds if storage_size is a multiple of max_write, whatever
\* fails and whenever.  (If it is not, init() may erase everything: BootKeepsData.)
THEOREM DataInvariant == EvenSize /\ Spec => [](IInv /\ DInv)
<1>1. SUFFICES ASSUME EvenSize PROVE Spec => [](IInv /\ DInv) OBVIOUS
<1>2. Init => DInv BY DataInit
<1>3. IInv /\ DInv /\ [Next]_vars => DInv' BY <1>1, DataStep
<1> QED BY <1>2, <1>3, Invariance, PTL DEF Spec

\* Outside the vulnerable windows the two logs hold, for every block, what the last
\* write() that completed has written, or a newer value: for every size of storage and
\* sectors, any number of write faults and power failures, at any moment.
THEOREM CommittedIsHeld == EvenSize /\ Spec => []LogsHoldCommitted
<1>1. IInv /\ DInv => LogsHoldCommitted
  <2> SUFFICES ASSUME IInv, DInv, intact, ~Vulnerable, NEW b \in Blocks
               PROVE  Loaded.mem[b] \in recent[b] BY DEF LogsHoldCommitted
  <2>1. PICK i \in Sectors : Rest(hdr, body, i, recent) BY RestOutside
  <2> QED BY <2>1, LoadedIs DEF Rest, Holds
<1> QED BY <1>1, DataInvariant, PTL

\* The loading of init() gives every block its committed value or a newer one.
THEOREM BootAlwaysRecovers == EvenSize /\ Spec => []BootRecovers
<1>1. IInv /\ DInv => BootRecovers
  <2> SUFFICES ASSUME IInv, DInv, intact, pc = "loaded", NEW b \in Blocks
               PROVE  mem[b] \in recent[b] BY DEF BootRecovers
  <2>1. PICK i \in Sectors : Loading(i) BY DEF DInv
  <2> QED BY <2>1 DEF Loading, Rest, Holds
<1> QED BY <1>1, DataInvariant, PTL
-----------------------------------------------------------------------------
\* Until the hardware refuses a block write, the sectors never fill up and init()
\* never erases them.

\* What is true until then.
FInv ==
    /\ budget.faults = 0
    /\ pc \in {"erase1", "available1", "inUse0"} => ~werr
    /\ intact =>
         /\ ~werr
         /\ op # "reinitInInit" /\ ~(op = "init" /\ pc = "erase0")
         \* write() finds blank flash
         /\ pc \in (RunPCs \ {"validate"}) \cup {"switchAvailable", "initAvailable"}
               /\ wofs \in Offsets => body[current][wofs] = Erased
         \* and the reserve is there as long as the other sector is FULL
         /\ hdr[Other(current)] = "FULL"
               /\ (pc = "idle" \/ (pc \in LoopPCs /\ ~nested /\ op # "init"))
               => reserved = ReserveSize
         /\ nested => Room(wofs, inner)

\* reserved_space tells whether something is reserved.
LEMMA ReserveNotZero == ReserveSize \in Nat \ {0}
BY ChunkSizes, SMT

\* Neither init() nor switch_full_sector() run out of room, and write() does so only
\* in front of the reserve.
LEMMA RoomToCheck ==
    ASSUME EvenSize, IInv, DInv, FInv, intact, pc = "check"
    PROVE  /\ ~SpaceOk => ~nested /\ op # "init"
           /\ ~SpaceOk /\ ~CanSwitch => reserved = ReserveSize
<1>1. wofs \in 0 .. SectorSize /\ reserved \in {0, ReserveSize} /\ current \in Sectors
  BY DEF IInv, TypeOK
<1>2. RunOK BY DEF DInv, RunPCs, LoopPCs
<1>3. ASSUME nested PROVE SpaceOk
  <2>1. Copying /\ Room(wofs, inner) BY <1>2, <1>3 DEF RunOK, FInv
  <2>2. SectorSize - wofs >= CopyLen BY <1>1, <1>3, <2>1, RoomIsSpace, CopyingAt DEF LoopPCs
  <2> QED BY <2>1, <2>2, ChunkSizes, SMT DEF Copying, SpaceOk, SpaceRequired, CopyLen
<1>4. ASSUME op = "init" PROVE SpaceOk
  <2>1. WritingOut BY <1>2, <1>4 DEF RunOK, LoopPCs
  <2>2. SectorSize - wofs >= CopyLen BY <1>1, <2>1, OutRoomIsSpace DEF WritingOut
  <2> QED BY <2>1, <2>2, ChunkSizes, SMT DEF WritingOut, SpaceOk, SpaceRequired, CopyLen
<1>5. ASSUME ~SpaceOk, ~CanSwitch PROVE reserved = ReserveSize
  <2> SUFFICES ASSUME reserved = 0 PROVE reserved = ReserveSize BY <1>1
  <2> QED BY <1>2, <1>3, <1>4, <1>5 DEF FInv, LoopPCs, CanSwitch, RunOK, Appending, Pair
<1> QED BY <1>3, <1>4, <1>5

\* write() looks for room.
LEMMA CheckFree ==
    ASSUME EvenSize, IInv, DInv, FInv,
           WriteError \/ EnoughSpace \/ SwitchSectors \/ SwitchRefused \/ SwitchFullSector
    PROVE  FInv'
<1>1. /\ pc = "check" /\ hdr' = hdr /\ body' = body /\ current' = current /\ wofs' = wofs
      /\ intact' = intact /\ budget' = budget /\ mem' = mem
  BY DEF WriteError, EnoughSpace, SwitchSectors, SwitchRefused, SwitchFullSector, flashVars,
     ramVars, histVars, envVars
<1>2. pc' \in {"idle", "erase0", "program", "markFull", "check", "switchErase"}
  BY DEF WriteError, EnoughSpace, SwitchSectors, SwitchRefused, SwitchFullSector, ReturnFalse,
     Done, Goto, InnerLoop
<1>3. CASE ~intact BY <1>1, <1>2, <1>3 DEF FInv
<1>4. CASE intact
  <2>1. /\ ~werr /\ op # "reinitInInit" /\ budget.faults = 0
        /\ wofs \in Offsets => body[current][wofs] = Erased
        /\ hdr[Other(current)] = "FULL" /\ ~nested /\ op # "init" => reserved = ReserveSize
        /\ nested => Room(wofs, inner)
    BY <1>1, <1>4 DEF FInv, RunPCs, LoopPCs
  <2>2. /\ ~SpaceOk => ~nested /\ op # "init"
        /\ ~SpaceOk /\ ~CanSwitch => reserved = ReserveSize
    BY <1>1, <1>4, RoomToCheck
  <2>3. ~WriteError BY <2>1 DEF WriteError
  <2>4. CASE EnoughSpace \/ SwitchSectors
    <3>1. /\ pc' \in {"program", "markFull"} /\ op' = op /\ nested' = nested /\ inner' = inner
          /\ reserved' = reserved /\ werr' = werr
      BY <2>4 DEF EnoughSpace, SwitchSectors, Goto, ramVars
    <3> QED BY <1>1, <2>1, <3>1 DEF FInv
  <2>5. CASE SwitchRefused
    <3>1. ~SpaceOk /\ ~CanSwitch /\ werr' = (reserved = 0) /\ ReturnFalse /\ reserved' = reserved
      BY <2>5 DEF SwitchRefused
    <3>2. reserved = ReserveSize /\ ~nested /\ op # "init" BY <2>2, <3>1
    <3>3. ~werr' BY <3>1, <3>2, ReserveNotZero
    <3>4. pc' = "idle" /\ op' = "none" /\ nested' = FALSE
      BY <2>1, <3>1, <3>2 DEF ReturnFalse, Done
    <3> QED BY <1>1, <2>1, <3>1, <3>2, <3>3, <3>4 DEF FInv
  <2>6. CASE SwitchFullSector
    <3>1. ~SpaceOk /\ ~CanSwitch /\ werr' = FALSE /\ InnerLoop(0) BY <2>6 DEF SwitchFullSector
    <3>2. PICK q \in NextChunk(mem, 0) :
             /\ inner' = q /\ nested' = TRUE
             /\ pc' = IF q # NumBlocks THEN "check" ELSE "switchErase"
             /\ op' = op
      BY <3>1 DEF InnerLoop
    <3>3. wofs \in 0 .. SectorSize /\ q \in Stops BY ZeroStop, SkippedZero DEF IInv, TypeOK
    <3>4. SectorSize - wofs >= ReserveSize BY <2>2, <3>1, ReserveNotZero DEF IInv
    <3>5. Room(wofs, q) BY <3>3, <3>4, ReserveIsRoom
    <3> QED BY <1>1, <2>1, <3>1, <3>2, <3>5 DEF FInv
  <2> QED BY <2>3, <2>4, <2>5, <2>6
<1> QED BY <1>3, <1>4

\* Only ProgramValid finds something at write_offset, and that is its own block.
LEMMA ProgramFree ==
    ASSUME EvenSize, IInv, IInv', DInv, FInv, ProgramWriting
    PROVE  FInv'
BY DEF FInv, LoopPCs, ProgramWriting, Goto, ramVars, histVars, envVars

\* A block is complete, and write() finds blank flash behind it.
LEMMA CommitFree ==
    ASSUME EvenSize, IInv, IInv', DInv, FInv, pc \in {"program", "validate"},
           NEW e \in Entries, e.n = Len, Commit(e)
    PROVE  FInv'
<1>1. /\ wofs' = EntryEnd(wofs, e) /\ current' = current /\ hdr' = hdr /\ mem' = mem
      /\ reserved' = reserved /\ Advance /\ pc \in LoopPCs /\ pc \in RunPCs
      /\ intact' = intact /\ budget' = budget /\ werr' = werr
      /\ body' = [body EXCEPT ![current][wofs] = e]
  BY DEF Commit, envVars, LoopPCs, RunPCs
<1>2. pc' \in {"idle", "erase0", "check", "initErase", "switchErase"} BY <1>1, AdvanceCtl
<1>3. CASE intact
  <2>1. /\ ~werr /\ op # "reinitInInit" /\ budget.faults = 0
        /\ hdr[Other(current)] = "FULL" /\ ~nested /\ op # "init" => reserved = ReserveSize
        /\ nested => Room(wofs, inner)
    BY <1>1, <1>3 DEF FInv
  <2>2. wofs' \in Offsets => body'[current'][wofs'] = Erased
    <3>1. Appended(body[current], wofs, e, body'[current])
      BY <1>1, <1>3, AppendData DEF DInv, RunOK
    <3> QED BY <1>1, <3>1, SMT DEF BlankFrom, Appended
  <2>3. CASE nested
    <3>1. inner \in ChunkStarts /\ Pos = inner /\ Len = ChunkLen(inner)
      BY <1>1, <1>3, <2>3, CopyingAt DEF DInv, RunOK
    <3>2. Len = MaxBlocks /\ Pos + Len \in Stops BY <3>1, NextStop
    <3>3. PICK q \in NextChunk(mem, Pos + Len) :
             /\ inner' = q /\ nested' = TRUE
             /\ pc' = IF q # NumBlocks THEN "check" ELSE "switchErase"
             /\ op' = op
      BY <1>1, <2>3 DEF Advance, InnerLoop
    <3>4. q \in Stops /\ q >= Pos + Len BY <3>2, SkippedZero
    <3>5. q >= inner + MaxBlocks /\ wofs \in 0 .. SectorSize
      BY <3>1, <3>2, <3>4 DEF IInv, TypeOK
    <3>6. Room(wofs + CopyLen, q) BY <2>1, <2>3, <3>1, <3>4, <3>5, RoomNext
    <3>7. wofs' = wofs + CopyLen
      BY <1>1, <3>2, <3>5, ChunkSizes, OffsetFacts, SMT DEF CopyLen, EntryEnd
    <3> QED BY <1>1, <2>1, <2>2, <3>3, <3>6, <3>7 DEF FInv
  <2>4. CASE ~nested
    <3>1. /\ ~nested' /\ op' # "reinitInInit" /\ pc' # "erase0"
          /\ op = "init" => op' = "init" /\ pc' \in {"check", "initErase"}
      <4>1. CASE op # "write"
        <5>1. PICK q \in NextChunk(mem, Pos + Len) :
                 IF q # NumBlocks
                 THEN /\ base' = [pos |-> q, len |-> 0] /\ pc' = "check"
                      /\ UNCHANGED <<op, nested, inner, inSwitch>>
                 ELSE IF op = "init" THEN Goto("initErase") /\ UNCHANGED inSwitch
                 ELSE ReturnFalse BY <1>1, <2>4, <4>1 DEF Advance, BaseLoop
        <5> QED BY <2>1, <2>4, <5>1 DEF Goto, ReturnFalse, Done
      <4> QED BY <1>1, <2>4, <4>1 DEF Advance, Done
    <3> QED BY <1>1, <1>2, <2>1, <2>2, <2>4, <3>1 DEF FInv, LoopPCs
  <2> QED BY <2>3, <2>4
<1> QED BY <1>1, <1>2, <1>3 DEF FInv

\* The last operation of write() on a block, without faults.
LEMMA CompleteFree ==
    ASSUME EvenSize, IInv, IInv', DInv, FInv, ProgramValid \/ ProgramWord
    PROVE  FInv'
<1>1. CASE intact
  <2>1. CASE ProgramValid
    <3>1. pc = "validate" BY <2>1 DEF ProgramValid
    <3>2. PICK e : e = [body[current][wofs] EXCEPT !.state = "VALID"] OBVIOUS
    <3>3. wofs \in Offsets /\ body[current][wofs] \in Entries
      BY <3>1, WriteOffsetInside, SMT DEF IInv, TypeOK
    <3>4. e \in Entries /\ e.n = Len
      BY <1>1, <3>1, <3>2, <3>3 DEF Entries, DInv, RunPCs, LoopPCs, RunOK
    <3> QED BY <2>1, <3>1, <3>2, <3>4, CommitFree DEF ProgramValid
  <2>2. CASE ProgramWord
    <3>1. pc = "program" /\ Commit(NewEntry("VALID")) BY <2>2 DEF ProgramWord
    <3>2. NewEntry("VALID") \in Entries BY <3>1, NewEntryType
    <3> QED BY <3>1, <3>2, CommitFree DEF NewEntry
  <2> QED BY <2>1, <2>2
<1> QED BY <1>1, AdvanceCtl, SMT DEF FInv, ProgramValid, ProgramWord, Commit, envVars

\* write() finds blank flash.
LEMMA FailFree ==
    ASSUME EvenSize, IInv, IInv', DInv, FInv, Unprogrammable
    PROVE  FInv'
<1>1. /\ pc = "program" /\ ~Fresh(NewEntry(IF TwoPhase THEN "WRITING" ELSE "VALID"))
      /\ budget' = budget /\ FailedWrite /\ intact' = intact
  BY SMT DEF Unprogrammable, FailedWrite, histVars
<1>2. ASSUME intact PROVE FALSE
  <2>1. wofs >= SectorHdr BY <1>1, <1>2, SMT DEF Tail, DInv, RunPCs, LoopPCs, RunOK, Appending
  <2> QED BY <1>1, <1>2, <2>1, WriteOffsetInside DEF Fresh, FInv, RunPCs, LoopPCs
<1> QED BY <1>1, <1>2 DEF FInv, FailedWrite, ReturnFalse, Done

\* switch_sectors(), and the erase of the other sector.
LEMMA SwitchFree ==
    ASSUME EvenSize, IInv, IInv', DInv, FInv,
           MarkFull \/ MarkInUse \/ SwitchErase \/ InitErase
    PROVE  FInv'
<1>1. /\ current \in Sectors /\ Other(current) \in Sectors /\ Other(current) # current
      /\ Other(Other(current)) = current
  BY SectorFacts DEF IInv, TypeOK
<1>2. CASE MarkFull
  <2>1. /\ pc = "markFull" /\ pc' = "markInUse" /\ op' = op /\ nested' = nested /\ wofs' = wofs
        /\ inner' = inner /\ werr' = werr /\ intact' = intact /\ budget' = budget
    BY <1>2 DEF MarkFull, Goto, ramVars, histVars, envVars
  <2> QED BY <2>1 DEF FInv, RunPCs, LoopPCs
<1>3. CASE MarkInUse
  <2>1. /\ pc = "markInUse" /\ Mark(Other(current), "IN_USE") /\ pc' = "program" /\ op' = op
        /\ nested' = nested /\ current' = Other(current) /\ wofs' = SectorHdr
        /\ reserved' = ReserveSize /\ werr' = werr /\ intact' = intact /\ budget' = budget
    BY <1>3 DEF MarkInUse, Goto, histVars, envVars
  <2>2. body' = body BY <2>1 DEF Mark
  <2>3. intact => ~nested /\ body[Other(current)] = BlankBody BY <2>1 DEF DInv, MarkOK
  <2>4. \A o \in Offsets : BlankBody[o] = Erased BY DEF BlankBody
  <2> QED BY <2>1, <2>2, <2>3, <2>4 DEF FInv
<1>4. CASE SwitchErase \/ InitErase
  <2>1. /\ pc \in {"switchErase", "initErase"} /\ EraseSector(Other(current))
        /\ pc' \in {"switchAvailable", "initAvailable"} /\ op' = op /\ nested' = nested
        /\ inner' = inner /\ werr' = werr /\ budget' = budget
        /\ current' = current /\ wofs' = wofs /\ intact' = intact
    BY <1>4 DEF SwitchErase, InitErase, Goto, ramVars, histVars, envVars
  <2>2. EntriesInside BY DEF DInv
  <2>3. body'[current] = body[current] BY <1>1, <2>1, <2>2, InsideErase
  <2>4. pc \in RunPCs \ {"validate"} BY <2>1 DEF RunPCs
  <2> QED BY <2>1, <2>3, <2>4 DEF FInv, LoopPCs
<1> QED BY <1>2, <1>3, <1>4

\* The header of the sector that was erased.
LEMMA AvailableFree ==
    ASSUME EvenSize, IInv, IInv', DInv, FInv, SwitchAvailable \/ InitAvailable
    PROVE  FInv'
<1>1. /\ pc \in {"switchAvailable", "initAvailable"} /\ Mark(Other(current), "AVAILABLE")
      /\ current' = current /\ wofs' = wofs /\ intact' = intact /\ werr' = werr /\ budget' = budget
      /\ pc' \in {"idle", "erase0", "markFull"}
  BY DEF SwitchAvailable, InitAvailable, Done, ReturnFalse, histVars, envVars
<1>2. body' = body /\ hdr'[Other(current)] = "AVAILABLE"
  BY <1>1, MarkIs, SectorFacts DEF IInv, TypeOK
<1>3. ASSUME intact PROVE pc' # "erase0" /\ op' # "reinitInInit" /\ ~nested'
  <2>1. CASE SwitchAvailable
    <3>1. reserved = 0 BY <1>1, <1>3, <2>1 DEF AvailOK, SwitchAvailable, DInv
    <3> QED BY <1>3, <2>1, <3>1 DEF SwitchAvailable, FInv
  <2> QED BY <2>1 DEF InitAvailable, Done
<1> QED BY <1>1, <1>2, <1>3 DEF FInv, LoopPCs

\* erase_all() ends with a blank sector in use.
LEMMA EraseAllFree ==
    ASSUME IInv, IInv', DInv, FInv, Erase0 \/ Erase1 \/ Available1 \/ FirstWord0 \/ InUse0
    PROVE  FInv'
<1>1. CASE Erase0 \/ Erase1 \/ Available1 \/ FirstWord0
  <2>1. /\ pc \in {"erase0", "erase1", "available1", "inUse0"}
        /\ pc' \in {"erase1", "available1", "inUse0"}
        /\ op' = op /\ nested' = nested /\ intact' = intact /\ budget' = budget
        /\ pc = "erase0" => werr' = FALSE
        /\ pc # "erase0" => werr' = werr
    BY <1>1 DEF Erase0, Erase1, Available1, FirstWord0, Goto, ramVars, histVars, envVars
  <2> QED BY <2>1, SMT DEF FInv, RunPCs, LoopPCs, IInv, CtlOK
<1>2. CASE InUse0
  <2>1. /\ pc = "inUse0" /\ Mark(0, "IN_USE") /\ current' = current /\ wofs' = wofs
        /\ intact' = (intact \/ op # "reinitInInit") /\ werr' = werr /\ budget' = budget
    BY <1>2 DEF InUse0, envVars
  <2>2. ~nested /\ ~werr /\ current = 0 /\ body[0] = BlankBody /\ hdr[1] = "AVAILABLE"
    BY <2>1 DEF IInv, CtlOK, FInv, DInv, EraseOK
  <2>3. body' = body /\ hdr'[1] = "AVAILABLE" BY <2>1, <2>2, MarkIs, SectorNames
  <2>4. wofs' \in Offsets => body'[current'][wofs'] = Erased BY <2>1, <2>2, <2>3 DEF BlankBody
  <2>5. pc' \in {"idle", "erase0", "check", "initErase"}
    <3>1. CASE op \in ReInit BY <1>2, <2>2, <3>1, BaseLoopCtl DEF IInv, InUse0, ReInit
    <3> QED BY <1>2, <3>1 DEF InUse0, Done
  <2>6. ASSUME intact' PROVE op' # "reinitInInit" /\ op' # "init" /\ ~nested'
    <3>1. CASE op = "reinit"
      <4>1. PICK q \in NextChunk(mem, 0) :
               IF q # NumBlocks
               THEN /\ base' = [pos |-> q, len |-> 0] /\ pc' = "check"
                    /\ UNCHANGED <<op, nested, inner, inSwitch>>
               ELSE ReturnFalse BY <1>2, <3>1 DEF InUse0, ReInit, BaseLoop
      <4> QED BY <2>2, <3>1, <4>1 DEF ReturnFalse, Done
    <3>2. CASE op # "reinit" BY <1>2, <2>1, <2>6, <3>2 DEF InUse0, ReInit, Done, FInv
    <3> QED BY <3>1, <3>2
  <2> QED BY <2>1, <2>2, <2>3, <2>4, <2>5, <2>6, SMT DEF FInv, Other
<1> QED BY <1>1, <1>2

\* init() finds nothing that makes it erase the sectors.
LEMMA BootFree ==
    ASSUME EvenSize, IInv, IInv', DInv, FInv, Boot \/ LoadBlock \/ LoadDone
    PROVE  FInv'
<1>1. /\ pc \in {"off", "load1", "load2"} /\ intact' = intact /\ budget' = budget /\ werr' = werr
      /\ nested' = nested /\ (op' = op \/ op' = "init")
      /\ pc' \in {"erase0", "load1", "load2", "loaded"}
  BY DEF Boot, LoadBlock, LoadDone, Goto, histVars, envVars
<1>2. ASSUME intact PROVE pc' # "erase0"
  <2>1. CASE Boot
    <3>1. PICK i \in Sectors : Rest(hdr, body, i, recent) BY <1>2, <2>1 DEF DInv, Boot
    <3> QED BY <2>1, <3>1, LoadedIs DEF Boot, Rest
  <2>2. CASE LoadBlock BY <1>1, <1>2, <2>2, LoadBlockOn
  <2> QED BY <2>1, <2>2 DEF LoadDone, Goto
<1> QED BY <1>1, <1>2 DEF FInv, RunPCs, LoopPCs, IInv, CtlOK

\* init() goes on behind the newer log.
LEMMA InitWriteAllFree ==
    ASSUME EvenSize, IInv, IInv', DInv, FInv, InitWriteAll
    PROVE  FInv'
<1>1. /\ pc = "loaded" /\ hdr' = hdr /\ body' = body /\ intact' = intact /\ wofs' = wofs
      /\ werr' = werr /\ budget' = budget
  BY DEF InitWriteAll, flashVars, envVars
<1>2. op = "init" /\ ~nested BY <1>1 DEF IInv, CtlOK
<1>3. /\ ~nested' /\ pc' \in {"check", "initErase", "idle"} /\ op' # "reinitInInit"
      /\ pc' = "check" => op' = "init"
      /\ pc' = "idle" => hdr[current] # "FULL" /\ current' = current
      /\ hdr[current] = "FULL" => current' = Other(current)
  <2>1. CASE hdr[current] = "FULL"
    <3>1. current' = Other(current) /\ BaseLoop(0) BY <2>1 DEF InitWriteAll
    <3>2. PICK q \in NextChunk(mem, 0) :
             IF q # NumBlocks
             THEN /\ base' = [pos |-> q, len |-> 0] /\ pc' = "check"
                  /\ UNCHANGED <<op, nested, inner, inSwitch>>
             ELSE Goto("initErase") /\ UNCHANGED inSwitch BY <1>2, <3>1 DEF BaseLoop
    <3> QED BY <1>2, <3>1, <3>2 DEF Goto
  <2> QED BY <2>1 DEF InitWriteAll, Done
<1>4. ASSUME intact
      PROVE  /\ wofs \in Offsets => body[current'][wofs] = Erased
             /\ pc' = "idle" => hdr[Other(current')] # "FULL"
  <2>1. PICK i \in Sectors : Loading(i) BY <1>1, <1>4 DEF DInv
  <2>2. /\ hdr[i] = "IN_USE"
        /\ \/ current = i /\ Other(current) = Other(i) /\ hdr[Other(i)] = "AVAILABLE"
           \/ current # i /\ current = Other(i) /\ Other(current) = i /\ hdr[Other(i)] = "FULL"
    BY <2>1, LoadingFacts
  <2>3. current' = i BY <1>3, <2>2 DEF InitWriteAll
  <2>4. pc' = "idle" => hdr[Other(i)] # "FULL" BY <1>3, <2>2
  <2> QED BY <2>1, <2>3, <2>4, LoadedTail
<1> QED BY <1>1, <1>2, <1>3, <1>4 DEF FInv, LoopPCs

\* The callers, the main thread and the power supply.
LEMMA OtherFree ==
    ASSUME IInv, IInv', DInv, FInv,
           \/ \E b \in Blocks, n \in WriteLens : Write(b, n)
           \/ Erase \/ (\E b \in Blocks, v \in Values : Update(b, v))
           \/ ArmOrDisarm \/ PowerFailure \/ UNCHANGED vars
    PROVE  FInv'
<1>1. budget \in [faults : Nat, cuts : Nat, updates : Nat] BY DEF IInv, TypeOK
<1>2. CASE (\E b \in Blocks, n \in WriteLens : Write(b, n)) \/ Erase
  <2>1. /\ pc = "idle" /\ hdr' = hdr /\ body' = body /\ intact' = intact /\ reserved' = reserved
        /\ current' = current /\ wofs' = wofs /\ nested' = nested /\ werr' = werr
        /\ budget' = budget /\ op' \in {"write", "erase"} /\ pc' \in {"check", "erase0"}
    BY <1>2 DEF Write, Erase, flashVars, ramVars, histVars, envVars
  <2> QED BY <2>1 DEF FInv, RunPCs, IInv, CtlOK
<1>3. CASE (\E b \in Blocks, v \in Values : Update(b, v)) \/ ArmOrDisarm \/ UNCHANGED vars
  <2>1. /\ hdr' = hdr /\ body' = body /\ current' = current /\ wofs' = wofs /\ reserved' = reserved
        /\ pc' = pc /\ op' = op /\ nested' = nested /\ inner' = inner /\ intact' = intact
        /\ werr' = werr /\ budget'.faults = budget.faults
    BY <1>1, <1>3 DEF Update, ArmOrDisarm, vars, flashVars, ramVars, ctlVars, histVars, envVars
  <2> QED BY <2>1 DEF FInv
<1>4. CASE PowerFailure BY <1>4, SMT DEF FInv, RunPCs, LoopPCs, PowerFailure
<1> QED BY <1>2, <1>3, <1>4

\* Only the hardware's refusal of a block write counts as one.
LEMMA FaultsCounted ==
    ASSUME IInv, [Next]_vars, ~WriteFault
    PROVE  budget'.faults = budget.faults
<1>1. budget \in [faults : Nat, cuts : Nat, updates : Nat] BY DEF IInv, TypeOK
<1>2. CASE Step
  BY <1>2 DEF Step, WriteError, EnoughSpace, SwitchSectors, SwitchRefused, SwitchFullSector,
     ProgramWriting, ProgramValid, ProgramWord, Commit, Unprogrammable, MarkFull, MarkInUse,
     SwitchErase, SwitchAvailable, Erase0, Erase1, Available1, FirstWord0, InUse0, Boot, LoadBlock,
     LoadDone, InitWriteAll, InitErase, InitAvailable, envVars
<1>3. CASE (\E b \in Blocks, v \in Values : Update(b, v)) \/ PowerFailure
  BY <1>1, <1>3, SMT DEF Update, PowerFailure
<1>4. CASE \/ \E b \in Blocks, n \in WriteLens : Write(b, n)
           \/ Erase \/ ArmOrDisarm \/ UNCHANGED vars
  BY <1>4 DEF Write, Erase, ArmOrDisarm, vars, envVars
<1> QED BY <1>2, <1>3, <1>4 DEF Next

\* Every step keeps it, but for a block write that the hardware refuses.
LEMMA FreeStep ==
    ASSUME EvenSize, IInv, DInv, NoRefusal => FInv, [Next]_vars
    PROVE  (NoRefusal => FInv)'
<1> SUFFICES ASSUME NoRefusal' PROVE FInv' OBVIOUS
<1>0. FInv /\ ~WriteFault
  <2>1. budget.faults \in Nat BY SMT DEF IInv, TypeOK
  <2>2. CASE WriteFault
    <3>1. budget'.faults = budget.faults + 1 BY <2>2, SMT DEF WriteFault, IInv, TypeOK
    <3> QED BY <2>1, <3>1, SMT DEF NoRefusal
  <2>3. CASE ~WriteFault
    <3>1. budget'.faults = budget.faults BY <2>3, FaultsCounted
    <3> QED BY <2>3, <3>1 DEF NoRefusal
  <2> QED BY <2>2, <2>3
<1>1. IInv' BY InvStep
<1>2. CASE Step
  BY <1>0, <1>1, <1>2, CheckFree, ProgramFree, CompleteFree, FailFree, SwitchFree, AvailableFree,
     EraseAllFree, BootFree, InitWriteAllFree DEF Step
<1>4. CASE \/ \E b \in Blocks, n \in WriteLens : Write(b, n)
           \/ Erase \/ (\E b \in Blocks, v \in Values : Update(b, v))
           \/ ArmOrDisarm \/ PowerFailure \/ UNCHANGED vars
  BY <1>0, <1>1, <1>4, OtherFree
<1> QED BY <1>0, <1>2, <1>4 DEF Next

\* The flash chip that has never been used.
LEMMA FreeInit == ASSUME Init PROVE FInv
BY DEF Init, FInv, RunPCs, LoopPCs

\* Until a block write is refused, all three invariants hold.
THEOREM FaultFreeInvariant == EvenSize /\ Spec => [](IInv /\ DInv /\ (NoRefusal => FInv))
<1>1. SUFFICES ASSUME EvenSize PROVE Spec => [](IInv /\ DInv /\ (NoRefusal => FInv)) OBVIOUS
<1>2. Spec => [](IInv /\ DInv) BY <1>1, DataInvariant
<1>3. Init => (NoRefusal => FInv) BY <1>1, FreeInit
<1>4. IInv /\ DInv /\ (NoRefusal => FInv) /\ [Next]_vars => (NoRefusal => FInv)'
  BY <1>1, FreeStep
<1> QED BY <1>2, <1>3, <1>4, PTL DEF Spec

\* There are as many chunks as the reserve is computed for.
LEMMA ChunksInReserve ==
    ASSUME EvenSize, NEW m
    PROVE  ChunksToWrite(m) \in Nat /\ ChunksToWrite(m) <= Chunks
<1>1. Chunks \in Nat /\ MaxBlocks \in Nat \ {0} BY ChunkSizes
<1>2. PICK I : I = 0 .. Chunks - 1 OBVIOUS
<1>3. IsFiniteSet(I) /\ Cardinality(I) = Chunks
  <2>1. /\ IsFiniteSet(0 .. Chunks - 1)
        /\ Cardinality(0 .. Chunks - 1) = IF 0 > Chunks - 1 THEN 0 ELSE (Chunks - 1) - 0 + 1
    BY <1>1, FS_Interval, SMT
  <2> QED BY <1>1, <1>2, <2>1, SMT
<1>4. PICK T : T = {p \in ChunkStarts : ~AllZero(m, p)} OBVIOUS
<1>5. PICK J : J = {i \in I : i * MaxBlocks \in T} OBVIOUS
<1>6. IsFiniteSet(J) /\ Cardinality(J) <= Chunks /\ Cardinality(J) \in Nat
  BY <1>3, <1>5, FS_CardinalityType, FS_Subset
<1>7. [i \in J |-> i * MaxBlocks] \in Surjection(J, T)
  <2>1. ASSUME NEW p \in T PROVE \E i \in J : i * MaxBlocks = p
    <3>1. PICK i \in Nat : i <= Chunks /\ p = i * MaxBlocks /\ (i = Chunks <=> p = NumBlocks)
      BY <1>4, StopFacts DEF ChunkStarts, Stops
    <3>2. i \in I BY <1>1, <1>2, <1>4, <3>1, SMT DEF Blocks, ChunkStarts, Stops
    <3> QED BY <1>5, <3>1, <3>2
  <2> QED BY <1>5, <2>1 DEF Surjection
<1>8. IsFiniteSet(T) /\ Cardinality(T) <= Cardinality(J) BY <1>6, <1>7, FS_Surjection
<1>9. ChunksToWrite(m) = Cardinality(T) BY <1>4 DEF ChunksToWrite
<1> QED BY <1>1, <1>6, <1>8, <1>9, FS_CardinalityType, SMT

\* When no call is running, a power failure loses nothing, unless a block write
\* was refused.
THEOREM RestIsSafe == EvenSize /\ Spec => []AtRestSafe
<1>1. SUFFICES ASSUME EvenSize PROVE Spec => []AtRestSafe OBVIOUS
<1>2. IInv /\ DInv /\ (NoRefusal => FInv) => AtRestSafe
  <2> SUFFICES ASSUME IInv, DInv, FInv, intact, pc = "idle" PROVE ~Vulnerable BY DEF AtRestSafe
  <2>1. current \in Sectors /\ wofs \in 0 .. SectorSize /\ AllLogs(body)
    BY LogsType DEF IInv, TypeOK
  <2>2. Pair(hdr, body, current) /\ Tail(body[current], wofs)
    BY DEF DInv, RunPCs, RunOK, Appending
  <2>3. /\ ~SwitchWindow /\ ~EraseWindow
        /\ hdr[Other(current)] = "FULL" => Loaded = Newest(hdr, body, current)
        /\ hdr[Other(current)] = "FULL" <=> {hdr[0], hdr[1]} = {"FULL", "IN_USE"}
    BY <2>1, <2>2, LoadedIs
  <2>4. ASSUME hdr[Other(current)] = "FULL" PROVE WriteOutFits(Loaded.ofs, Loaded.mem)
    <3>1. reserved = ReserveSize BY <2>4 DEF FInv
    <3>2. SectorSize - wofs >= ReserveSize BY <3>1, ReserveNotZero DEF IInv
    <3>3. wofs \in Offsets BY <2>1, <3>2, ReserveNotZero, OffsetFacts, SMT
    <3>4. body[current][wofs] = Erased BY <3>3 DEF FInv, RunPCs
    <3>5. BlankFrom(body[current], wofs)
      BY <2>1, <2>2, <3>4, SMT DEF Tail, BlankBehind, BlankFrom, Offsets
    <3>6. body[current] \in Logs /\ body[Other(current)] \in Logs /\ hdr[current] = "IN_USE"
      BY <2>1, <2>2, SectorFacts DEF AllLogs, Pair
    <3>7. PICK m \in Memories : m = Load(hdr[Other(current)], body[Other(current)], Zeros).mem
      BY <3>6, ZerosType, LoadType
    <3>8. Newest(hdr, body, current) = Replay(body[current], m) BY <3>6, <3>7 DEF Newest, Load
    <3>9. Replay(body[current], m).ofs = wofs BY <2>2, <3>5, <3>6, LogEnd DEF Tail
    <3>10. Loaded.ofs = wofs BY <2>3, <2>4, <3>8, <3>9
    <3>11. PICK c \in Nat : c = ChunksToWrite(Loaded.mem) /\ c <= Chunks
      BY <1>1, ChunksInReserve
    <3>12. PICK d \in Nat : Chunks = c + d
      <4>1. Chunks - c \in Nat /\ Chunks = c + (Chunks - c) BY <3>11, ChunkSizes, SMT
      <4> QED BY <4>1
    <3>13. CopyLen \in Nat /\ MaxWrite \in Nat BY ChunkSizes
    <3>14. c * CopyLen \in Nat /\ d * CopyLen \in Nat /\ Chunks * CopyLen = c * CopyLen + d * CopyLen
      BY <3>12, <3>13, SMT
    <3>15. ReserveSize = Chunks * CopyLen + MaxWrite BY ChunkSizes
    <3>16. wofs + c * CopyLen <= SectorSize BY <2>1, <3>2, <3>13, <3>14, <3>15, OffsetFacts, SMT
    <3> QED BY <3>10, <3>11, <3>16 DEF WriteOutFits, CopyLen
  <2> QED BY <2>3, <2>4 DEF Vulnerable, ReserveSpent
<1> QED BY <1>1, <1>2, FaultFreeInvariant, PTL

\* init() erases the sectors only after a power failure in one of the windows or
\* a refused block write.
THEOREM BootErasesNothing == EvenSize /\ Spec => []BootKeepsData
BY FaultFreeInvariant, PTL DEF FInv, BootKeepsData

\* write_error is never set, unless a block write was refused.
THEOREM LatchStaysClear == EvenSize /\ Spec => []NoWriteError
BY FaultFreeInvariant, PTL DEF FInv, NoWriteError

\* Only blank flash is programmed, until a block write is refused.
THEOREM BlankIsProgrammed == EvenSize /\ Spec => []ProgramsBlankFlash
<1>1. IInv /\ DInv /\ (NoRefusal => FInv) => ProgramsBlankFlash
  <2> SUFFICES ASSUME IInv, DInv, FInv, intact, pc = "program",
                      NEW o \in wofs .. wofs + BlockHdr + Len * BlockSize - 1
               PROVE  o \in Offsets /\ body[current][o] = Erased BY DEF ProgramsBlankFlash
  <2>1. wofs \in Offsets BY WriteOffsetInside
  <2>2. PICK l \in Nat : l = Len * BlockSize /\ l <= MaxWrite BY SizeFacts, PosLen
  <2>3. wofs \in Nat BY <2>1, SMT DEF Offsets
  <2>4. o \in Int /\ o >= wofs /\ o <= wofs + BlockHdr + l - 1 BY <2>2, SMT
  <2>5. o \in Offsets
    BY <2>2, <2>3, <2>4, OffsetFacts, ChunkSizes, SizeFacts, SMTT(20) DEF Offsets, IInv, RoomToProgram,
       TypeOK
  <2>6. CASE o > wofs
    BY <2>5, <2>6 DEF Tail, BlankBehind, DInv, RunPCs, LoopPCs, RunOK, Appending
  <2> QED BY <2>1, <2>3, <2>4, <2>5, <2>6, SMT DEF FInv, RunPCs, LoopPCs
<1> QED BY <1>1, FaultFreeInvariant, PTL
=============================================================================
