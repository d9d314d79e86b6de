--------------------------- MODULE StorageProofs ----------------------------
(***************************************************************************)
(* Proofs about what threads, nodes and power failures do to data at rest  *)
(* and on its way.                                                         *)
(*                                                                         *)
(* HalStorage: the write-back cache, for any number of lines, writers,     *)
(* values and power failures.  The theorems about the device are for FRAM, *)
(* which is written from the copy in tmpline.                              *)
(*                                                                         *)
(* DNAAllocation: the database of node IDs that is kept in such a cache,   *)
(* for any number of node IDs, unique IDs, nodes and buses, and whatever   *)
(* messages are missed or late.                                            *)
(*                                                                         *)
(* ByteBuffer, for every size of the buffer and every length of the calls, *)
(* when clear() excludes the writer (ClearLocked).  The inductive          *)
(* invariant says what each thread may rely on: the writer that the cells  *)
(* it copies to are free, the reader that the cells it reads are readable, *)
(* whatever the other thread does between its steps.                       *)
(***************************************************************************)
EXTENDS HalStorage, DNAAllocation, ByteBuffer, SequenceTheorems, FiniteSetTheorems, TLAPS

\* A leaf is proved by Zenon unless it names SMT, which does the arithmetic.
USE Zenon

(* The cache                                                               *)

\* The semaphore is held exactly while a writer copies, and a writer that has
\* not begun to copy has everything still to do.
SemOK ==
    /\ \A wr \in Writers : (job[wr].pc = "copy") <=> (sem = wr)
    /\ \A wr \in Writers : job[wr].pc = "lock" => job[wr].todo = job[wr].lines
    /\ \A wr \in Writers : job[wr].todo \subseteq job[wr].lines

\* While the storage thread is at work its line is dirty.  Nothing is going on
\* before the storage is opened.
TickOK ==
    /\ tick.pc # "idle" => tick.line \in dirty
    /\ ~opened => /\ tick.pc = "idle" /\ dirty = {} /\ buffer = device
                  /\ \A wr \in Writers : job[wr].pc = "idle"

\* What goes to the device is the copy in tmpline, and that is a recent value.
FramOK ==
    /\ tick.pc \in {"send", "commit", "check"} => tmpline \in recent[tick.line]
    /\ tick.pc = "commit" => out = tmpline
    /\ tick.pc = "check" => device[tick.line] = tmpline

RecentOK == \A l \in Lines : buffer[l] \in recent[l]

\* The inductive invariant.
IInv ==
    /\ TypeOK /\ SemOK /\ TickOK /\ RecentOK
    /\ Backend = "FRAM" => FramOK /\ CleanIsDurable

\* When nobody holds the semaphore no line is changed and unmarked.
LEMMA NoneUnmarked ==
    ASSUME SemOK, sem = None
    PROVE  Unmarked = {}
BY HalAssumption DEF SemOK, Unmarked

\* A writer that begins to copy has not changed a line yet.
LEMMA LockUnmarked ==
    ASSUME IInv, NEW wr \in Writers, Lock(wr)
    PROVE  Unmarked' = Unmarked /\ Clean' = Clean
<1>1. /\ job[wr].pc = "lock" /\ job[wr].todo = job[wr].lines
      /\ job' = [job EXCEPT ![wr].pc = "copy"] /\ dirty' = dirty
  BY DEF Lock, IInv, SemOK
<1>2. job \in [Writers -> [pc : {"idle", "lock", "copy"}, lines : SUBSET Lines,
                           todo : SUBSET Lines, val : Contents]]
  BY DEF IInv, TypeOK
<1>3. \A x \in Writers : /\ job'[x].lines = job[x].lines /\ job'[x].todo = job[x].todo
                         /\ x # wr => job'[x].pc = job[x].pc
  BY <1>1, <1>2
<1>4. Unmarked' = Unmarked
  <2>1. job'[wr].lines \ job'[wr].todo = {} BY <1>1, <1>3
  <2> QED BY <1>1, <1>3, <2>1, SMT DEF Unmarked
<1> QED BY <1>1, <1>4 DEF Clean

\* Copying a line takes it, and no other line, out of the clean ones.
LEMMA CopyClean ==
    ASSUME IInv, NEW wr \in Writers, NEW l \in job[wr].todo,
           job[wr].pc = "copy", job' = [job EXCEPT ![wr].todo = @ \ {l}], dirty' = dirty
    PROVE  Clean' = Clean \ {l}
<1>1. job \in [Writers -> [pc : {"idle", "lock", "copy"}, lines : SUBSET Lines,
                           todo : SUBSET Lines, val : Contents]]
  BY DEF IInv, TypeOK
<1>2. l \in job[wr].lines BY DEF IInv, SemOK
<1>3. \A x \in Writers : /\ job'[x].lines = job[x].lines /\ job'[x].pc = job[x].pc
                         /\ x # wr => job'[x].todo = job[x].todo
  BY <1>1
<1>4. job'[wr].todo = job[wr].todo \ {l} BY <1>1
<1>5. job'[wr].lines \ job'[wr].todo = (job[wr].lines \ job[wr].todo) \cup {l}
  BY <1>2, <1>3, <1>4
<1>6. Unmarked' = Unmarked \cup {l} BY <1>3, <1>5, SMT DEF Unmarked
<1> QED BY <1>6 DEF Clean

\* Marking the lines of a block changes no line from clean to dirty or back.
LEMMA MarkClean ==
    ASSUME IInv, NEW wr \in Writers, MarkDirty(wr)
    PROVE  Clean' = Clean
<1>1. job \in [Writers -> [pc : {"idle", "lock", "copy"}, lines : SUBSET Lines,
                           todo : SUBSET Lines, val : Contents]]
  BY DEF IInv, TypeOK
<1>2. /\ job[wr].pc = "copy" /\ job[wr].todo = {} /\ job' = [job EXCEPT ![wr] = Idle]
      /\ dirty' = dirty \cup job[wr].lines
  BY DEF MarkDirty
<1>3. \A x \in Writers \ {wr} : job'[x] = job[x] /\ job[x].pc # "copy"
  BY <1>1, <1>2 DEF IInv, SemOK
<1>4. job'[wr].pc = "idle" BY <1>1, <1>2 DEF Idle
<1>5. Unmarked' = {} BY <1>3, <1>4 DEF Unmarked
<1>6. Unmarked = job[wr].lines BY <1>2, <1>3, SMT DEF Unmarked
<1> QED BY <1>2, <1>5, <1>6 DEF Clean

\* The records of the writers are well-typed.
LEMMA JobType ==
    ASSUME IInv
    PROVE  /\ job \in [Writers -> [pc : {"idle", "lock", "copy"}, lines : SUBSET Lines,
                                    todo : SUBSET Lines, val : Contents]]
           /\ Idle \in [pc : {"idle", "lock", "copy"}, lines : SUBSET Lines,
                         todo : SUBSET Lines, val : Contents]
BY DEF IInv, TypeOK, Idle, Contents

\* write_block().
LEMMA WriterInv ==
    ASSUME IInv, NEW wr \in Writers,
           Writer(wr) \/ \E S \in Ranges, v \in Values : WriteBlock(wr, S, v)
    PROVE  IInv'
<1>0. job \in [Writers -> [pc : {"idle", "lock", "copy"}, lines : SUBSET Lines,
                           todo : SUBSET Lines, val : Contents]]
  BY JobType
<1>1. CASE \E S \in Ranges, v \in Values : WriteBlock(wr, S, v)
  <2> PICK S \in Ranges, v \in Values : WriteBlock(wr, S, v) BY <1>1
  <2>1. S \subseteq Lines /\ v \in Contents
    <3>1. PICK a \in Lines, b \in Lines : S = a .. b BY SMT DEF Ranges
    <3>2. S \subseteq Lines BY <3>1, HalAssumption, SMT DEF Lines
    <3> QED BY <3>2 DEF Contents
  <2>2. /\ job[wr].pc = "idle" /\ opened
        /\ job' = [job EXCEPT ![wr] = [pc |-> "lock", lines |-> S, todo |-> S, val |-> v]]
        /\ UNCHANGED <<buffer, dirty, opened, sem, tick, tmpline, out, device, recent>>
    BY DEF WriteBlock
  <2>3. budget' \in [writes : Nat, fails : Nat, cuts : Nat] BY SMT DEF WriteBlock, IInv, TypeOK
  <2>4. job' \in [Writers -> [pc : {"idle", "lock", "copy"}, lines : SUBSET Lines,
                              todo : SUBSET Lines, val : Contents]]
    BY <1>0, <2>1, <2>2
  <2>5. \A x \in Writers : x # wr => job'[x] = job[x] BY <1>0, <2>2
  <2>6. job'[wr] = [pc |-> "lock", lines |-> S, todo |-> S, val |-> v] BY <1>0, <2>2
  <2>7. SemOK' BY <2>2, <2>5, <2>6, SMT DEF IInv, SemOK
  <2>8. Clean' = Clean
    <3>1. Unmarked' = Unmarked BY <2>2, <2>5, <2>6, SMT DEF Unmarked
    <3> QED BY <2>2, <3>1 DEF Clean
  <2> QED BY <2>2, <2>3, <2>4, <2>7, <2>8
          DEF IInv, TypeOK, TickOK, RecentOK, FramOK, CleanIsDurable
<1>2. CASE Lock(wr)
  <2>1. /\ job[wr].pc = "lock" /\ sem = None /\ sem' = wr
        /\ job' = [job EXCEPT ![wr].pc = "copy"]
        /\ UNCHANGED <<buffer, dirty, opened, tick, tmpline, out, device, recent, budget>>
    BY <1>2 DEF Lock
  <2>2. \A x \in Writers : /\ job'[x].lines = job[x].lines /\ job'[x].todo = job[x].todo
                           /\ x # wr => job'[x].pc = job[x].pc
    BY <1>0, <2>1
  <2>3. job'[wr].pc = "copy" BY <1>0, <2>1
  <2>4. SemOK' BY <2>1, <2>2, <2>3, HalAssumption DEF IInv, SemOK
  <2>5. job' \in [Writers -> [pc : {"idle", "lock", "copy"}, lines : SUBSET Lines,
                              todo : SUBSET Lines, val : Contents]]
    BY <1>0, <2>1
  <2>6. Clean' = Clean BY <1>2, LockUnmarked
  <2>7. opened BY <2>1 DEF IInv, TickOK
  <2> QED BY <2>1, <2>4, <2>5, <2>6, <2>7
          DEF IInv, TypeOK, TickOK, RecentOK, FramOK, CleanIsDurable
<1>3. CASE CopyLine(wr)
  <2> PICK l \in job[wr].todo :
        /\ buffer' = [buffer EXCEPT ![l] = job[wr].val]
        /\ recent' = [recent EXCEPT ![l] = @ \cup {job[wr].val}]
        /\ job' = [job EXCEPT ![wr].todo = @ \ {l}]
    BY <1>3 DEF CopyLine
  <2>1. /\ job[wr].pc = "copy" /\ l \in Lines /\ job[wr].val \in Contents
        /\ UNCHANGED <<dirty, opened, sem, tick, tmpline, out, device, budget>>
    BY <1>0, <1>3 DEF CopyLine
  <2>2. \A x \in Writers : /\ job'[x].lines = job[x].lines /\ job'[x].pc = job[x].pc
                           /\ x # wr => job'[x].todo = job[x].todo
    BY <1>0
  <2>3. job'[wr].todo = job[wr].todo \ {l} BY <1>0
  <2>4. SemOK' BY <2>1, <2>2, <2>3, SMT DEF IInv, SemOK
  <2>5. job' \in [Writers -> [pc : {"idle", "lock", "copy"}, lines : SUBSET Lines,
                              todo : SUBSET Lines, val : Contents]]
    BY <1>0
  <2>6. Clean' = Clean \ {l} BY <2>1, CopyClean
  <2>7. buffer' \in [Lines -> Contents] /\ recent' \in [Lines -> SUBSET Contents]
    BY <2>1 DEF IInv, TypeOK
  <2>8. RecentOK' /\ \A k \in Lines : recent[k] \subseteq recent'[k]
    BY <2>1 DEF IInv, TypeOK, RecentOK
  <2>9. opened BY <2>1 DEF IInv, TickOK
  <2>10. ASSUME Backend = "FRAM" PROVE FramOK' /\ CleanIsDurable'
    <3>1. FramOK' BY <2>1, <2>8, <2>10 DEF IInv, TypeOK, FramOK
    <3>2. \A k \in Clean' : buffer'[k] = buffer[k] BY <2>6 DEF IInv, TypeOK, Clean
    <3> QED BY <2>1, <2>6, <2>10, <3>1, <3>2 DEF IInv, CleanIsDurable
  <2> QED BY <2>1, <2>4, <2>5, <2>7, <2>8, <2>9, <2>10 DEF IInv, TypeOK, TickOK
<1>4. CASE MarkDirty(wr)
  <2>1. /\ job[wr].pc = "copy" /\ job' = [job EXCEPT ![wr] = Idle]
        /\ dirty' = dirty \cup job[wr].lines /\ sem' = None
        /\ UNCHANGED <<buffer, opened, tick, tmpline, out, device, recent, budget>>
    BY <1>4 DEF MarkDirty
  <2>2. \A x \in Writers : x # wr => job'[x] = job[x] BY <1>0, <2>1
  <2>3. job'[wr] = Idle BY <1>0, <2>1
  <2>4. SemOK'
    <3>1. Idle.pc = "idle" /\ Idle.todo = {} /\ Idle.lines = {} BY DEF Idle
    <3>2. sem = wr BY <2>1 DEF IInv, SemOK
    <3> QED BY <2>1, <2>2, <2>3, <3>1, <3>2, HalAssumption DEF IInv, SemOK
  <2>5. job' \in [Writers -> [pc : {"idle", "lock", "copy"}, lines : SUBSET Lines,
                              todo : SUBSET Lines, val : Contents]]
    BY <1>0, <2>1, JobType
  <2>6. Clean' = Clean BY <1>4, MarkClean
  <2>7. opened /\ dirty' \subseteq Lines BY <1>0, <2>1 DEF IInv, TickOK, TypeOK
  <2> QED BY <2>1, <2>4, <2>5, <2>6, <2>7
          DEF IInv, TypeOK, TickOK, RecentOK, FramOK, CleanIsDurable
<1> QED BY <1>1, <1>2, <1>3, <1>4 DEF Writer

\* _timer_tick().
LEMMA TickInv ==
    ASSUME IInv, StorageThread \/ DeviceError
    PROVE  IInv'
<1>0. /\ tick \in [pc : PCs, line : Lines] /\ dirty \subseteq Lines
      /\ device \in [Lines -> Contents] /\ buffer \in [Lines -> Contents]
      /\ recent \in [Lines -> SUBSET Contents] /\ tmpline \in Contents /\ out \in Contents
  BY DEF IInv, TypeOK
<1>1. CASE NothingToWrite
  BY <1>1, SMT DEF NothingToWrite, vars, IInv, TypeOK, SemOK, TickOK, RecentOK, FramOK,
              CleanIsDurable, Clean, Unmarked
<1>2. CASE PickLine
  <2> PICK l \in dirty : tick' = [pc |-> "take", line |-> l] BY <1>2 DEF PickLine
  <2>1. /\ opened
        /\ UNCHANGED <<buffer, dirty, opened, sem, tmpline, out, job, device, recent, budget>>
    BY <1>2 DEF PickLine
  <2>2. tick' \in [pc : PCs, line : Lines] BY <1>0 DEF PCs
  <2> QED BY <2>1, <2>2, SMT DEF IInv, TypeOK, SemOK, TickOK, RecentOK, FramOK, CleanIsDurable,
                            Clean, Unmarked
<1>3. CASE TakeCopy
  <2>1. /\ tick.pc = "take" /\ tmpline' = buffer[tick.line]
        /\ tick' = [tick EXCEPT !.pc = "send"]
        /\ UNCHANGED <<buffer, dirty, opened, sem, out, job, device, recent, budget>>
    BY <1>3 DEF TakeCopy
  <2>2. tick' \in [pc : PCs, line : Lines] /\ tick'.line = tick.line /\ tick'.pc = "send"
    BY <1>0, <2>1 DEF PCs
  <2>3. tmpline' \in Contents /\ tmpline' \in recent[tick.line]
    BY <1>0, <2>1 DEF IInv, RecentOK
  <2> QED BY <2>1, <2>2, <2>3, SMT DEF IInv, TypeOK, SemOK, TickOK, RecentOK, FramOK,
                                  CleanIsDurable, Clean, Unmarked
<1>4. CASE Send
  <2>1. /\ tick.pc = "send" /\ out' \in Source
        /\ tick' = [tick EXCEPT !.pc = "commit"]
        /\ UNCHANGED <<buffer, dirty, opened, sem, tmpline, job, device, recent, budget>>
    BY <1>4 DEF Send
  <2>2. tick' \in [pc : PCs, line : Lines] /\ tick'.line = tick.line /\ tick'.pc = "commit"
    BY <1>0, <2>1 DEF PCs
  <2>3. out' \in Contents /\ (Backend = "FRAM" => out' = tmpline)
    BY <1>0, <2>1 DEF Source, Contents
  <2> QED BY <2>1, <2>2, <2>3, SMT DEF IInv, TypeOK, SemOK, TickOK, RecentOK, FramOK,
                                  CleanIsDurable, Clean, Unmarked
<1>5. CASE DeviceWrite
  <2>1. /\ tick.pc = "commit" /\ device' = [device EXCEPT ![tick.line] = out]
        /\ tick' = [tick EXCEPT !.pc = "check"]
        /\ UNCHANGED <<buffer, dirty, opened, sem, tmpline, out, job, recent, budget>>
    BY <1>5 DEF DeviceWrite
  <2>2. tick' \in [pc : PCs, line : Lines] /\ tick'.line = tick.line /\ tick'.pc = "check"
    BY <1>0, <2>1 DEF PCs
  <2>3. device' \in [Lines -> Contents] /\ device'[tick.line] = out BY <1>0, <2>1
  <2>4. opened /\ tick.line \in dirty BY <2>1 DEF IInv, TickOK
  <2>5. Clean' = Clean /\ \A l \in Clean : device'[l] = device[l]
    BY <1>0, <2>1, <2>4 DEF Clean, Unmarked
  <2> QED BY <2>1, <2>2, <2>3, <2>4, <2>5
          DEF IInv, TypeOK, SemOK, TickOK, RecentOK, FramOK, CleanIsDurable
<1>6. CASE DeviceError
  <2>1. /\ tick.pc = "commit" /\ device' \in {device, [device EXCEPT ![tick.line] = out]}
        /\ tick' = [tick EXCEPT !.pc = "idle"]
        /\ UNCHANGED <<buffer, dirty, opened, sem, tmpline, out, job, recent>>
    BY <1>6 DEF DeviceError
  <2>2. tick' \in [pc : PCs, line : Lines] /\ tick'.pc = "idle" BY <1>0, <2>1 DEF PCs
  <2>3. budget' \in [writes : Nat, fails : Nat, cuts : Nat]
    BY <1>6, SMT DEF DeviceError, IInv, TypeOK
  <2>4. opened /\ tick.line \in dirty BY <2>1 DEF IInv, TickOK
  <2>5. /\ device' \in [Lines -> Contents] /\ Clean' = Clean
        /\ \A l \in Clean : device'[l] = device[l]
    BY <1>0, <2>1, <2>4, SMT DEF Clean, Unmarked
  <2> QED BY <2>1, <2>2, <2>3, <2>4, <2>5
          DEF IInv, TypeOK, SemOK, TickOK, RecentOK, FramOK, CleanIsDurable
<1>7. CASE CheckLine
  <2>1. /\ tick.pc = "check" /\ sem = None /\ tick' = [tick EXCEPT !.pc = "idle"]
        /\ UNCHANGED <<buffer, opened, sem, tmpline, out, job, device, budget>>
    BY <1>7 DEF CheckLine
  <2>2. tick' \in [pc : PCs, line : Lines] /\ tick'.pc = "idle" BY <1>0, <2>1 DEF PCs
  <2>3. opened BY <2>1 DEF IInv, TickOK
  <2>4. CASE tmpline = buffer[tick.line]
    <3>1. /\ dirty' = dirty \ {tick.line}
          /\ recent' = [recent EXCEPT ![tick.line] = {buffer[tick.line]}]
      BY <1>7, <2>4 DEF CheckLine
    <3>2. Clean' \subseteq Clean \cup {tick.line} BY <2>1, <3>1 DEF Clean, Unmarked
    <3>3. ASSUME Backend = "FRAM" PROVE CleanIsDurable'
      <4>1. device[tick.line] = buffer[tick.line] BY <2>1, <2>4, <3>3 DEF IInv, FramOK
      <4> QED BY <2>1, <3>2, <3>3, <4>1 DEF IInv, CleanIsDurable
    <3>4. RecentOK' /\ recent' \in [Lines -> SUBSET Contents]
      BY <1>0, <2>1, <3>1 DEF IInv, RecentOK
    <3> QED BY <2>1, <2>2, <2>3, <3>1, <3>3, <3>4 DEF IInv, TypeOK, SemOK, TickOK, FramOK
  <2>5. CASE tmpline # buffer[tick.line]
    <3>1. UNCHANGED <<dirty, recent>> BY <1>7, <2>5 DEF CheckLine
    <3> QED BY <2>1, <2>2, <2>3, <3>1, SMT
            DEF IInv, TypeOK, SemOK, TickOK, RecentOK, FramOK, CleanIsDurable, Clean, Unmarked
  <2> QED BY <2>4, <2>5
<1> QED BY <1>1, <1>2, <1>3, <1>4, <1>5, <1>6, <1>7 DEF StorageThread

\* Power failures, and _storage_open() after them.
LEMMA PowerInv ==
    ASSUME IInv, PowerFailure \/ StorageOpen
    PROVE  IInv' /\ Unmarked' = {} /\ dirty' = {}
<1>1. CASE PowerFailure
  <2>1. /\ opened' = FALSE /\ sem' = None /\ tick' = [pc |-> "idle", line |-> 0]
        /\ job' = [wr \in Writers |-> Idle] /\ buffer' = device /\ dirty' = {}
        /\ recent' = [l \in Lines |-> {device[l]}]
        /\ UNCHANGED <<tmpline, out, device>>
    BY <1>1 DEF PowerFailure
  <2>2. budget' \in [writes : Nat, fails : Nat, cuts : Nat]
    BY <1>1, SMT DEF PowerFailure, IInv, TypeOK
  <2>3. \A wr \in Writers : job'[wr].pc = "idle" /\ job'[wr].todo = {} /\ job'[wr].lines = {}
    BY <2>1 DEF Idle
  <2>4. job' \in [Writers -> [pc : {"idle", "lock", "copy"}, lines : SUBSET Lines,
                              todo : SUBSET Lines, val : Contents]]
    BY <2>1, JobType
  <2>5. tick' \in [pc : PCs, line : Lines] BY <2>1, HalAssumption, SMT DEF PCs, Lines
  <2>6. Unmarked' = {} BY <2>3 DEF Unmarked
  <2>7. recent' \in [Lines -> SUBSET Contents] /\ RecentOK'
    BY <2>1, SMT DEF IInv, TypeOK, RecentOK
  <2>8. SemOK' BY <2>1, <2>3, HalAssumption DEF SemOK
  <2> QED BY <2>1, <2>2, <2>3, <2>4, <2>5, <2>6, <2>7, <2>8
          DEF IInv, TypeOK, TickOK, FramOK, CleanIsDurable
<1>2. CASE StorageOpen
  <2>1. /\ ~opened /\ opened' = TRUE /\ dirty' = {} /\ buffer' = device
        /\ UNCHANGED <<sem, tick, tmpline, out, job, device, recent, budget>>
    BY <1>2 DEF StorageOpen
  <2>2. /\ tick.pc = "idle" /\ dirty = {} /\ buffer = device
        /\ \A wr \in Writers : job[wr].pc = "idle"
    BY <2>1 DEF IInv, TickOK
  <2>3. Unmarked' = {} BY <2>1, <2>2 DEF Unmarked
  <2>4. opened' \in BOOLEAN BY <2>1
  <2> QED BY <2>1, <2>2, <2>3, <2>4
          DEF IInv, TypeOK, SemOK, TickOK, RecentOK, FramOK, CleanIsDurable
<1> QED BY <1>1, <1>2

\* The invariant holds in the beginning.
LEMMA InitInv == Init => IInv
<1> SUFFICES ASSUME Init PROVE IInv OBVIOUS
<1>1. \A wr \in Writers : job[wr].pc = "idle" /\ job[wr].todo = {} /\ job[wr].lines = {}
  BY DEF Init, Idle
<1>2. TypeOK
  <2>1. tick \in [pc : PCs, line : Lines] BY HalAssumption, SMT DEF Init, PCs, Lines
  <2>2. Idle \in [pc : {"idle", "lock", "copy"}, lines : SUBSET Lines,
                  todo : SUBSET Lines, val : Contents]
    BY DEF Idle, Contents
  <2>3. budget \in [writes : Nat, fails : Nat, cuts : Nat] BY HalAssumption DEF Init
  <2>4. device \in [Lines -> Contents] /\ buffer = device BY DEF Init, Contents
  <2> QED BY <2>1, <2>2, <2>3, <2>4 DEF Init, TypeOK, Contents
<1>3. SemOK BY <1>1, HalAssumption DEF Init, SemOK
<1> QED BY <1>1, <1>2, <1>3 DEF Init, IInv, TickOK, RecentOK, FramOK, CleanIsDurable

\* Every step keeps the invariant.
LEMMA StepInv == IInv /\ [Next]_vars => IInv'
<1> SUFFICES ASSUME IInv, [Next]_vars PROVE IInv' OBVIOUS
<1>1. CASE Next BY <1>1, WriterInv, TickInv, PowerInv DEF Next
<1>2. CASE UNCHANGED vars
  BY <1>2, SMT DEF vars, IInv, TypeOK, SemOK, TickOK, RecentOK, FramOK, CleanIsDurable, Clean,
     Unmarked
<1> QED BY <1>1, <1>2

\* The inductive invariant holds in every state.
THEOREM Invariance == Spec => []IInv
BY InitInv, StepInv, PTL DEF Spec

\* Whatever the backend, every variable keeps its type.
THEOREM TypeCorrect == Spec => []TypeOK
<1>1. IInv => TypeOK BY DEF IInv
<1> QED BY <1>1, Invariance, PTL

\* On FRAM a line that is not dirty is up to date on the device, whatever the
\* writers do while _timer_tick() writes it.
THEOREM FramCleanIsDurable ==
    ASSUME Backend = "FRAM"
    PROVE  Spec => []CleanIsDurable
<1>1. IInv => CleanIsDurable BY DEF IInv
<1> QED BY <1>1, Invariance, PTL

\* The initial states are those of the durable store.
LEMMA InitRefines == Init => Store!Init
<1> SUFFICES ASSUME Init PROVE Store!Init OBVIOUS
<1>1. \A wr \in Writers : job[wr].pc = "idle" BY DEF Init, Idle
<1>2. Clean = Lines BY <1>1 DEF Init, Clean, Unmarked
<1> QED BY <1>2 DEF Init, Store!Init, Contents

\* Every step on FRAM is a step of the durable store or leaves it alone.
LEMMA StepRefines ==
    ASSUME Backend = "FRAM", IInv, [Next]_vars
    PROVE  [Store!Next]_(Store!storeVars)
<1> USE DEF Store!storeVars
<1>0. /\ tick \in [pc : PCs, line : Lines] /\ FramOK
      /\ job \in [Writers -> [pc : {"idle", "lock", "copy"}, lines : SUBSET Lines,
                              todo : SUBSET Lines, val : Contents]]
  BY DEF IInv, TypeOK
<1>1. ASSUME NEW wr \in Writers, NEW S \in Ranges, NEW v \in Values, WriteBlock(wr, S, v)
      PROVE  UNCHANGED Store!storeVars
  <2>1. \A x \in Writers : x # wr => job'[x] = job[x] BY <1>0, <1>1 DEF WriteBlock
  <2>2. job[wr].pc = "idle" /\ job'[wr].pc = "lock" BY <1>0, <1>1 DEF WriteBlock
  <2>3. Unmarked' = Unmarked BY <2>1, <2>2 DEF Unmarked
  <2> QED BY <1>1, <2>3 DEF WriteBlock, Clean
<1>2. ASSUME NEW wr \in Writers, Lock(wr) PROVE UNCHANGED Store!storeVars
  BY <1>2, LockUnmarked DEF Lock
<1>3. ASSUME NEW wr \in Writers, CopyLine(wr) PROVE Store!Next
  <2> PICK l \in job[wr].todo :
        /\ buffer' = [buffer EXCEPT ![l] = job[wr].val]
        /\ recent' = [recent EXCEPT ![l] = @ \cup {job[wr].val}]
        /\ job' = [job EXCEPT ![wr].todo = @ \ {l}]
    BY <1>3 DEF CopyLine
  <2>1. job[wr].pc = "copy" /\ dirty' = dirty /\ device' = device BY <1>3 DEF CopyLine
  <2>2. Clean' = Clean \ {l} BY <2>1, CopyClean
  <2>3. l \in Lines /\ job[wr].val \in Contents BY <1>0
  <2>4. Store!Change(l, job[wr].val) BY <2>1, <2>2 DEF Store!Change
  <2> QED BY <2>3, <2>4 DEF Store!Next
<1>4. ASSUME NEW wr \in Writers, MarkDirty(wr) PROVE UNCHANGED Store!storeVars
  BY <1>4, MarkClean DEF MarkDirty
<1>5. CASE NothingToWrite \/ PickLine \/ TakeCopy \/ Send
  BY <1>5 DEF NothingToWrite, PickLine, TakeCopy, Send, vars, Clean, Unmarked
<1>6. CASE DeviceWrite \/ DeviceError
  <2>1. /\ tick.pc = "commit" /\ device' \in {device, [device EXCEPT ![tick.line] = out]}
        /\ UNCHANGED <<buffer, recent, Clean>>
    BY <1>6, SMT DEF DeviceWrite, DeviceError, Clean, Unmarked
  <2>2. tick.line \in Lines /\ tick.line \notin Clean /\ out \in recent[tick.line]
    BY <1>0, <2>1 DEF IInv, TickOK, FramOK, Clean
  <2>3. CASE device' = device BY <2>1, <2>3
  <2>4. CASE device' = [device EXCEPT ![tick.line] = out]
    <3>1. Store!Persist(tick.line) BY <2>1, <2>2, <2>4 DEF Store!Persist
    <3> QED BY <2>2, <3>1 DEF Store!Next
  <2> QED BY <2>1, <2>3, <2>4
<1>7. CASE CheckLine
  <2>1. /\ tick.pc = "check" /\ sem = None /\ UNCHANGED <<buffer, device, job>>
        /\ device[tick.line] = tmpline /\ tick.line \in dirty /\ tick.line \in Lines
    BY <1>0, <1>7 DEF CheckLine, IInv, TickOK, FramOK
  <2>2. Unmarked = {} /\ Unmarked' = {}
    <3>1. Unmarked = {} BY <2>1, NoneUnmarked DEF IInv
    <3> QED BY <2>1, <3>1 DEF Unmarked
  <2>3. CASE tmpline = buffer[tick.line]
    <3>1. /\ dirty' = dirty \ {tick.line}
          /\ recent' = [recent EXCEPT ![tick.line] = {buffer[tick.line]}]
      BY <1>7, <2>3 DEF CheckLine
    <3>2. Clean' = Clean \cup {tick.line} /\ tick.line \notin Clean
      BY <2>1, <2>2, <3>1 DEF Clean
    <3>3. Store!Settle(tick.line) BY <2>1, <2>3, <3>1, <3>2 DEF Store!Settle
    <3> QED BY <2>1, <3>3 DEF Store!Next
  <2>4. CASE tmpline # buffer[tick.line]
    BY <1>7, <2>1, <2>2, <2>4 DEF CheckLine, Clean
  <2> QED BY <2>3, <2>4
<1>8. CASE PowerFailure
  <2>1. Clean' = Lines BY <1>8, PowerInv DEF Clean
  <2>2. Store!PowerFailure BY <1>8, <2>1 DEF PowerFailure, Store!PowerFailure
  <2> QED BY <2>2 DEF Store!Next
<1>9. CASE StorageOpen
  <2>1. Clean' = Lines BY <1>9, PowerInv DEF Clean
  <2>2. Clean = Lines /\ buffer = device
    BY <1>9 DEF StorageOpen, IInv, TickOK, Clean, Unmarked
  <2> QED BY <1>9, <2>1, <2>2 DEF StorageOpen
<1>10. CASE UNCHANGED vars BY <1>10 DEF vars, Clean, Unmarked
<1> QED BY <1>1, <1>2, <1>3, <1>4, <1>5, <1>6, <1>7, <1>8, <1>9, <1>10
        DEF Next, StorageThread, Writer

\* On FRAM the cache, its semaphore and its storage thread implement the
\* abstract durable store: after a power failure every line has its last
\* settled value or a newer one, and a clean line has its last value.
THEOREM FramImplementsStore ==
    ASSUME Backend = "FRAM"
    PROVE  Spec => ImplementsStore
<1>1. Spec => []IInv BY Invariance
<1>2. IInv /\ [Next]_vars => [Store!Next]_(Store!storeVars) BY StepRefines
<1> QED BY <1>1, <1>2, InitRefines, PTL DEF Spec, ImplementsStore, Store!Spec
-----------------------------------------------------------------------------
(* The node IDs                                                            *)

\* The database alone.
Stored == Uids \cup {NoUid, TornUid}

\* The inductive invariant: what the records can be, that node_registered agrees with
\* them, and that no unique ID is registered twice before a restart revives a record.
DBInv ==
    /\ records \in [NodeIds -> Stored] /\ saved \in [NodeIds -> Stored]
    /\ RegisteredIsStored /\ OneNodeIdEach

\* A set of node IDs has a highest one: the loop from MAX_NODE_ID down finds it.
LEMMA HasHighest ==
    ASSUME NEW F \in SUBSET NodeIds, F # {}
    PROVE  \E i \in F : \A j \in F : j <= i
<1> DEFINE T == {MaxNodeId - i : i \in F}
<1>1. F \subseteq Int /\ \A i \in F : i <= MaxNodeId
  BY DNAAssumption, SMT DEF NodeIds
<1>2. \A i \in F : MaxNodeId - i \in Nat
  BY <1>1, DNAAssumption, SMT
<1>3. T \subseteq Nat /\ T # {}
  BY <1>2
<1> HIDE DEF T
<1>4. PICK x \in T : \A y \in T : x <= y
  <2>1. PICK x \in T : \A y \in T : ~(<<y, x>> \in OpToRel(<, Nat))
    BY <1>3, WFMin, NatLessThanWellFounded
  <2>2. ASSUME NEW y \in T PROVE x <= y
    <3>1. y \in Nat /\ x \in Nat
      BY <1>3
    <3>2. y < x => <<y, x>> \in OpToRel(<, Nat)
      BY <3>1 DEF OpToRel
    <3>3. ~(y < x)
      BY <2>1, <3>2
    <3> QED BY <3>1, <3>3, SMT
  <2> QED BY <2>2
<1> USE DEF T
<1>5. PICK i \in F : x = MaxNodeId - i
  BY <1>4
<1>6. ASSUME NEW j \in F PROVE j <= i
  <2>1. MaxNodeId - i <= MaxNodeId - j
    BY <1>4, <1>5
  <2> QED BY <2>1, <1>1, DNAAssumption, SMT
<1> QED BY <1>6

\* find_node_id() returns 0 only if the unique ID is not registered, and otherwise a
\* node ID that is registered with it.
LEMMA FindsIt ==
    ASSUME DBInv, NEW u \in Uids
    PROVE  \/ find_node_id(u) = 0 /\ \A i \in registered : records[i] # u
           \/ find_node_id(u) \in registered /\ records[find_node_id(u)] = u
<1> DEFINE S == {i \in registered : records[i] = u}
<1>1. CASE S = {}
  BY <1>1 DEF find_node_id
<1>2. CASE S # {}
  <2>1. S \in SUBSET NodeIds
    BY DEF DBInv, RegisteredIsStored
  <2>2. \E k \in S : \A j \in S : j <= k
    BY <1>2, <2>1, HasHighest
  <2>3. find_node_id(u) \in S
    BY <1>2, <2>2 DEF find_node_id
  <2> QED BY <2>3
<1> QED BY <1>1, <1>2

\* register_uid() leaves one node ID for each unique ID.
LEMMA RegisterKeeps ==
    ASSUME DBInv, NEW i \in NodeIds, NEW u \in Uids, register_uid(i, u),
           UNCHANGED <<saved, revived>>
    PROVE  DBInv'
<1> USE DNAAssumption
<1>1. records' \in [NodeIds -> Stored]
  BY DEF DBInv, register_uid, Stored
<1>2. RegisteredIsStored'
  BY FindsIt DEF DBInv, RegisteredIsStored, register_uid, NodeIds
<1>3. OneNodeIdEach'
  <2> SUFFICES ASSUME UniqueOnce PROVE UniqueOnce' BY DEF DBInv, OneNodeIdEach
  <2>1. ASSUME NEW j \in registered', j # i
        PROVE  /\ j \in registered /\ j \in NodeIds /\ j # find_node_id(u)
               /\ records'[j] = records[j]
    BY <2>1 DEF DBInv, RegisteredIsStored, register_uid
  <2>2. ASSUME NEW j \in registered, records[j] = u PROVE j = find_node_id(u)
    <3>1. find_node_id(u) \in registered /\ records[find_node_id(u)] = u BY <2>2, FindsIt
    <3> QED BY <2>2, <3>1 DEF UniqueOnce
  <2>3. records'[i] = u BY DEF register_uid
  <2> QED BY <2>1, <2>2, <2>3 DEF UniqueOnce
<1> QED BY <1>1, <1>2, <1>3 DEF DBInv

\* Every method of the database, and every start, keeps the invariant.
LEMMA DBInductive == DBInv /\ [DBNext]_dbVars => DBInv'
<1> SUFFICES ASSUME DBInv, [DBNext]_dbVars PROVE DBInv'
  OBVIOUS
<1> USE DNAAssumption
<1>1. CASE reset
  BY <1>1 DEF reset, DBInv, RegisteredIsStored, OneNodeIdEach, UniqueOnce, Stored
<1>2. CASE Restart
  <2>1. RegisteredIsStored' /\ records' \in [NodeIds -> Stored] /\ saved' \in [NodeIds -> Stored]
    BY <1>2 DEF Restart, DBInv, RegisteredIsStored, check_registration
  <2>2. ASSUME ~revived', NEW i \in registered' PROVE i \in registered /\ records'[i] = records[i]
    BY <1>2, <2>2 DEF Restart, DBInv, RegisteredIsStored, check_registration
  <2>3. ~revived' => ~revived
    BY <1>2 DEF Restart
  <2>4. OneNodeIdEach'
    BY <2>2, <2>3 DEF DBInv, OneNodeIdEach, UniqueOnce
  <2> QED BY <2>1, <2>4 DEF DBInv
<1>3. ASSUME NEW i \in NodeIds, Save(i) PROVE DBInv'
  <2>1. PICK x \in Stored : saved' = [saved EXCEPT ![i] = x]
    BY <1>3 DEF Save, DBInv, Stored
  <2> QED BY <1>3, <2>1 DEF Save, DBInv, RegisteredIsStored, OneNodeIdEach, UniqueOnce
<1>4. ASSUME NEW u \in Uids, handle_allocation(u) PROVE DBInv'
  <2>1. CASE find_node_id(u) = 0 /\ Free # {}
    <3>1. 0 \notin registered
      BY SMT DEF DBInv, RegisteredIsStored, NodeIds
    <3>2. \A j \in registered : records[j] # u
      BY <2>1, <3>1, FindsIt
    <3>3. PICK i \in NodeIds : create_registration(i, u)
      <4>1. \E i \in Free : \A j \in Free : j <= i
        BY <2>1, HasHighest DEF Free
      <4> QED BY <4>1, <2>1, <1>4 DEF handle_allocation, HighestFree, Free
    <3>4. records' \in [NodeIds -> Stored]
      BY <3>3 DEF create_registration, DBInv, Stored
    <3>5. RegisteredIsStored' /\ OneNodeIdEach'
      <4>1. UNCHANGED revived BY <1>4 DEF handle_allocation
      <4>2. RegisteredIsStored' /\ (UniqueOnce => UniqueOnce')
        BY <3>2, <3>3, SMT DEF create_registration, DBInv, RegisteredIsStored, UniqueOnce
      <4> QED BY <4>1, <4>2 DEF DBInv, OneNodeIdEach
    <3> QED BY <3>4, <3>5, <1>4 DEF DBInv, handle_allocation
  <2>2. CASE ~(find_node_id(u) = 0 /\ Free # {})
    BY <2>2, <1>4 DEF handle_allocation, DBInv, RegisteredIsStored, OneNodeIdEach, UniqueOnce
  <2> QED BY <2>1, <2>2
<1>5. ASSUME NEW i \in NodeIds, NEW u \in Uids, init_server(i, u) PROVE DBInv'
  BY <1>5, RegisterKeeps DEF init_server, DBInv, RegisteredIsStored, OneNodeIdEach, UniqueOnce
<1>6. ASSUME NEW i \in NodeIds, NEW u \in Uids, handle_node_info(i, u) PROVE DBInv'
  BY <1>6, RegisterKeeps DEF handle_node_info, DBInv, RegisteredIsStored, OneNodeIdEach, UniqueOnce
<1>7. CASE UNCHANGED dbVars
  BY <1>7 DEF dbVars, DBInv, RegisteredIsStored, OneNodeIdEach, UniqueOnce
<1> QED BY <1>1, <1>2, <1>3, <1>4, <1>5, <1>6, <1>7 DEF DBNext

\* The invariant holds in a new storage.
LEMMA DBInitial == DBInit => DBInv
BY DNAAssumption DEF DBInit, DBInv, RegisteredIsStored, OneNodeIdEach, UniqueOnce, Stored

\* A unique ID never has two node IDs, whatever methods the servers call and however often
\* the autopilot restarts, until a restart brings back a record that had been deleted or
\* replaced but not durably so.
THEOREM OneEach == DBSpec => []OneNodeIdEach
<1>1. DBInv => OneNodeIdEach
  BY DEF DBInv
<1> QED BY <1>1, DBInitial, DBInductive, PTL DEF DBSpec

\* node_registered, which is read from storage only at a start, is always what the
\* records say.
THEOREM BitsAgree == DBSpec => []RegisteredIsStored
<1>1. DBInv => RegisteredIsStored
  BY DEF DBInv
<1> QED BY <1>1, DBInitial, DBInductive, PTL DEF DBSpec

\* handle_allocation() never takes a node ID from the unique ID that has it.
THEOREM TakesNone == DBSpec => AllocationTakesNone
<1>1. ASSUME DBInv, NEW u \in Uids, handle_allocation(u), NEW i \in registered
      PROVE  i \in registered' /\ records'[i] = records[i]
  <2>1. CASE find_node_id(u) = 0 /\ Free # {}
    <3>1. HighestFree \in Free
      <4>1. \E k \in Free : \A j \in Free : j <= k
        BY <2>1, HasHighest DEF Free
      <4> QED BY <4>1 DEF HighestFree
    <3>2. HighestFree # i
      BY <3>1, <1>1 DEF Free
    <3>3. i \in NodeIds
      BY <1>1 DEF DBInv, RegisteredIsStored
    <3> QED BY <1>1, <2>1, <3>2, <3>3 DEF handle_allocation, create_registration, DBInv
  <2>2. CASE ~(find_node_id(u) = 0 /\ Free # {})
    BY <1>1, <2>2 DEF handle_allocation
  <2> QED BY <2>1, <2>2
<1>2. DBInv /\ [DBNext]_dbVars
      => [\A u \in Uids : handle_allocation(u) =>
             \A i \in registered : i \in registered' /\ records'[i] = records[i]]_dbVars
  BY <1>1
<1> QED BY <1>2, DBInitial, DBInductive, PTL DEF DBSpec, AllocationTakesNone

-----------------------------------------------------------------------------
Start == {s \in Seq(UidBytes) : Len(s) <= UidLen}
Reply == [uid : Start, id : 0 .. MaxNodeId]

NetType ==
    /\ node \in [Nodes -> [id : 0 .. MaxNodeId, ofs : Nat]]
    /\ given \in [Nodes -> 0 .. MaxNodeId] /\ forgot \subseteq Nodes
    /\ up \subseteq Buses
    /\ rcvd \in [Buses -> Seq(UidBytes)] /\ replies \in [Buses -> Seq(Reply)]

\* A node keeps the node ID it was given.
IdsKept == \A u \in Nodes : given[u] # 0 => node[u].id \in {0, given[u]}

\* A server that is not up has nothing to send.
DownIsSilent == \A b \in Buses \ up : replies[b] = <<>>

\* A node ID on its way to a node that waits for it is registered for that node, unless
\* the database has forgotten the node.
TrueOf(rp, b) ==
    Len(rp.uid) = UidLen /\ rp.uid \in Waiting(b) \ forgot =>
        rp.id \in NodeIds /\ records[rp.id] = rp.uid
RepliesTrue == \A b \in Buses : \A k \in 1 .. Len(replies[b]) : TrueOf(replies[b][k], b)

\* The inductive invariant.
DNAInv == DBInv /\ NetType /\ IdsKept /\ DownIsSilent /\ RepliesTrue /\ RemembersNodes
-----------------------------------------------------------------------------
\* The unique IDs are the sequences of their length.
LEMMA UidSeqs ==
    /\ \A u \in Uids : u \in Seq(UidBytes) /\ Len(u) = UidLen
    /\ \A s \in Seq(UidBytes) : Len(s) = UidLen => s \in Uids
BY AllocationAssumption, SMT

\* What a node makes of an answer: it gets a node ID only with its whole unique ID.
LEMMA HearsOwn ==
    ASSUME NetType, NEW u \in Nodes, NEW rp \in Reply, node[u].id = 0
    PROVE  /\ Hears(u, rp) \in [id : 0 .. MaxNodeId, ofs : Nat]
           /\ Hears(u, rp).id # 0 => Len(rp.uid) = UidLen /\ rp.uid = u /\ Hears(u, rp).id = rp.id
<1>1. u \in Seq(UidBytes) /\ Len(u) = UidLen /\ UidLen \in Nat
  BY UidSeqs, AllocationAssumption
<1>2. SubSeq(u, 1, UidLen) = u
  <2>1. SubSeq(u, 1, Len(u)) = u
    BY <1>1, SubSeqFull
  <2> QED BY <1>1, <2>1
<1>3. node[u] \in [id : 0 .. MaxNodeId, ofs : Nat] /\ Len(rp.uid) \in Nat
  <2>1. rp.uid \in Seq(UidBytes)
    BY DEF Reply, Start
  <2> QED BY <2>1, SMT DEF NetType
<1>4. CASE SubSeq(u, 1, Len(rp.uid)) # rp.uid
  BY <1>3, <1>4 DEF Hears
<1>5. CASE SubSeq(u, 1, Len(rp.uid)) = rp.uid /\ Len(rp.uid) < UidLen
  BY <1>3, <1>5 DEF Hears
<1>6. CASE SubSeq(u, 1, Len(rp.uid)) = rp.uid /\ ~(Len(rp.uid) < UidLen)
  <2>1. Len(rp.uid) = UidLen
    BY <1>1, <1>3, <1>6, SMT DEF Reply, Start
  <2>2. rp.uid = u
    BY <2>1, <1>2, <1>6
  <2>3. Hears(u, rp) = [node[u] EXCEPT !.id = rp.id] /\ rp.id \in 0 .. MaxNodeId
    BY <1>6 DEF Hears, Reply
  <2> QED BY <1>3, <2>1, <2>2, <2>3
<1> QED BY <1>4, <1>5, <1>6

\* What the server has of a unique ID is a start of one.
LEMMA SoFarIsStart ==
    ASSUME NetType, NEW u \in Nodes, NEW b \in Buses, NEW first \in BOOLEAN, NEW late \in BOOLEAN
    PROVE  SoFar(b, first, PartOf(u, node[u].ofs), late) \in Start
<1> DEFINE ofs == node[u].ofs
           last == IF ofs + PartLen < UidLen THEN ofs + PartLen ELSE UidLen
           part == PartOf(u, ofs)
           old == IF first \/ late THEN <<>> ELSE rcvd[b]
<1>1. ofs \in Nat /\ UidLen \in Nat /\ PartLen \in Nat
  BY AllocationAssumption DEF NetType
<1>2. last \in Int /\ last <= UidLen
  BY <1>1, SMT
<1>3. \A i \in ofs + 1 .. last : u[i] \in UidBytes
  BY <1>1, <1>2, AllocationAssumption, SMT
<1>4. part \in Seq(UidBytes)
  BY <1>1, <1>2, <1>3, SubSeqProperties, SMT DEF PartOf
<1>5. old \in Seq(UidBytes) /\ <<>> \in Start
  BY <1>1, SMT DEF NetType, Start
<1>6. old \o part \in Seq(UidBytes)
  BY <1>4, <1>5, SMT
<1> HIDE DEF part, ofs
<1>7. SoFar(b, first, part, late) \in Start
  BY <1>1, <1>5, <1>6, SMT DEF SoFar, Start
<1> QED BY <1>7 DEF part, ofs

\* An allocation keeps what is registered, and what it returns is registered.
LEMMA AllocatesTrue ==
    ASSUME DBInv, NEW u \in Uids, handle_allocation(u)
    PROVE  /\ Allocated(u) # 0 => Allocated(u) \in NodeIds /\ records'[Allocated(u)] = u
           /\ \A i \in registered : records'[i] = records[i]
<1>1. 0 \notin registered /\ registered \subseteq NodeIds
  BY SMT DEF DBInv, RegisteredIsStored, NodeIds
<1>2. CASE find_node_id(u) = 0 /\ Free # {}
  <2>1. \E k \in Free : \A j \in Free : j <= k
    BY <1>2, HasHighest DEF Free
  <2>2. HighestFree \in Free
    BY <2>1 DEF HighestFree
  <2>3. records' = [records EXCEPT ![HighestFree] = u] /\ HighestFree \in NodeIds \ registered
    BY <1>2, <2>2 DEF handle_allocation, create_registration, Free
  <2> QED BY <1>1, <1>2, <2>3 DEF Allocated, DBInv
<1>3. CASE ~(find_node_id(u) = 0 /\ Free # {})
  BY <1>1, <1>3, FindsIt DEF handle_allocation, Allocated, DBInv
<1> QED BY <1>2, <1>3

\* register_uid() leaves the records of other unique IDs alone, but for the one it
\* overwrites.
LEMMA RegisterLeaves ==
    ASSUME DBInv, NEW i \in NodeIds, NEW u \in Uids, register_uid(i, u),
           NEW j \in NodeIds, j # i, records[j] # u
    PROVE  records'[j] = records[j]
<1>1. find_node_id(u) # j
  <2>1. 0 \notin NodeIds
    BY SMT DEF NodeIds
  <2> QED BY <2>1, FindsIt
<1> QED BY <1>1 DEF register_uid
-----------------------------------------------------------------------------
\* Every step of the servers and nodes is one of the database, or leaves it alone.
LEMMA DBStep == NetType /\ [DNANext]_dnaVars => [DBNext]_dbVars
<1> SUFFICES ASSUME NetType, [DNANext]_dnaVars PROVE [DBNext]_dbVars
  OBVIOUS
<1>1. ASSUME NEW u \in Nodes, NEW missed \in BOOLEAN, NEW late \in BOOLEAN,
             NEW M \in SUBSET Waiting(BusOf[u]), can_do_dna(u, M, missed, late)
      PROVE  [DBNext]_dbVars
  <2> DEFINE b == BusOf[u]
             uid == SoFar(b, node[u].ofs = 0, PartOf(u, node[u].ofs), late)
  <2>1. b \in Buses
    BY AllocationAssumption
  <2>2. uid \in Start
    BY <2>1, SoFarIsStart
  <2>3. Len(uid) = UidLen => uid \in Uids
    BY <2>2, UidSeqs DEF Start
  <2>4. (Len(uid) = UidLen /\ handle_allocation(uid)) \/ UNCHANGED dbVars
    BY <1>1 DEF can_do_dna, handle_allocation_msg, dbVars
  <2> QED BY <2>3, <2>4 DEF DBNext
<1>2. ASSUME NEW b \in Buses, init(b) PROVE [DBNext]_dbVars
  BY <1>2, AllocationAssumption DEF init, DBNext
<1>3. ASSUME NEW b \in Buses, NEW M \in SUBSET Waiting(b), handle_allocation_response(b, M)
      PROVE  [DBNext]_dbVars
  BY <1>3 DEF handle_allocation_response, dbVars
<1>4. ASSUME NEW u \in Nodes, NodeInfo(u) PROVE [DBNext]_dbVars
  <2>1. node[u].id \in NodeIds /\ u \in Uids
    BY <1>4, AllocationAssumption, DNAAssumption, SMT DEF NodeInfo, NetType, NodeIds
  <2> QED BY <1>4, <2>1 DEF NodeInfo, DBNext
<1>5. ASSUME NEW u \in Nodes, NEW id \in NewIds, NodeRestarts(u, id) PROVE [DBNext]_dbVars
  BY <1>5 DEF NodeRestarts, dbVars
<1>6. ASSUME NEW b \in Buses, ClearDatabase(b) PROVE [DBNext]_dbVars
  BY <1>6 DEF ClearDatabase, DBNext
<1>7. ASSUME PowerCycle PROVE [DBNext]_dbVars
  BY <1>7 DEF PowerCycle, DBNext
<1>8. ASSUME NEW i \in NodeIds, SaveRecord(i) PROVE [DBNext]_dbVars
  BY <1>8 DEF SaveRecord, DBNext
<1>9. CASE UNCHANGED dnaVars
  BY <1>9 DEF dnaVars, dbVars
<1> QED BY <1>1, <1>2, <1>3, <1>4, <1>5, <1>6, <1>7, <1>8, <1>9 DEF DNANext, Boot
-----------------------------------------------------------------------------
\* A record of a node is registered.
LEMMA NodeRegistered ==
    ASSUME DBInv, NEW i \in NodeIds, records[i] \in Nodes \cup {OwnUid}
    PROVE  i \in registered
BY AllocationAssumption DEF DBInv, RegisteredIsStored

\* Nobody gets or loses a node ID, and what is registered stays: the nodes are
\* remembered if the answers that are new are true.
LEMMA KeepsRegistered ==
    ASSUME DNAInv, NetType', UNCHANGED <<given, forgot, up, bare>>,
           \A u \in Nodes : node'[u].id = node[u].id,
           \A i \in registered : records'[i] = records[i],
           \A b \in Buses : \A k \in 1 .. Len(replies'[b]) :
               \/ k \in 1 .. Len(replies[b]) /\ replies'[b][k] = replies[b][k]
               \/ TrueOf(replies[b][k], b)'
    PROVE  IdsKept' /\ RepliesTrue' /\ RemembersNodes'
<1> USE DEF DNAInv
<1>1. IdsKept'
  BY DEF IdsKept
<1>2. RepliesTrue'
  <2> SUFFICES ASSUME NEW b \in Buses, NEW k \in 1 .. Len(replies'[b])
               PROVE  TrueOf(replies[b][k], b)'
    BY DEF RepliesTrue
  <2>1. CASE TrueOf(replies[b][k], b)'
    BY <2>1
  <2>2. CASE k \in 1 .. Len(replies[b]) /\ replies'[b][k] = replies[b][k]
    <3> DEFINE rp == replies[b][k]
    <3>1. TrueOf(rp, b)
      BY <2>2 DEF RepliesTrue
    <3>2. Waiting(b)' = Waiting(b)
      BY DEF Waiting, OnBus
    <3>3. rp.id \in NodeIds /\ records[rp.id] = rp.uid /\ rp.uid \in Waiting(b) \ forgot
          => records'[rp.id] = records[rp.id]
      BY NodeRegistered DEF Waiting, OnBus
    <3> QED BY <2>2, <3>1, <3>2, <3>3 DEF TrueOf
  <2> QED BY <2>1, <2>2
<1>3. RemembersNodes'
  <2>1. ASSUME NEW u \in Nodes \ forgot, given[u] # 0 PROVE records'[given[u]] = u
    <3>1. given[u] \in NodeIds /\ records[given[u]] = u
      BY <2>1, DNAAssumption, SMT DEF RemembersNodes, NetType, NodeIds
    <3> QED BY <3>1, NodeRegistered
  <2>2. up # {} /\ ~bare => records'[OwnId] = OwnUid
    BY NodeRegistered, AllocationAssumption DEF RemembersNodes
  <2> QED BY <2>1, <2>2 DEF RemembersNodes
<1> QED BY <1>1, <1>2, <1>3

\* An answer that is added to the queue is the only one that is new.
LEMMA AnswerAdds ==
    ASSUME NetType, NEW b \in Buses, NEW rp \in Reply,
           replies' = [replies EXCEPT ![b] = Append(@, rp)],
           Len(rp.uid) = UidLen => rp.id \in NodeIds /\ records'[rp.id] = rp.uid
    PROVE  /\ replies' \in [Buses -> Seq(Reply)] /\ \A c \in Buses \ {b} : replies'[c] = replies[c]
           /\ \A c \in Buses : \A k \in 1 .. Len(replies'[c]) :
                  \/ k \in 1 .. Len(replies[c]) /\ replies'[c][k] = replies[c][k]
                  \/ TrueOf(replies[c][k], c)'
<1>1. replies[b] \in Seq(Reply) /\ replies \in [Buses -> Seq(Reply)]
  BY DEF NetType
<1>2. /\ Append(replies[b], rp) \in Seq(Reply)
      /\ \A k \in 1 .. Len(Append(replies[b], rp)) :
            \/ k \in 1 .. Len(replies[b]) /\ Append(replies[b], rp)[k] = replies[b][k]
            \/ Append(replies[b], rp)[k] = rp
  BY <1>1, SMT
<1>3. replies'[b] = Append(replies[b], rp) /\ \A c \in Buses \ {b} : replies'[c] = replies[c]
  BY <1>1
<1>4. replies' \in [Buses -> Seq(Reply)]
  BY <1>1, <1>2
<1>5. ASSUME NEW c \in Buses, NEW k \in 1 .. Len(replies'[c])
      PROVE  \/ k \in 1 .. Len(replies[c]) /\ replies'[c][k] = replies[c][k]
             \/ TrueOf(replies[c][k], c)'
  <2>1. CASE c # b
    BY <1>3, <2>1
  <2>2. CASE c = b /\ replies'[b][k] = rp
    BY <2>2 DEF TrueOf
  <2> QED BY <1>2, <1>3, <1>5, <2>1, <2>2
<1> QED BY <1>3, <1>4, <1>5

\* A part of a unique ID: an answer that is added is true.
LEMMA AskKeeps ==
    ASSUME DNAInv, NEW u \in Nodes, NEW missed \in BOOLEAN, NEW late \in BOOLEAN,
           NEW M \in SUBSET Waiting(BusOf[u]), can_do_dna(u, M, missed, late)
    PROVE  NetType' /\ IdsKept' /\ DownIsSilent' /\ RepliesTrue' /\ RemembersNodes'
<1> DEFINE b == BusOf[u]
           uid == SoFar(b, node[u].ofs = 0, PartOf(u, node[u].ofs), late)
           Adds == \E rp \in Reply :
                      /\ replies' = [replies EXCEPT ![b] = Append(@, rp)]
                      /\ Len(rp.uid) = UidLen => rp.id \in NodeIds /\ records'[rp.id] = rp.uid
<1>1. b \in Buses
  BY AllocationAssumption
<1>2. uid \in Start /\ (Len(uid) = UidLen => uid \in Uids)
  BY <1>1, SoFarIsStart, UidSeqs DEF DNAInv, Start
<1>3. /\ node' \in [Nodes -> [id : 0 .. MaxNodeId, ofs : Nat]]
      /\ \A v \in Nodes : node'[v].id = node[v].id
  BY DEF can_do_dna, StartAgain, DNAInv, NetType
<1>4. CASE UNCHANGED <<dbVars, rcvd, replies>>
  <2>1. NetType' /\ DownIsSilent'
    BY <1>3, <1>4 DEF can_do_dna, bootVars, DNAInv, NetType, DownIsSilent
  <2> QED BY <1>3, <1>4, <2>1, KeepsRegistered DEF can_do_dna, bootVars, dbVars
<1>5. CASE b \in up /\ handle_allocation_msg(b, node[u].ofs = 0, PartOf(u, node[u].ofs), late)
  <2>1. /\ rcvd' \in [Buses -> Seq(UidBytes)]
        /\ \A i \in registered : records'[i] = records[i]
    <3>1. uid \in Seq(UidBytes) /\ rcvd' \in {[rcvd EXCEPT ![b] = uid], [rcvd EXCEPT ![b] = <<>>]}
      BY <1>2, <1>5 DEF handle_allocation_msg, Start
    <3>2. \A i \in registered : records'[i] = records[i]
      BY <1>2, <1>5, AllocatesTrue DEF handle_allocation_msg, dbVars, DNAInv
    <3>3. ASSUME NEW x \in Seq(UidBytes) PROVE [rcvd EXCEPT ![b] = x] \in [Buses -> Seq(UidBytes)]
      BY <1>1 DEF DNAInv, NetType
    <3>4. <<>> \in Seq(UidBytes)
      BY SMT
    <3> HIDE DEF uid, b
    <3> QED BY <3>1, <3>2, <3>3, <3>4
  <2>2. UNCHANGED replies \/ Adds
    <3>1. CASE Len(uid) = UidLen
      <4>1. handle_allocation(uid) /\ uid \in Uids
        BY <1>2, <1>5, <3>1 DEF handle_allocation_msg
      <4>2. Allocated(uid) # 0 => Allocated(uid) \in NodeIds /\ records'[Allocated(uid)] = uid
        BY <4>1, AllocatesTrue DEF DNAInv
      <4>3. CASE Allocated(uid) # 0
        <5>1. [uid |-> uid, id |-> Allocated(uid)] \in Reply
          BY <1>2, <4>2, <4>3, DNAAssumption, SMT DEF Reply, NodeIds
        <5> QED BY <5>1, <1>5, <3>1, <4>2, <4>3 DEF handle_allocation_msg, Answer
      <4> QED BY <4>3, <1>5, <3>1 DEF handle_allocation_msg
    <3>2. CASE Len(uid) # UidLen
      <4>1. [uid |-> uid, id |-> 0] \in Reply
        BY <1>2, DNAAssumption, SMT DEF Reply
      <4> QED BY <4>1, <1>5, <3>2 DEF handle_allocation_msg, Answer
    <3> QED BY <3>1, <3>2
  <2>3. /\ replies' \in [Buses -> Seq(Reply)] /\ \A c \in Buses \ {b} : replies'[c] = replies[c]
        /\ \A c \in Buses : \A k \in 1 .. Len(replies'[c]) :
               \/ k \in 1 .. Len(replies[c]) /\ replies'[c][k] = replies[c][k]
               \/ TrueOf(replies[c][k], c)'
    <3>1. CASE UNCHANGED replies
      BY <3>1 DEF DNAInv, NetType
    <3>2. CASE Adds
      <4>1. PICK rp \in Reply :
                /\ replies' = [replies EXCEPT ![b] = Append(@, rp)]
                /\ Len(rp.uid) = UidLen => rp.id \in NodeIds /\ records'[rp.id] = rp.uid
        BY <3>2
      <4>2. NetType
        BY DEF DNAInv
      <4> HIDE DEF b
      <4> QED BY <1>1, <4>1, <4>2, AnswerAdds
    <3> HIDE DEF Adds
    <3> QED BY <2>2, <3>1, <3>2
  <2>4. NetType' /\ DownIsSilent' /\ UNCHANGED <<given, forgot, up, bare>>
    BY <1>3, <1>5, <2>1, <2>3 DEF can_do_dna, bootVars, DNAInv, NetType, DownIsSilent
  <2> QED BY <1>3, <2>1, <2>3, <2>4, KeepsRegistered
<1> QED BY <1>4, <1>5 DEF can_do_dna

\* An answer: who gets a node ID gets one that is registered for it.
LEMMA AnswerKeeps ==
    ASSUME DNAInv, NEW b \in Buses, NEW M \in SUBSET Waiting(b), handle_allocation_response(b, M)
    PROVE  NetType' /\ IdsKept' /\ DownIsSilent' /\ RepliesTrue' /\ RemembersNodes'
<1> DEFINE rp == Head(replies[b])
           H == Waiting(b) \ M
           got == {u \in H : Hears(u, rp).id # 0}
<1> USE DEF DNAInv
<1>1. /\ replies[b] \in Seq(Reply) /\ replies[b] # <<>>
      /\ rp \in Reply /\ Tail(replies[b]) \in Seq(Reply) /\ rp = replies[b][1]
      /\ Len(Tail(replies[b])) = Len(replies[b]) - 1 /\ 1 \in 1 .. Len(replies[b])
      /\ \A k \in 1 .. Len(Tail(replies[b])) :
            k + 1 \in 1 .. Len(replies[b]) /\ Tail(replies[b])[k] = replies[b][k + 1]
  BY SMT DEF handle_allocation_response, NetType
<1>2. /\ replies' = [replies EXCEPT ![b] = Tail(@)] /\ UNCHANGED <<records, registered, up, bare, rcvd>>
      /\ node' = [u \in Nodes |-> IF u \in H THEN Hears(u, rp) ELSE node[u]]
      /\ given' = [u \in Nodes |-> IF u \in got THEN rp.id ELSE given[u]]
      /\ forgot' = forgot \ {u \in got : records[rp.id] = u}
  BY DEF handle_allocation_response, dbVars, bootVars
<1>3. \A u \in H : u \in Nodes /\ node[u].id = 0
  BY DEF Waiting, OnBus
<1>4. \A u \in H : /\ Hears(u, rp) \in [id : 0 .. MaxNodeId, ofs : Nat]
                   /\ Hears(u, rp).id # 0 =>
                         Len(rp.uid) = UidLen /\ rp.uid = u /\ Hears(u, rp).id = rp.id
  BY <1>1, <1>3, HearsOwn
<1> HIDE DEF rp
<1>5. TrueOf(rp, b)
  BY <1>1 DEF RepliesTrue
<1>6. b \in up
  BY <1>1 DEF DownIsSilent
<1>7. \A u \in got : /\ u \in Nodes /\ u = rp.uid /\ Hears(u, rp).id = rp.id
                     /\ u \notin forgot => records[rp.id] = u
  <2> SUFFICES ASSUME NEW u \in got
               PROVE  /\ u \in Nodes /\ u = rp.uid /\ Hears(u, rp).id = rp.id
                      /\ u \notin forgot => records[rp.id] = u
    OBVIOUS
  <2>1. /\ u \in Waiting(b) /\ u \in Nodes /\ u = rp.uid
        /\ Len(rp.uid) = UidLen /\ Hears(u, rp).id = rp.id
    <3>1. u \in H /\ Hears(u, rp).id # 0
      OBVIOUS
    <3>2. u \in Waiting(b) /\ u \in Nodes
      BY <1>3, <3>1
    <3> QED BY <1>4, <3>1, <3>2
  <2>2. u \notin forgot => records[rp.id] = u
    BY <1>5, <2>1 DEF TrueOf
  <2> QED BY <2>1, <2>2
<1>8. NetType'
  <2>1. replies' \in [Buses -> Seq(Reply)]
    <3>1. replies \in [Buses -> Seq(Reply)] /\ replies' = [replies EXCEPT ![b] = Tail(replies[b])]
      BY <1>2 DEF NetType
    <3> QED BY <1>1, <3>1
  <2>2. rp.id \in 0 .. MaxNodeId
    BY <1>1 DEF Reply
  <2> HIDE DEF H, got
  <2>3. node' \in [Nodes -> [id : 0 .. MaxNodeId, ofs : Nat]]
    <3> DEFINE T == [id : 0 .. MaxNodeId, ofs : Nat]
    <3>1. ASSUME NEW u \in Nodes PROVE (IF u \in H THEN Hears(u, rp) ELSE node[u]) \in T
      <4>1. node[u] \in T
        BY DEF NetType
      <4>2. u \in H => Hears(u, rp) \in T
        BY <1>4
      <4> HIDE DEF T
      <4> QED BY <4>1, <4>2
    <3> HIDE DEF T
    <3>2. node' \in [Nodes -> T]
      BY <1>2, <3>1
    <3> QED BY <3>2 DEF T
  <2> QED BY <1>2, <2>1, <2>2, <2>3 DEF NetType
<1>9. \A u \in Nodes : u \notin got => node'[u].id = node[u].id
  BY <1>2, <1>3
<1>10. IdsKept'
  BY <1>2, <1>7, <1>9 DEF IdsKept
<1>11. DownIsSilent'
  BY <1>2, <1>6 DEF DownIsSilent, NetType
<1>12. RepliesTrue'
  <2> SUFFICES ASSUME NEW c \in Buses, NEW k \in 1 .. Len(replies'[c])
               PROVE  TrueOf(replies[c][k], c)'
    BY DEF RepliesTrue
  <2>1. Waiting(c)' \subseteq Waiting(c)
    <3>1. \A u \in Nodes : node'[u].id = 0 => node[u].id = 0
      BY <1>3, <1>9
    <3> QED BY <3>1 DEF Waiting, OnBus
  <2>2. PICK j \in 1 .. Len(replies[c]) : replies'[c][k] = replies[c][j]
    <3>1. CASE c = b
      BY <1>1, <1>2, <3>1 DEF NetType
    <3>2. CASE c # b
      BY <1>2, <3>2 DEF NetType
    <3> QED BY <3>1, <3>2
  <2>3. TrueOf(replies[c][j], c)
    BY DEF RepliesTrue
  <2>4. Waiting(c)' \ forgot' \subseteq Waiting(c) \ forgot
    <3>1. \A u \in got : node'[u].id # 0
      BY <1>2, <1>3
    <3> QED BY <1>2, <2>1, <3>1 DEF Waiting, OnBus
  <2> QED BY <1>2, <2>2, <2>3, <2>4 DEF TrueOf
<1>13. RemembersNodes'
  BY <1>2, <1>7 DEF RemembersNodes
<1> QED BY <1>8, <1>10, <1>11, <1>12, <1>13

\* Node info: the node ID that a node announces is not one that was given to another.
LEMMA InfoKeeps ==
    ASSUME DNAInv, NEW u \in Nodes, NodeInfo(u)
    PROVE  NetType' /\ IdsKept' /\ DownIsSilent' /\ RepliesTrue' /\ RemembersNodes'
<1> DEFINE n == node[u].id
<1> USE DEF DNAInv
<1>1. n \in NodeIds /\ u \in Uids
  BY AllocationAssumption, DNAAssumption, SMT DEF NodeInfo, NetType, NodeIds
<1>2. UNCHANGED <<node, given, replies, rcvd, up, bare>> /\ forgot' \subseteq forgot
  BY DEF NodeInfo, bootVars
<1>3. NetType' /\ IdsKept' /\ DownIsSilent'
  BY <1>2 DEF NetType, IdsKept, DownIsSilent
<1>4. ASSUME NEW i \in NodeIds, records[i] \in (Nodes \cup {OwnUid}) \ {u}
      PROVE  records'[i] = records[i]
  <2>1. i \in registered
    BY <1>4, NodeRegistered
  <2>2. CASE n \in registered
    BY <2>2 DEF NodeInfo, handle_node_info
  <2>3. CASE n \notin registered
    <3>1. register_uid(n, u) /\ i # n /\ records[i] # u
      BY <1>4, <2>1, <2>3 DEF NodeInfo, handle_node_info
    <3> QED BY <1>1, <3>1, RegisterLeaves
  <2> QED BY <2>2, <2>3
<1>5. RepliesTrue'
  <2> SUFFICES ASSUME NEW c \in Buses, NEW k \in 1 .. Len(replies[c])
               PROVE  TrueOf(replies[c][k], c)'
    BY <1>2 DEF RepliesTrue
  <2>1. TrueOf(replies[c][k], c) /\ Waiting(c)' = Waiting(c) /\ u \notin Waiting(c)
    BY <1>2 DEF RepliesTrue, Waiting, OnBus, NodeInfo
  <2>2. Waiting(c) \ forgot' = Waiting(c) \ forgot
    BY <2>1 DEF NodeInfo
  <2> QED BY <1>2, <1>4, <2>1, <2>2 DEF TrueOf, Waiting, OnBus
<1>6. ASSUME NEW v \in Nodes \ forgot', given[v] # 0 PROVE records'[given[v]] = v
  <2>1. given[v] \in NodeIds
    BY <1>6, DNAAssumption, SMT DEF NetType, NodeIds
  <2>2. CASE v # u
    <3>1. v \notin forgot
      BY <1>6, <2>2 DEF NodeInfo
    <3> QED BY <1>4, <1>6, <2>1, <2>2, <3>1 DEF RemembersNodes
  <2>3. CASE v = u /\ records'[given[u]] # u
    <3>1. u \notin forgot
      BY <1>6, <2>3 DEF NodeInfo
    <3>2. records[given[u]] = u /\ n = given[u]
      BY <1>6, <2>3, <3>1 DEF RemembersNodes, IdsKept, NodeInfo
    <3>3. n \in registered
      BY <1>1, <3>2, NodeRegistered
    <3> QED BY <2>3, <3>2, <3>3 DEF NodeInfo, handle_node_info
  <2> QED BY <2>2, <2>3
<1>7. up # {} /\ ~bare => records'[OwnId] = OwnUid
  BY <1>4, AllocationAssumption DEF RemembersNodes
<1>8. RemembersNodes'
  BY <1>2, <1>6, <1>7 DEF RemembersNodes
<1> QED BY <1>3, <1>5, <1>8

\* The other steps: restarts, init() and storage.
LEMMA OthersKeep ==
    ASSUME DNAInv,
           \/ \E u \in Nodes, id \in NewIds : NodeRestarts(u, id)
           \/ Boot \/ PowerCycle \/ UNCHANGED dnaVars
           \/ \E i \in NodeIds : SaveRecord(i)
    PROVE  NetType' /\ IdsKept' /\ DownIsSilent' /\ RepliesTrue' /\ RemembersNodes'
<1> USE DEF DNAInv
<1>1. ASSUME NEW u \in Nodes, NEW id \in NewIds, NodeRestarts(u, id)
      PROVE  NetType' /\ IdsKept' /\ DownIsSilent' /\ RepliesTrue' /\ RemembersNodes'
  <2>1. /\ replies[BusOf[u]] = <<>> /\ node' = [node EXCEPT ![u] = [id |-> id, ofs |-> 0]]
        /\ UNCHANGED <<records, registered, rcvd, replies, up, bare>> /\ id \in 0 .. MaxNodeId
        /\ given' = (IF id = 0 THEN given ELSE [given EXCEPT ![u] = 0])
        /\ forgot' = (IF id = 0 THEN forgot ELSE forgot \ {u})
    BY <1>1, AllocationAssumption DEF NodeRestarts, dbVars, bootVars
  <2>2. NetType'
    BY <2>1, DNAAssumption, SMT DEF NetType
  <2>3. IdsKept' /\ DownIsSilent' /\ RemembersNodes'
    BY <2>1 DEF NetType, IdsKept, DownIsSilent, RemembersNodes
  <2>4. ASSUME NEW b \in Buses, NEW k \in 1 .. Len(replies[b])
        PROVE  TrueOf(replies[b][k], b)'
    <3>1. TrueOf(replies[b][k], b)
      BY <2>4 DEF RepliesTrue
    <3>2. b # BusOf[u]
      <4>1. ASSUME replies[b] = <<>> PROVE FALSE
        BY <2>4, <4>1, SMT
      <4> QED BY <2>1, <4>1
    <3>3. Waiting(b)' = Waiting(b) /\ u \notin Waiting(b)
      BY <2>1, <3>2 DEF Waiting, OnBus, NetType
    <3>4. Waiting(b)' \ forgot' = Waiting(b) \ forgot
      BY <2>1, <3>3
    <3> QED BY <2>1, <3>1, <3>4 DEF TrueOf
  <2> QED BY <2>1, <2>2, <2>3, <2>4 DEF RepliesTrue
<1>2. ASSUME NEW b \in Buses, init(b)
      PROVE  NetType' /\ IdsKept' /\ DownIsSilent' /\ RepliesTrue' /\ RemembersNodes'
  <2>1. /\ UNCHANGED <<node, given, rcvd, replies>> /\ up' = up \cup {b} /\ bare' = FALSE
        /\ forgot' = forgot \cup {u \in Nodes : records[OwnId] = u}
    BY <1>2 DEF init
  <2>2. NetType' /\ IdsKept' /\ DownIsSilent'
    BY <2>1 DEF NetType, IdsKept, DownIsSilent
  <2>3. OwnId \in NodeIds /\ OwnUid \in Uids /\ OwnId # 0
    BY AllocationAssumption, SMT DEF NodeIds
  <2>4. records'[OwnId] = OwnUid
    <3>1. CASE find_node_id(OwnUid) = OwnId
      BY <1>2, <2>3, <3>1, FindsIt DEF init, init_server
    <3>2. CASE find_node_id(OwnUid) # OwnId
      BY <1>2, <2>3, <3>2 DEF init, init_server, register_uid
    <3> QED BY <3>1, <3>2
  <2>5. ASSUME NEW i \in NodeIds, records[i] \in Nodes \ forgot' PROVE records'[i] = records[i]
    <3>1. records[i] # OwnUid /\ i # OwnId
      BY <2>1, <2>5, AllocationAssumption
    <3> QED BY <1>2, <2>3, <2>5, <3>1, RegisterLeaves DEF init, init_server
  <2>6. \A u \in Nodes \ forgot' : given[u] # 0 => records'[given[u]] = u
    <3> SUFFICES ASSUME NEW u \in Nodes \ forgot', given[u] # 0 PROVE records'[given[u]] = u
      OBVIOUS
    <3>1. given[u] \in NodeIds
      BY DNAAssumption, SMT DEF NetType, NodeIds
    <3>2. records[given[u]] = u
      BY <2>1 DEF RemembersNodes
    <3> QED BY <2>5, <3>1, <3>2
  <2>7. RepliesTrue'
    <3> SUFFICES ASSUME NEW c \in Buses, NEW k \in 1 .. Len(replies[c])
                 PROVE  TrueOf(replies[c][k], c)'
      BY <2>1 DEF RepliesTrue
    <3>1. TrueOf(replies[c][k], c) /\ Waiting(c)' = Waiting(c) /\ forgot \subseteq forgot'
      BY <2>1 DEF RepliesTrue, Waiting, OnBus
    <3> QED BY <2>1, <2>5, <3>1 DEF TrueOf, Waiting, OnBus
  <2> QED BY <2>1, <2>2, <2>4, <2>6, <2>7 DEF RemembersNodes
<1>3. ASSUME PowerCycle
      PROVE  NetType' /\ IdsKept' /\ DownIsSilent' /\ RepliesTrue' /\ RemembersNodes'
  <2>1. UNCHANGED <<node, given>> /\ up' = {} /\ \A b \in Buses : replies'[b] = <<>>
    BY <1>3 DEF PowerCycle
  <2>2. rcvd' \in [Buses -> Seq(UidBytes)] /\ replies' \in [Buses -> Seq(Reply)]
    <3>1. <<>> \in Seq(UidBytes) /\ <<>> \in Seq(Reply)
      BY SMT
    <3> QED BY <1>3, <3>1 DEF PowerCycle
  <2>3. forgot' \subseteq Nodes
    BY <1>3 DEF PowerCycle, NetType
  <2>4. NetType' /\ IdsKept' /\ DownIsSilent'
    BY <2>1, <2>2, <2>3 DEF NetType, IdsKept, DownIsSilent
  <2>5. RepliesTrue'
    BY <2>1, SMT DEF RepliesTrue
  <2>6. \A u \in Nodes \ forgot' : given[u] # 0 => records'[given[u]] = u
    BY <1>3 DEF PowerCycle, Restart
  <2> QED BY <2>1, <2>4, <2>5, <2>6 DEF RemembersNodes
<1>4. ASSUME UNCHANGED dnaVars \/ \E i \in NodeIds : SaveRecord(i)
      PROVE  NetType' /\ IdsKept' /\ DownIsSilent' /\ RepliesTrue' /\ RemembersNodes'
  <2>1. UNCHANGED <<node, given, forgot, rcvd, replies, up, bare, records, registered>>
    BY <1>4 DEF dnaVars, dbVars, netVars, bootVars, SaveRecord, Save
  <2>2. NetType' /\ DownIsSilent'
    BY <2>1 DEF NetType, DownIsSilent
  <2> QED BY <2>1, <2>2, KeepsRegistered
<1>5. ASSUME NEW b \in Buses, ClearDatabase(b)
      PROVE  NetType' /\ IdsKept' /\ DownIsSilent' /\ RepliesTrue' /\ RemembersNodes'
  <2>1. /\ UNCHANGED <<node, given, rcvd, replies, up>> /\ bare' = TRUE
        /\ forgot' = {u \in Nodes : given[u] # 0 \/ Promised(u)}
    BY <1>5 DEF ClearDatabase
  <2>2. NetType' /\ IdsKept' /\ DownIsSilent'
    BY <2>1 DEF NetType, IdsKept, DownIsSilent
  <2>3. RepliesTrue'
    <3> SUFFICES ASSUME NEW c \in Buses, NEW k \in 1 .. Len(replies[c]),
                        replies[c][k].uid \in Waiting(c)
                 PROVE  replies[c][k].uid \in forgot'
      BY <2>1 DEF RepliesTrue, TrueOf, Waiting, OnBus
    <3> QED BY <2>1 DEF Waiting, OnBus, Promised
  <2> QED BY <2>1, <2>2, <2>3 DEF RemembersNodes
<1> QED BY <1>1, <1>2, <1>3, <1>4, <1>5 DEF Boot

\* Every step of the servers, the nodes and storage keeps the invariant.
LEMMA DNAInductive == DNAInv /\ [DNANext]_dnaVars => DNAInv'
<1> SUFFICES ASSUME DNAInv, [DNANext]_dnaVars PROVE DNAInv'
  OBVIOUS
<1>1. DBInv'
  BY DBStep, DBInductive DEF DNAInv
<1>2. NetType' /\ IdsKept' /\ DownIsSilent' /\ RepliesTrue' /\ RemembersNodes'
  BY AskKeeps, AnswerKeeps, InfoKeeps, OthersKeep DEF DNANext
<1> QED BY <1>1, <1>2 DEF DNAInv

\* The invariant holds at the first start.
LEMMA DNAInitial == DNAInit => DNAInv
<1> SUFFICES ASSUME DNAInit PROVE DNAInv
  OBVIOUS
<1>1. DBInv
  BY DBInitial DEF DNAInit
<1>2. NetType /\ IdsKept /\ DownIsSilent /\ RepliesTrue /\ RemembersNodes
  BY DNAAssumption, SMT DEF DNAInit, NetType, IdsKept, DownIsSilent, RepliesTrue, RemembersNodes
<1> QED BY <1>1, <1>2 DEF DNAInv

\* Whatever messages are missed, late or mixed up, and whatever is restarted: a node ID
\* that a node has got stays registered for it, unless it was lost before it was durable
\* or cleared, and no node gets that of the server.
THEOREM Remembers == DNASpec => []RemembersNodes
<1>1. DNAInv => RemembersNodes
  BY DEF DNAInv
<1> QED BY <1>1, DNAInitial, DNAInductive, PTL DEF DNASpec

\* The servers and the nodes use the database as it is meant to be used: what is
\* proved of DBSpec holds in the composition.
THEOREM UsesDatabase == DNASpec => DBSpec
<1>1. DNAInit => DBInit
  BY DEF DNAInit
<1>2. DNAInv /\ [DNANext]_dnaVars => [DBNext]_dbVars
  BY DBStep DEF DNAInv
<1> QED BY <1>1, <1>2, DNAInitial, DNAInductive, PTL DEF DNASpec, DBSpec
-----------------------------------------------------------------------------
(* A node that nobody has takes a mishap                                  *)

\* The node IDs with a unique ID of nobody in storage, or durable, from where it may come
\* back.
Invented == {i \in NodeIds : {records[i], saved[i]} \cap (Uids \ (Nodes \cup {OwnUid})) # {}}

\* A bus on which nobody is misled: a node that goes on with its unique ID goes on with
\* what the server has, or will with the answer that is on its way.
Sound(b) ==
    /\ \A u \in Waiting(b) : node[u].ofs # 0 => rcvd[b] \in {<<>>, SubSeq(u, 1, node[u].ofs)}
    /\ \A k \in 1 .. Len(replies[b]) :
          Len(replies[b][k].uid) < UidLen => rcvd[b] \in {<<>>, replies[b][k].uid}
Misled == {b \in Buses : ~Sound(b)}

\* Each of the two takes a mishap.
MishapsPay ==
    /\ trouble \in [mishaps : Nat, restarts : Nat]
    /\ \A u \in Nodes : node[u].ofs < UidLen
    /\ Cardinality(Invented) + Cardinality(Misled) <= trouble.mishaps

\* Both are finite: there are finitely many records and buses.
LEMMA InventedFinite ==
    /\ IsFiniteSet(Invented) /\ IsFiniteSet(Misled)
    /\ IsFiniteSet(Invented') /\ IsFiniteSet(Misled')
<1>1. IsFiniteSet(NodeIds) BY FS_Interval, DNAAssumption, SMT DEF NodeIds
<1>2. Invented \subseteq NodeIds /\ Invented' \subseteq NodeIds BY DEF Invented
<1>3. IsFiniteSet(Buses) BY FS_Interval, AllocationAssumption, SMT DEF Buses
<1>4. Misled \subseteq Buses /\ Misled' \subseteq Buses BY DEF Misled
<1> QED BY <1>1, <1>2, <1>3, <1>4, FS_Subset

\* The sums: an invented registration more, a misled bus more or less.
LEMMA Sums ==
    ASSUME NEW S, IsFiniteSet(S), NEW E, IsFiniteSet(E), NEW s, NEW e,
           NEW S2, NEW E2
    PROVE  /\ S2 \subseteq S /\ E2 \subseteq E
              => Cardinality(S2) + Cardinality(E2) <= Cardinality(S) + Cardinality(E)
           /\ S2 \subseteq S /\ E2 \subseteq E \cup {e}
              => Cardinality(S2) + Cardinality(E2) <= Cardinality(S) + Cardinality(E) + 1
           /\ S2 \subseteq S \cup {s} /\ E2 \subseteq E
              => Cardinality(S2) + Cardinality(E2) <= Cardinality(S) + Cardinality(E) + 1
           /\ S2 \subseteq S \cup {s} /\ E2 \subseteq E \ {e} /\ e \in E
              => Cardinality(S2) + Cardinality(E2) <= Cardinality(S) + Cardinality(E)
           /\ IsFiniteSet(S2) /\ IsFiniteSet(E2)
              => Cardinality(S2) \in Nat /\ Cardinality(E2) \in Nat
           /\ Cardinality(S) \in Nat /\ Cardinality(E) \in Nat
<1>1. ASSUME NEW X, IsFiniteSet(X), NEW Y, Y \subseteq X
      PROVE  /\ Cardinality(X) \in Nat /\ Cardinality(Y) \in Nat
             /\ Cardinality(Y) <= Cardinality(X)
  BY <1>1, FS_Subset, FS_CardinalityType
<1>2. PICK P : P = S \cup {s} /\ IsFiniteSet(P) /\ Cardinality(P) <= Cardinality(S) + 1
  <2>1. IsFiniteSet(S \cup {s}) BY FS_AddElement
  <2>2. Cardinality(S \cup {s}) \in {Cardinality(S), Cardinality(S) + 1} BY FS_AddElement
  <2> QED BY <2>1, <2>2, FS_CardinalityType, SMT
<1>3. PICK Q : Q = E \cup {e} /\ IsFiniteSet(Q) /\ Cardinality(Q) <= Cardinality(E) + 1
  <2>1. IsFiniteSet(E \cup {e}) BY FS_AddElement
  <2>2. Cardinality(E \cup {e}) \in {Cardinality(E), Cardinality(E) + 1} BY FS_AddElement
  <2> QED BY <2>1, <2>2, FS_CardinalityType, SMT
<1>4. PICK N : N = E \ {e} /\ IsFiniteSet(N) /\ (e \in E => Cardinality(N) = Cardinality(E) - 1)
  BY FS_RemoveElement
<1>5. Cardinality(S) \in Nat /\ Cardinality(E) \in Nat BY FS_CardinalityType
<1>6. S2 \subseteq S /\ E2 \subseteq E
      => Cardinality(S2) + Cardinality(E2) <= Cardinality(S) + Cardinality(E)
  BY <1>1, <1>5, SMT
<1>7. S2 \subseteq S /\ E2 \subseteq E \cup {e}
      => Cardinality(S2) + Cardinality(E2) <= Cardinality(S) + Cardinality(E) + 1
  BY <1>1, <1>3, <1>5, SMT
<1>8. S2 \subseteq S \cup {s} /\ E2 \subseteq E
      => Cardinality(S2) + Cardinality(E2) <= Cardinality(S) + Cardinality(E) + 1
  BY <1>1, <1>2, <1>5, SMT
<1>9. S2 \subseteq S \cup {s} /\ E2 \subseteq E \ {e} /\ e \in E
      => Cardinality(S2) + Cardinality(E2) <= Cardinality(S) + Cardinality(E)
  BY <1>1, <1>2, <1>4, <1>5, SMT
<1>10. IsFiniteSet(S2) /\ IsFiniteSet(E2) => Cardinality(S2) \in Nat /\ Cardinality(E2) \in Nat
  BY FS_CardinalityType
<1> QED BY <1>5, <1>6, <1>7, <1>8, <1>9, <1>10

\* What a mishap is counted with.
LEMMA Missed ==
    ASSUME NEW M \in SUBSET Nodes
    PROVE  Cardinality(M) \in Nat /\ (M # {} => Cardinality(M) >= 1)
<1>1. IsFiniteSet(M)
  BY AllocationAssumption, FS_Subset
<1> QED BY <1>1, FS_CardinalityType, FS_EmptySet, SMT

\* What a node adds to what the server has of it is all it has, once it is whole.
LEMMA WholeIsOwn ==
    ASSUME NetType, MishapsPay, NEW u \in Nodes, NEW late \in BOOLEAN, node[u].id = 0,
           Sound(BusOf[u]),
           Len(SoFar(BusOf[u], node[u].ofs = 0, PartOf(u, node[u].ofs), late)) = UidLen
    PROVE  SoFar(BusOf[u], node[u].ofs = 0, PartOf(u, node[u].ofs), late) = u
<1> DEFINE b == BusOf[u]
           ofs == node[u].ofs
           last == IF ofs + PartLen < UidLen THEN ofs + PartLen ELSE UidLen
           old == IF ofs = 0 \/ late THEN <<>> ELSE rcvd[b]
           uid == SoFar(b, ofs = 0, PartOf(u, ofs), late)
<1>1. /\ ofs \in Nat /\ UidLen \in Nat \ {0} /\ PartLen \in Nat \ {0} /\ ofs < UidLen
      /\ last \in Nat /\ ofs < last /\ last <= UidLen
  BY AllocationAssumption, SMT DEF NetType, MishapsPay
<1>2. u \in Seq(UidBytes) /\ Len(u) = UidLen
  BY UidSeqs, AllocationAssumption
<1>3. b \in Buses /\ u \in Waiting(b)
  BY AllocationAssumption DEF Waiting, OnBus
<1>4. Len(uid) # 0
  BY <1>1
<1>5. uid = old \o PartOf(u, ofs) /\ (ofs = 0 \/ old # <<>>)
  BY <1>4 DEF SoFar
<1>6. old = SubSeq(u, 1, ofs)
  <2>1. CASE ofs = 0
    BY <2>1, <1>2, SMT
  <2>2. CASE ofs # 0
    <3>1. old = rcvd[b] /\ rcvd[b] # <<>>
      BY <2>2, <1>5
    <3> QED BY <2>2, <3>1, <1>3 DEF Sound
  <2> QED BY <2>1, <2>2
<1>7. PICK k \in Nat, n \in Nat : k = ofs /\ n = last /\ k < n /\ n <= UidLen
  BY <1>1
<1>8. uid = SubSeq(u, 1, k) \o SubSeq(u, k + 1, n)
  BY <1>5, <1>6, <1>7 DEF PartOf
<1>9. SubSeq(u, 1, k) \o SubSeq(u, k + 1, n) = SubSeq(u, 1, n)
  <2>1. 1 \in 1 .. Len(u) + 1 /\ k \in 1 - 1 .. Len(u) /\ n \in k .. Len(u)
    BY <1>2, <1>7, SMT
  <2> QED BY <1>2, <2>1, ConcatAdjacentSubSeq
<1>10. Len(SubSeq(u, 1, n)) = n
  BY <1>2, <1>7, SMT
<1>11. n = UidLen
  BY <1>8, <1>9, <1>10
<1>12. SubSeq(u, 1, Len(u)) = u
  BY <1>2, SubSeqFull
<1> QED BY <1>2, <1>8, <1>9, <1>11, <1>12

\* A part that all hear in time puts the bus right; one that is whole is that of the
\* node, unless the bus was misled; the other buses are as they were.
LEMMA AskTells ==
    ASSUME DNAInv, MishapsPay, NEW u \in Nodes, NEW missed \in BOOLEAN, NEW late \in BOOLEAN,
           NEW M \in SUBSET Waiting(BusOf[u]), can_do_dna(u, M, missed, late)
    PROVE  /\ M = {} /\ ~missed /\ replies[BusOf[u]] = <<>> => Sound(BusOf[u])'
           /\ \A c \in Buses \ {BusOf[u]} : Sound(c) => Sound(c)'
           /\ \E s \in NodeIds : Invented' \subseteq Invented \cup {s}
           /\ Sound(BusOf[u]) => Invented' \subseteq Invented
<1> DEFINE b == BusOf[u]
           uid == SoFar(b, node[u].ofs = 0, PartOf(u, node[u].ofs), late)
           Heard == b \in up /\ ~missed
<1>1. b \in Buses
  BY AllocationAssumption
<1>2. uid \in Start /\ (Len(uid) = UidLen => uid \in Uids) /\ UidLen \in Nat \ {0}
  BY <1>1, SoFarIsStart, UidSeqs, AllocationAssumption DEF DNAInv, Start
<1>3. /\ \A v \in Nodes : node'[v].id = node[v].id
      /\ \A v \in Nodes : v \notin Waiting(b) \ M => node'[v] = node[v]
      /\ \A v \in Waiting(b) \ M : node'[v].ofs = 0
  BY DEF can_do_dna, StartAgain, DNAInv, NetType, Waiting, OnBus
<1>4. \A c \in Buses : Waiting(c)' = Waiting(c)
  BY <1>3 DEF Waiting, OnBus
<1>5. rcvd \in [Buses -> Seq(UidBytes)] /\ replies \in [Buses -> Seq(Reply)]
  BY DEF DNAInv, NetType
<1>6. CASE ~Heard
  <2>1. UNCHANGED <<dbVars, rcvd, replies>>
    BY <1>6 DEF can_do_dna
  <2>2. Invented' = Invented
    BY <2>1 DEF Invented, dbVars
  <2>3. ASSUME M = {}, replies[b] = <<>> PROVE Sound(b)'
    BY <1>1, <1>3, <1>4, <2>1, <2>3, SMT DEF Sound
  <2>4. ASSUME NEW c \in Buses \ {b}, Sound(c) PROVE Sound(c)'
    <3>1. \A v \in Waiting(c) : node'[v] = node[v]
      BY <1>3, <2>4 DEF Waiting, OnBus
    <3> QED BY <1>4, <2>1, <2>4, <3>1 DEF Sound
  <2>5. OwnId \in NodeIds
    BY AllocationAssumption
  <2> QED BY <2>2, <2>3, <2>4, <2>5
<1>7. CASE Heard
  <2>1. handle_allocation_msg(b, node[u].ofs = 0, PartOf(u, node[u].ofs), late)
    BY <1>7 DEF can_do_dna
  <2>2. \/ /\ Len(uid) = UidLen /\ handle_allocation(uid) /\ rcvd' = [rcvd EXCEPT ![b] = <<>>]
           /\ \/ UNCHANGED replies
              \/ replies' = [replies EXCEPT ![b] = Append(@, [uid |-> uid, id |-> Allocated(uid)])]
        \/ /\ Len(uid) # UidLen /\ UNCHANGED dbVars /\ rcvd' = [rcvd EXCEPT ![b] = uid]
           /\ \/ UNCHANGED replies
              \/ replies' = [replies EXCEPT ![b] = Append(@, [uid |-> uid, id |-> 0])]
    BY <2>1 DEF handle_allocation_msg, Answer
  <2> HIDE DEF uid
  <2>3. /\ \A c \in Buses \ {b} : rcvd'[c] = rcvd[c] /\ replies'[c] = replies[c]
        /\ rcvd'[b] = IF Len(uid) = UidLen THEN <<>> ELSE uid
        /\ \/ replies'[b] = replies[b]
           \/ \E id : replies'[b] = Append(replies[b], [uid |-> uid, id |-> id])
    BY <1>1, <1>5, <2>2
  <2>4. ASSUME NEW c \in Buses \ {b}, Sound(c) PROVE Sound(c)'
    <3>1. \A v \in Waiting(c) : node'[v] = node[v]
      BY <1>3, <2>4 DEF Waiting, OnBus
    <3> QED BY <1>4, <2>3, <2>4, <3>1 DEF Sound
  <2>5. ASSUME M = {}, replies[b] = <<>> PROVE Sound(b)'
    <3>1. \A v \in Waiting(b)' : node'[v].ofs = 0
      BY <1>1, <1>3, <1>4, <2>5
    <3>2. ASSUME NEW k \in 1 .. Len(replies'[b])
          PROVE  replies'[b][k].uid = uid
      <4>1. CASE replies'[b] = replies[b]
        BY <2>5, <3>2, <4>1, SMT
      <4>2. ASSUME NEW id, replies'[b] = Append(replies[b], [uid |-> uid, id |-> id])
            PROVE  replies'[b][k].uid = uid
        <5>1. replies'[b] = <<[uid |-> uid, id |-> id]>>
          BY <2>5, <4>2, SMT
        <5> QED BY <3>2, <5>1, SMT
      <4> QED BY <2>3, <4>1, <4>2
    <3> QED BY <2>3, <3>1, <3>2 DEF Sound
  <2>6. Len(uid) # UidLen => Invented' = Invented
    BY <2>2 DEF Invented, dbVars
  <2>7. ASSUME Len(uid) = UidLen
        PROVE  \E s \in NodeIds : /\ Invented' \subseteq Invented \cup {s}
                                  /\ uid \in Nodes => Invented' \subseteq Invented
    <3>1. handle_allocation(uid)
      BY <2>2, <2>7
    <3>2. PICK s \in NodeIds :
              \A i \in NodeIds : /\ records'[i] = records[i] \/ (i = s /\ records'[i] = uid)
                                /\ saved'[i] = saved[i]
      <4>1. CASE find_node_id(uid) = 0 /\ Free # {}
        <5>1. HighestFree \in NodeIds
          <6>1. \E k \in Free : \A j \in Free : j <= k BY <4>1, HasHighest DEF Free
          <6> QED BY <6>1 DEF HighestFree, Free
        <5> QED BY <3>1, <4>1, <5>1 DEF handle_allocation, create_registration, DNAInv, DBInv
      <4>2. CASE ~(find_node_id(uid) = 0 /\ Free # {})
        BY <3>1, <4>2, AllocationAssumption DEF handle_allocation
      <4> QED BY <4>1, <4>2
    <3> QED BY <3>2 DEF Invented
  <2>8. ASSUME Sound(b) PROVE Invented' \subseteq Invented
    <3>1. Len(uid) = UidLen => uid = u
      BY <2>8, WholeIsOwn DEF uid, can_do_dna, DNAInv
    <3> QED BY <2>6, <2>7, <3>1
  <2>9. \E s \in NodeIds : Invented' \subseteq Invented \cup {s}
    BY <1>2, <2>6, <2>7, AllocationAssumption
  <2> QED BY <2>4, <2>5, <2>8, <2>9
<1> QED BY <1>6, <1>7

\* can_do_dna() pays for what it leads to.
LEMMA AskPays ==
    ASSUME DNAInv, MishapsPay, NEW u \in Nodes, NEW missed \in BOOLEAN, NEW late \in BOOLEAN,
           NEW M \in SUBSET Waiting(BusOf[u]), can_do_dna(u, M, missed, late), DBInv'
    PROVE  MishapsPay'
<1> DEFINE b == BusOf[u]
           quiet == M = {} /\ ~missed /\ replies[b] = <<>>
<1>1. PICK n \in Nat : /\ trouble' = [trouble EXCEPT !["mishaps"] = @ + n]
                       /\ ~quiet => n >= 1
  <2>1. Cardinality(M) \in Nat /\ (M # {} => Cardinality(M) >= 1)
    BY Missed DEF Waiting, OnBus
  <2>2. PICK m \in Nat : m = Cardinality(M) + (IF missed \/ late THEN 1 ELSE 0)
                              + (IF replies[b] # <<>> \/ Interrupts(u) THEN 1 ELSE 0)
    BY <2>1, SMT
  <2>3. trouble' = [trouble EXCEPT !["mishaps"] = @ + m]
    BY <2>2 DEF can_do_dna, Trouble
  <2>4. ~quiet => m >= 1
    BY <2>1, <2>2, SMT
  <2> QED BY <2>3, <2>4
<1>2. /\ trouble' \in [mishaps : Nat, restarts : Nat]
      /\ trouble'.mishaps = trouble.mishaps + n /\ trouble.mishaps \in Nat
  BY <1>1, SMT DEF MishapsPay
<1>3. \A v \in Nodes : node'[v].ofs < UidLen
  BY AllocationAssumption, SMT DEF can_do_dna, StartAgain, DNAInv, NetType, MishapsPay
<1>4. /\ quiet => Sound(b)'
      /\ \A c \in Buses \ {b} : Sound(c) => Sound(c)'
      /\ Sound(b) => Invented' \subseteq Invented
  BY AskTells
<1>5. PICK s \in NodeIds : Invented' \subseteq Invented \cup {s}
  BY AskTells
<1>6. Misled' \subseteq Misled \cup {b} /\ (quiet => Misled' \subseteq Misled \ {b})
  BY <1>4 DEF Misled
<1>7. b \in Buses /\ (b \in Misled <=> ~Sound(b))
  BY AllocationAssumption DEF Misled
<1>8. PICK S, E, S2, E2 : S = Invented /\ E = Misled /\ S2 = Invented' /\ E2 = Misled'
  OBVIOUS
<1>9. IsFiniteSet(S) /\ IsFiniteSet(E) /\ IsFiniteSet(S2) /\ IsFiniteSet(E2)
  BY <1>8, InventedFinite
<1>10. /\ S2 \subseteq S \cup {s} /\ E2 \subseteq E \cup {b}
       /\ b \notin E => S2 \subseteq S
       /\ quiet => E2 \subseteq E \ {b}
       /\ Cardinality(S) + Cardinality(E) <= trouble.mishaps
  BY <1>4, <1>5, <1>6, <1>7, <1>8 DEF MishapsPay
<1> HIDE DEF quiet, b
<1>11. /\ S2 \subseteq S /\ E2 \subseteq E
          => Cardinality(S2) + Cardinality(E2) <= Cardinality(S) + Cardinality(E)
       /\ S2 \subseteq S /\ E2 \subseteq E \cup {b}
          => Cardinality(S2) + Cardinality(E2) <= Cardinality(S) + Cardinality(E) + 1
       /\ S2 \subseteq S \cup {s} /\ E2 \subseteq E
          => Cardinality(S2) + Cardinality(E2) <= Cardinality(S) + Cardinality(E) + 1
       /\ S2 \subseteq S \cup {s} /\ E2 \subseteq E \ {b} /\ b \in E
          => Cardinality(S2) + Cardinality(E2) <= Cardinality(S) + Cardinality(E)
       /\ Cardinality(S2) \in Nat /\ Cardinality(E2) \in Nat
       /\ Cardinality(S) \in Nat /\ Cardinality(E) \in Nat
  BY <1>9, Sums
<1>12. Cardinality(S2) + Cardinality(E2) <= trouble.mishaps + n
  <2>1. CASE b \notin E /\ quiet
    BY <1>2, <1>10, <2>1, <1>11, SMT
  <2>2. CASE b \notin E /\ ~quiet
    BY <1>1, <1>2, <1>10, <2>2, <1>11, SMT
  <2>3. CASE b \in E /\ quiet
    BY <1>2, <1>10, <2>3, <1>11, SMT
  <2>4. CASE b \in E /\ ~quiet
    <3>1. E2 \subseteq E
      BY <1>10, <2>4
    <3> QED BY <1>1, <1>2, <1>10, <2>4, <3>1, <1>11, SMT
  <2> QED BY <2>1, <2>2, <2>3, <2>4
<1> QED BY <1>2, <1>3, <1>8, <1>12 DEF MishapsPay

\* A step that invents nothing and misleads at most the bus of which somebody misses
\* a message.
LEMMA OthersPay ==
    ASSUME DNAInv, MishapsPay, DBInv', NEW n \in Nat, NEW b,
           trouble' \in [mishaps : Nat, restarts : Nat], trouble'.mishaps = trouble.mishaps + n,
           \A v \in Nodes : node'[v].ofs < UidLen,
           Invented' \subseteq Invented,
           \A c \in Buses : Sound(c) => Sound(c)' \/ (c = b /\ n # 0)
    PROVE  MishapsPay'
<1>1. PICK S, E, S2, E2 : S = Invented /\ E = Misled /\ S2 = Invented' /\ E2 = Misled'
  OBVIOUS
<1>2. IsFiniteSet(S) /\ IsFiniteSet(E) /\ IsFiniteSet(S2) /\ IsFiniteSet(E2)
  BY <1>1, InventedFinite
<1>3. /\ S2 \subseteq S /\ E2 \subseteq E \cup {b} /\ (n = 0 => E2 \subseteq E)
      /\ Cardinality(S) + Cardinality(E) <= trouble.mishaps /\ trouble.mishaps \in Nat
  BY <1>1 DEF MishapsPay, Misled
<1>4. /\ S2 \subseteq S /\ E2 \subseteq E
         => Cardinality(S2) + Cardinality(E2) <= Cardinality(S) + Cardinality(E)
      /\ S2 \subseteq S /\ E2 \subseteq E \cup {b}
         => Cardinality(S2) + Cardinality(E2) <= Cardinality(S) + Cardinality(E) + 1
      /\ Cardinality(S2) \in Nat /\ Cardinality(E2) \in Nat
      /\ Cardinality(S) \in Nat /\ Cardinality(E) \in Nat
  BY <1>2, Sums
<1>5. Cardinality(S2) + Cardinality(E2) <= trouble.mishaps + n
  <2>1. CASE n = 0
    BY <1>3, <1>4, <2>1, SMT
  <2>2. CASE n # 0
    BY <1>3, <1>4, <2>2, SMT
  <2> QED BY <2>1, <2>2
<1> QED BY <1>1, <1>5 DEF MishapsPay

\* handle_allocation_response() misleads only if somebody misses it.
LEMMA AnswerPays ==
    ASSUME DNAInv, MishapsPay, NEW b \in Buses, NEW M \in SUBSET Waiting(b),
           handle_allocation_response(b, M), DBInv'
    PROVE  MishapsPay'
<1>1. PICK n \in Nat : n = Cardinality(M) /\ (M # {} => n # 0)
  BY Missed, SMT DEF Waiting, OnBus
<1>2. /\ trouble' \in [mishaps : Nat, restarts : Nat]
      /\ trouble'.mishaps = trouble.mishaps + n
  BY <1>1, SMT DEF MishapsPay, handle_allocation_response, Trouble
<1>3. PICK x : x = Head(replies[b])
  OBVIOUS
<1>4. /\ replies \in [Buses -> Seq(Reply)] /\ replies[b] \in Seq(Reply) /\ replies[b] # <<>>
      /\ Len(replies[b]) >= 1 /\ x = replies[b][1] /\ x \in Reply
  <2>1. replies[b] \in Seq(Reply) /\ replies[b] # <<>> /\ replies \in [Buses -> Seq(Reply)]
    BY DEF DNAInv, NetType, handle_allocation_response
  <2> QED BY <1>3, <2>1, SMT
<1>5. Len(x.uid) \in Nat
  BY <1>4, SMT DEF Reply, Start
<1>6. /\ node' = [v \in Nodes |-> IF v \in Waiting(b) \ M THEN Hears(v, x) ELSE node[v]]
      /\ replies' = [replies EXCEPT ![b] = Tail(@)] /\ UNCHANGED <<dbVars, rcvd>>
  BY <1>3 DEF handle_allocation_response
<1>7. \A v \in Nodes : node[v] \in [id : 0 .. MaxNodeId, ofs : Nat] /\ node[v].ofs < UidLen
  BY DEF DNAInv, NetType, MishapsPay
<1>8. ASSUME NEW v \in Nodes
      PROVE  /\ Hears(v, x).ofs < UidLen
             /\ Hears(v, x).id = 0 => node[v].id = 0 \/ (Len(x.uid) >= UidLen /\ x.id = 0)
             /\ Hears(v, x).ofs # 0 =>
                   \/ Hears(v, x).ofs = node[v].ofs
                   \/ /\ Len(x.uid) < UidLen /\ Hears(v, x).ofs = Len(x.uid)
                      /\ SubSeq(v, 1, Len(x.uid)) = x.uid
  BY <1>5, <1>7, AllocationAssumption, SMT DEF Hears
<1>9. \A v \in Nodes : node'[v].ofs < UidLen
  BY <1>6, <1>7, <1>8
<1>10. Invented' = Invented
  BY <1>6 DEF Invented, dbVars
<1>11. \A c \in Buses : \A v \in Waiting(c)' :
          v \in Waiting(c) /\ node'[v] = IF v \in Waiting(b) \ M THEN Hears(v, x) ELSE node[v]
  BY <1>6 DEF Waiting, OnBus
<1>12. ASSUME NEW c \in Buses, Sound(c), c # b PROVE Sound(c)'
  <2>1. replies'[c] = replies[c] /\ rcvd'[c] = rcvd[c]
    BY <1>4, <1>6, <1>12
  <2>2. \A v \in Waiting(c)' : v \in Waiting(c) /\ node'[v] = node[v]
    BY <1>11, <1>12 DEF Waiting, OnBus
  <2> QED BY <1>12, <2>1, <2>2 DEF Sound
<1>13. ASSUME Sound(b), M = {} PROVE Sound(b)'
  <2>1. replies'[b] = Tail(replies[b]) /\ rcvd'[b] = rcvd[b]
    BY <1>4, <1>6
  <2>2. \A k \in 1 .. Len(replies'[b]) :
           k + 1 \in 1 .. Len(replies[b]) /\ replies'[b][k] = replies[b][k + 1]
    BY <1>4, <2>1, SMT
  <2>3. ASSUME NEW v \in Waiting(b)', node'[v].ofs # 0
        PROVE  rcvd[b] \in {<<>>, SubSeq(v, 1, node'[v].ofs)}
    <3>1. v \in Waiting(b) /\ v \in Nodes /\ node'[v] = Hears(v, x)
      BY <1>11, <1>13, <2>3 DEF Waiting, OnBus
    <3>2. CASE node'[v].ofs = node[v].ofs
      BY <1>13, <2>3, <3>1, <3>2 DEF Sound
    <3>3. CASE Len(x.uid) < UidLen /\ node'[v].ofs = Len(x.uid) /\ SubSeq(v, 1, Len(x.uid)) = x.uid
      BY <1>4, <1>13, <3>3, SMT DEF Sound
    <3> QED BY <1>8, <2>3, <3>1, <3>2, <3>3
  <2> QED BY <1>13, <2>1, <2>2, <2>3 DEF Sound
<1> QED BY <1>1, <1>2, <1>9, <1>10, <1>12, <1>13, OthersPay

\* A unique ID of a node or of the server is registered, or nothing is.
LEMMA RegistersKnown ==
    ASSUME DBInv, NEW i \in NodeIds, NEW u \in Nodes \cup {OwnUid}, UNCHANGED saved,
           register_uid(i, u) \/ UNCHANGED <<records, registered>>
    PROVE  Invented' \subseteq Invented
<1>1. \A n \in NodeIds : records'[n] \in {records[n], NoUid, u} /\ saved'[n] = saved[n]
  BY DEF register_uid, DBInv
<1> QED BY <1>1, DNAAssumption DEF Invented

\* Every step pays.
LEMMA PaysInductive == DNAInv /\ MishapsPay /\ [DNANext]_dnaVars => MishapsPay'
<1> SUFFICES ASSUME DNAInv, MishapsPay, [DNANext]_dnaVars PROVE MishapsPay'
  OBVIOUS
<1>1. DBInv' /\ DBInv /\ NetType
  BY DNAInductive DEF DNAInv
<1>2. trouble \in [mishaps : Nat, restarts : Nat] /\ \A v \in Nodes : node[v].ofs < UidLen
  BY DEF MishapsPay
<1>3. ASSUME trouble' = trouble \/ Trouble("restarts", 1)
      PROVE  /\ trouble' \in [mishaps : Nat, restarts : Nat]
             /\ trouble'.mishaps = trouble.mishaps + 0
  BY <1>2, <1>3, SMT DEF Trouble
<1>4. ASSUME trouble' = trouble \/ Trouble("restarts", 1), \A v \in Nodes : node'[v].ofs < UidLen,
             Invented' \subseteq Invented, \A c \in Buses : Sound(c) => Sound(c)'
      PROVE  MishapsPay'
  BY <1>1, <1>3, <1>4, OthersPay
<1>5. ASSUME UNCHANGED <<node, rcvd, replies>>
      PROVE  (\A v \in Nodes : node'[v].ofs < UidLen) /\ \A c \in Buses : Sound(c) => Sound(c)'
  BY <1>2, <1>5 DEF Sound, Waiting, OnBus
<1>6. ASSUME NEW u \in Nodes, NEW missed \in BOOLEAN, NEW late \in BOOLEAN,
             NEW M \in SUBSET Waiting(BusOf[u]), can_do_dna(u, M, missed, late)
      PROVE  MishapsPay'
  BY <1>1, <1>6, AskPays
<1>7. ASSUME NEW b \in Buses, init(b) PROVE MishapsPay'
  <2>1. Invented' \subseteq Invented
    BY <1>1, <1>7, RegistersKnown, AllocationAssumption DEF init, init_server
  <2> QED BY <1>4, <1>5, <1>7, <2>1 DEF init
<1>8. ASSUME NEW b \in Buses, NEW M \in SUBSET Waiting(b), handle_allocation_response(b, M)
      PROVE  MishapsPay'
  BY <1>1, <1>8, AnswerPays
<1>9. ASSUME NEW u \in Nodes, NodeInfo(u) PROVE MishapsPay'
  <2>1. node[u].id \in NodeIds
    BY <1>1, <1>9, DNAAssumption, SMT DEF NodeInfo, NetType, NodeIds
  <2>2. Invented' \subseteq Invented
    BY <1>1, <1>9, <2>1, RegistersKnown DEF NodeInfo, handle_node_info
  <2> QED BY <1>4, <1>5, <1>9, <2>2 DEF NodeInfo
<1>10. ASSUME NEW u \in Nodes, NEW id \in NewIds, NodeRestarts(u, id) PROVE MishapsPay'
  <2>1. \A v \in Nodes : node'[v] = IF v = u THEN [id |-> id, ofs |-> 0] ELSE node[v]
    BY <1>1, <1>10 DEF NodeRestarts, NetType
  <2>2. \A v \in Nodes : node'[v].ofs < UidLen
    BY <1>2, <2>1, AllocationAssumption, SMT
  <2>3. \A v \in Nodes : node'[v].ofs # 0 => node'[v] = node[v]
    BY <2>1, SMT
  <2>4. \A c \in Buses : Sound(c) => Sound(c)'
    BY <1>10, <2>3 DEF Sound, Waiting, OnBus, NodeRestarts
  <2>5. Invented' = Invented
    BY <1>10 DEF NodeRestarts, Invented, dbVars
  <2> QED BY <1>4, <1>10, <2>2, <2>4, <2>5 DEF NodeRestarts
<1>11. ASSUME NEW b \in Buses, ClearDatabase(b) PROVE MishapsPay'
  <2>1. Invented' \subseteq Invented
    BY <1>11, DNAAssumption DEF ClearDatabase, reset, Invented
  <2> QED BY <1>4, <1>5, <1>11, <2>1 DEF ClearDatabase
<1>12. ASSUME PowerCycle PROVE MishapsPay'
  <2>1. Invented' \subseteq Invented
    BY <1>12 DEF PowerCycle, Restart, Invented
  <2>2. \A c \in Buses : Sound(c)'
    BY <1>12 DEF PowerCycle, Sound
  <2> QED BY <1>2, <1>4, <1>12, <2>1, <2>2 DEF PowerCycle
<1>13. ASSUME NEW i \in NodeIds, SaveRecord(i) PROVE MishapsPay'
  <2>1. \A n \in NodeIds : saved'[n] \in {saved[n], records[n], TornUid} /\ records'[n] = records[n]
    BY <1>1, <1>13 DEF SaveRecord, Save, DBInv
  <2>2. Invented' \subseteq Invented
    BY <2>1, DNAAssumption DEF Invented
  <2> QED BY <1>4, <1>5, <1>13, <2>2 DEF SaveRecord, netVars
<1>14. CASE UNCHANGED dnaVars
  <2>1. Invented' = Invented
    BY <1>14 DEF dnaVars, dbVars, Invented
  <2> QED BY <1>4, <1>5, <1>14, <2>1 DEF dnaVars, netVars
<1> QED BY <1>6, <1>7, <1>8, <1>9, <1>10, <1>11, <1>12, <1>13, <1>14 DEF DNANext, Boot

\* At first nothing is invented and nobody misled.
LEMMA PaysInitial == DNAInit => MishapsPay
<1> SUFFICES ASSUME DNAInit PROVE MishapsPay
  OBVIOUS
<1>1. Invented = {}
  BY DNAAssumption DEF DNAInit, DBInit, Invented
<1>2. Misled = {}
  BY DEF DNAInit, Misled, Sound
<1>3. Cardinality(Invented) = 0 /\ Cardinality(Misled) = 0
  BY <1>1, <1>2, FS_EmptySet
<1> QED BY <1>3, AllocationAssumption, SMT DEF DNAInit, MishapsPay

\* The node IDs of strangers are such registrations.
LEMMA PaysForStrangers == DNAInv /\ MishapsPay => StrangersAreRare
<1> SUFFICES ASSUME DNAInv, MishapsPay PROVE StrangersAreRare
  OBVIOUS
<1>1. PICK S, I : S = Strangers /\ I = Invented
  OBVIOUS
<1>2. IsFiniteSet(I) /\ IsFiniteSet(Misled)
  BY <1>1, InventedFinite
<1>3. S \subseteq I
  BY <1>1 DEF Strangers, Invented, DNAInv, DBInv, RegisteredIsStored
<1>4. Cardinality(S) <= Cardinality(I) /\ IsFiniteSet(S)
  BY <1>2, <1>3, FS_Subset
<1>5. Cardinality(S) \in Nat /\ Cardinality(I) \in Nat /\ Cardinality(Misled) \in Nat
  BY <1>2, <1>4, FS_CardinalityType
<1> QED BY <1>1, <1>4, <1>5, SMT DEF MishapsPay, StrangersAreRare

\* A node ID is lost to a unique ID that no node has only where a mishap was paid for
\* it: however many nodes ask, and however often the autopilot restarts.
THEOREM StrangersNeedMishaps == DNASpec => []StrangersAreRare
BY PaysInitial, PaysInductive, PaysForStrangers, DNAInitial, DNAInductive, PTL DEF DNASpec
-----------------------------------------------------------------------------
(* ByteBuffer: what the threads rely on                                    *)

\* (x) % Size of the code, for the sums of an index and a length.
Wrap(x) == IF x < Size THEN x ELSE x - Size

WType == [pc : {"idle", "copy", "store", "refused"}, data : Seq(Bytes), k : Nat, pos : Cells]
RType == [pc : {"idle", "ptr", "read", "clear"}, n : Nat, first : Nat, data : Seq(Bytes)]

Types ==
    /\ buf \in [Cells -> Bytes] /\ head \in Cells /\ tail \in Cells
    /\ w \in WType
    /\ r \in RType

\* The bytes of the writer fit, and those copied are behind tail.
WriteInv ==
    /\ w.k <= Len(w.data) /\ w.pc # "refused"
    /\ w.pc \in {"copy", "store"} =>
           /\ r.pc # "clear" /\ Len(w.data) <= space
           /\ \A i \in 0 .. w.k - 1 : buf[Wrap(tail + i)] = w.data[i + 1]
    /\ w.pc = "copy" => w.pos = tail
    /\ w.pc = "store" => w.pos = Wrap(tail + w.k)

\* The bytes the reader wants are there, those read are the first ones, and the
\* parts of the iovec meet at the end of buf.
ReadInv ==
    /\ r.pc \in {"ptr", "read"} => r.n <= available
    /\ r.pc = "ptr" => r.data = <<>>
    /\ r.pc = "read" =>
           /\ r.first <= r.n /\ Len(r.data) <= r.n
           /\ IF r.first = r.n THEN head + r.n <= Size ELSE head + r.first = Size
           /\ \A i \in 0 .. Len(r.data) - 1 : r.data[i + 1] = buf[Cell(i)]
    /\ r.pc = "clear" => tail = 0 /\ w.pc = "idle"

BufferInv == Types /\ WriteInv /\ ReadInv
-----------------------------------------------------------------------------
\* The remainder that commit() and advance() compute wraps around at most once.
LEMMA WrapIsMod ==
    ASSUME NEW x \in Nat, x < 2 * Size
    PROVE  x % Size = Wrap(x)
<1>1. CASE x < Size
  BY <1>1, BufferAssumption, SMT DEF Wrap
<1>2. CASE x >= Size
  <2>1. x = 1 * Size + (x - Size) /\ x - Size \in 0 .. Size - 1
    BY <1>2, BufferAssumption, SMT
  <2> QED BY <2>1, <1>2, BufferAssumption, Z3 DEF Wrap
<1> QED BY <1>1, <1>2, BufferAssumption, SMT

\* available() and space() share the buffer, but for one cell.
LEMMA Shares ==
    ASSUME head \in Cells, tail \in Cells
    PROVE  /\ available \in 0 .. Size - 1 /\ space \in 0 .. Size - 1
           /\ space = Size - 1 - available
BY BufferAssumption, SMT DEF Cells, available, space

\* The cells behind tail that space() promises are not readable and all differ.
LEMMA FreeCells ==
    ASSUME head \in Cells, tail \in Cells, NEW j \in Nat, j < space
    PROVE  /\ Wrap(tail + j) \in Cells
           /\ \A i \in 0 .. available - 1 : Cell(i) \in Cells /\ Cell(i) # Wrap(tail + j)
           /\ \A i \in 0 .. j - 1 : Wrap(tail + i) # Wrap(tail + j)
BY BufferAssumption, SMT DEF Cells, available, space, Wrap, Cell

\* Idle threads have their types.
LEMMA IdleTypes == WIdle \in WType /\ RIdle \in RType
BY EmptySeq, BufferAssumption, SMT DEF WIdle, RIdle, WType, RType, Cells

\* The strings of a call are sequences.
LEMMA StringsAreSeqs ==
    ASSUME NEW m \in Nat, NEW s \in Strings(m)
    PROVE  s \in Seq(Bytes) /\ Len(s) > 0
<1>1. PICK n \in 1 .. m : s \in [1 .. n -> Bytes]
  BY DEF Strings
<1>2. s \in Seq(Bytes) /\ Len(s) = n
  BY <1>1, SeqDef, SMT
<1> QED BY <1>1, <1>2, SMT
-----------------------------------------------------------------------------
\* The buffer starts empty, with both threads idle.
LEMMA BufferInitInv == BufferInit => BufferInv
BY BufferAssumption, EmptySeq, SMT
   DEF BufferInit, BufferInv, Types, WType, RType, WriteInv, ReadInv, Cells, WIdle, RIdle

\* reserve() takes no more than the free space.
LEMMA ReserveInv ==
    ASSUME ClearLocked, BufferInv, NEW s \in Strings(MaxLen), Reserve(s)
    PROVE  BufferInv'
<1> DEFINE m == Lesser(Len(s), space)
<1>1. s \in Seq(Bytes) /\ Len(s) \in Nat \ {0}
  BY StringsAreSeqs, BufferAssumption, SMT
<1>2. head \in Cells /\ tail \in Cells /\ space \in 0 .. Size - 1
  BY Shares DEF BufferInv, Types, WType, RType
<1>3. m \in Nat /\ m <= Len(s) /\ m <= space
  BY <1>1, <1>2, BufferAssumption, SMT DEF Lesser
<1>4. SubSeq(s, 1, m) \in Seq(Bytes) /\ Len(SubSeq(s, 1, m)) = m
  BY <1>1, <1>3, SubSeqProperties, ElementOfSeq, SMT
<1>5. /\ w' = [pc |-> "copy", data |-> SubSeq(s, 1, m), k |-> 0, pos |-> tail]
      /\ r.pc # "clear" /\ UNCHANGED <<buf, head, tail, r>>
  BY DEF Reserve
<1>6. Types'
  BY <1>2, <1>4, <1>5 DEF BufferInv, Types, WType, RType
<1>7. WriteInv'
  BY <1>2, <1>3, <1>4, <1>5, SMT DEF WriteInv, space
<1>8. ReadInv'
  BY <1>5 DEF BufferInv, ReadInv, available, Cell
<1> QED BY <1>6, <1>7, <1>8 DEF BufferInv

\* A byte is copied to a cell that is not readable.
LEMMA CopyInv ==
    ASSUME BufferInv, CopyByte
    PROVE  BufferInv'
<1> DEFINE c == Wrap(tail + w.k)
<1>1. /\ w.pc = "copy" /\ w.k < Len(w.data) /\ w.pos = tail
      /\ w' = [w EXCEPT !.k = @ + 1] /\ UNCHANGED <<head, tail, r>>
  BY DEF CopyByte, BufferInv, WriteInv
<1>2. /\ head \in Cells /\ tail \in Cells /\ w.k \in Nat /\ Len(w.data) \in Nat
      /\ w.data \in Seq(Bytes) /\ w.data[w.k + 1] \in Bytes
  BY <1>1, LenProperties, ElementOfSeq, SMT DEF BufferInv, Types, WType, RType
<1>3. w.k < space /\ space \in 0 .. Size - 1 /\ available \in 0 .. Size - 1
  BY <1>1, <1>2, Shares, BufferAssumption, SMT DEF BufferInv, WriteInv
<1>4. WCell(w.k) = c
  BY <1>1, <1>2, BufferAssumption, SMT DEF WCell, Wrap, Cells
<1>5. /\ c \in Cells
      /\ \A i \in 0 .. available - 1 : Cell(i) \in Cells /\ Cell(i) # c
      /\ \A i \in 0 .. w.k - 1 : Wrap(tail + i) # c
  BY <1>2, <1>3, FreeCells
<1>6. buf' = [buf EXCEPT ![c] = w.data[w.k + 1]] /\ buf \in [Cells -> Bytes]
  BY <1>4 DEF CopyByte, BufferInv, Types
<1>7. Types'
  <2>1. buf' \in [Cells -> Bytes]
    BY <1>2, <1>5, <1>6
  <2>2. w' \in WType
    BY <1>1, <1>2, SMT DEF BufferInv, Types, WType, RType
  <2> QED BY <1>1, <2>1, <2>2 DEF BufferInv, Types, WType, RType
<1>8. WriteInv'
  <2>1. w'.k = w.k + 1 /\ w'.pc = "copy" /\ w'.data = w.data /\ w'.pos = w.pos
    BY <1>1 DEF BufferInv, Types, WType, RType
  <2>2. \A i \in 0 .. w'.k - 1 : buf'[Wrap(tail + i)] = w.data[i + 1]
    <3> SUFFICES ASSUME NEW i \in 0 .. w.k
                 PROVE  buf'[Wrap(tail + i)] = w.data[i + 1]
      BY <2>1, <1>2, SMT
    <3>1. CASE i = w.k
      BY <3>1, <1>5, <1>6
    <3>2. CASE i < w.k
      <4>1. Wrap(tail + i) \in Cells /\ Wrap(tail + i) # c
        BY <3>2, <1>2, <1>3, <1>5, BufferAssumption, SMTT(20) DEF Wrap, Cells
      <4>2. buf[Wrap(tail + i)] = w.data[i + 1]
        BY <3>2, <1>1, <1>2, SMT DEF BufferInv, WriteInv
      <4> QED BY <4>1, <4>2, <1>6
    <3> QED BY <3>1, <3>2, <1>2, SMT
  <2> QED BY <1>1, <1>2, <2>1, <2>2, SMT DEF BufferInv, WriteInv, space, Wrap
<1>9. ReadInv'
  <2>1. ASSUME r.pc = "read", NEW i \in 0 .. Len(r.data) - 1
        PROVE  r.data[i + 1] = buf'[Cell(i)]
    <3>1. i \in 0 .. available - 1
      BY <2>1, <1>3, LenProperties, BufferAssumption, SMT DEF BufferInv, ReadInv, Types, RType
    <3>2. r.data[i + 1] = buf[Cell(i)]
      BY <2>1 DEF BufferInv, ReadInv
    <3> QED BY <3>1, <3>2, <1>5, <1>6
  <2> QED BY <1>1, <2>1 DEF BufferInv, ReadInv, available, Cell
<1> QED BY <1>7, <1>8, <1>9 DEF BufferInv

\* commit() finds the space that was reserved.
LEMMA CommitInv ==
    ASSUME BufferInv, Commit
    PROVE  BufferInv'
<1>1. /\ w.pc = "copy" /\ UNCHANGED <<buf, head, tail, r>>
      /\ head \in Cells /\ tail \in Cells /\ w.k \in Nat /\ Len(w.data) \in Nat
  BY LenProperties DEF Commit, BufferInv, Types, WType
<1>2. w.k <= space /\ space \in 0 .. Size - 1
  BY <1>1, Shares, BufferAssumption, SMT DEF BufferInv, WriteInv
<1>3. (tail + w.k) % Size = Wrap(tail + w.k) /\ Wrap(tail + w.k) \in Cells
  <2>1. tail + w.k \in Nat /\ tail + w.k < 2 * Size
    BY <1>1, <1>2, BufferAssumption, SMT DEF Cells
  <2> QED BY <2>1, WrapIsMod, BufferAssumption, SMT DEF Wrap, Cells
<1>4. w' = [w EXCEPT !.pc = "store", !.pos = Wrap(tail + w.k)]
  BY <1>2, <1>3 DEF Commit, CommitOk
<1>5. /\ w' \in WType
      /\ w'.pc = "store" /\ w'.pos = Wrap(tail + w.k) /\ w'.k = w.k /\ w'.data = w.data
  BY <1>3, <1>4 DEF BufferInv, Types, WType, RType
<1>6. Types'
  BY <1>1, <1>5 DEF BufferInv, Types, WType, RType
<1>7. WriteInv'
  BY <1>1, <1>5 DEF BufferInv, WriteInv, space, Wrap
<1>8. ReadInv'
  BY <1>1, <1>5 DEF BufferInv, ReadInv, available, Cell
<1> QED BY <1>6, <1>7, <1>8 DEF BufferInv

\* The store of tail makes the copied bytes available.
LEMMA StoreFacts ==
    ASSUME BufferInv, StoreTail
    PROVE  /\ w.pc = "store" /\ r.pc # "clear" /\ UNCHANGED <<buf, head, r>>
           /\ w.k \in Nat /\ tail' = Wrap(tail + w.k) /\ tail' \in Cells /\ w' = WIdle
           /\ available' = available + w.k /\ available' <= Size - 1
<1>1. /\ w.pc = "store" /\ r.pc # "clear" /\ UNCHANGED <<buf, head, r>> /\ w' = WIdle
      /\ tail' = Wrap(tail + w.k) /\ w.k \in Nat /\ tail \in Cells /\ head \in Cells
      /\ w.pos \in Cells /\ tail' = w.pos
  BY DEF StoreTail, BufferInv, Types, WType, WriteInv
<1>2. w.k <= space /\ space \in 0 .. Size - 1
  <2>1. Len(w.data) \in Nat
    BY LenProperties DEF BufferInv, Types, WType, RType
  <2> QED BY <1>1, <2>1, Shares, BufferAssumption, SMT DEF BufferInv, WriteInv
<1>3. available' = available + w.k /\ available' <= Size - 1
  BY <1>1, <1>2, BufferAssumption, SMT DEF available, space, Wrap, Cells
<1> QED BY <1>1, <1>3

\* The reader keeps what it has: the bytes only become more.
LEMMA StoreInv ==
    ASSUME BufferInv, StoreTail
    PROVE  BufferInv'
<1>1. Types'
  BY StoreFacts, IdleTypes DEF BufferInv, Types
<1>2. WriteInv'
  BY StoreFacts, EmptySeq, SMT DEF WriteInv, WIdle
<1>3. ReadInv'
  <2>1. available \in Nat /\ r.n \in Nat
    BY Shares, BufferAssumption, SMT DEF BufferInv, Types, WType, RType
  <2>2. available' >= available
    BY <2>1, StoreFacts, SMT
  <2> QED BY <2>1, <2>2, StoreFacts, SMT DEF BufferInv, ReadInv, Cell
<1> QED BY <1>1, <1>2, <1>3 DEF BufferInv

\* peekiovec() wants no more than is available.
LEMMA PeekInv ==
    ASSUME BufferInv, NEW len \in 1 .. MaxLen, Peek(len)
    PROVE  BufferInv'
<1>1. available \in 0 .. Size - 1
  BY Shares DEF BufferInv, Types
<1>2. /\ Lesser(len, available) \in Nat /\ Lesser(len, available) <= available
      /\ UNCHANGED <<buf, head, tail, w>>
      /\ r' = [pc |-> "ptr", n |-> Lesser(len, available), first |-> 0, data |-> <<>>]
  BY <1>1, BufferAssumption, SMT DEF Peek, Lesser
<1>3. r' \in RType /\ r'.pc = "ptr" /\ r'.n <= available
  BY <1>2, EmptySeq DEF RType
<1>4. Types'
  BY <1>2, <1>3 DEF BufferInv, Types
<1>5. WriteInv'
  BY <1>2, <1>3 DEF BufferInv, WriteInv, space, Wrap
<1>6. ReadInv'
  BY <1>2, <1>3 DEF ReadInv, available
<1> QED BY <1>4, <1>5, <1>6 DEF BufferInv

\* The tail that readptr() reads may be newer; the first part is right anyway.
LEMMA ReadPtrInv ==
    ASSUME BufferInv, ReadPtr
    PROVE  BufferInv'
<1> DEFINE c == IF head > tail THEN Size - head ELSE tail - head
           f == Lesser(c, r.n)
<1>1. /\ r.pc = "ptr" /\ UNCHANGED <<buf, head, tail, w>>
      /\ r' = [r EXCEPT !.pc = "read", !.first = f]
      /\ r \in RType /\ r.n \in Nat /\ r.n <= available /\ head \in Cells /\ tail \in Cells
  BY DEF ReadPtr, BufferInv, Types, RType, ReadInv
<1>2. f \in Nat /\ f <= r.n /\ IF f = r.n THEN head + r.n <= Size ELSE head + f = Size
  BY <1>1, BufferAssumption, SMT DEF available, Cells, Lesser
<1>3. /\ r' \in RType /\ r'.pc = "read" /\ r'.n = r.n /\ r'.first = f /\ r'.data = r.data
  BY <1>1, <1>2 DEF RType
<1>4. r.data = <<>>
  BY <1>1 DEF BufferInv, ReadInv
<1>5. Types'
  BY <1>1, <1>3 DEF BufferInv, Types
<1>6. WriteInv'
  BY <1>1, <1>3 DEF BufferInv, WriteInv, space, Wrap
<1>7. ReadInv'
  BY <1>1, <1>2, <1>3, <1>4, EmptySeq, SMT DEF ReadInv, available
<1> QED BY <1>5, <1>6, <1>7 DEF BufferInv

\* A byte is read from its cell.
LEMMA ReadByteInv ==
    ASSUME BufferInv, ReadByte
    PROVE  BufferInv'
<1> DEFINE k == Len(r.data)
<1>1. /\ r.pc = "read" /\ k < r.n /\ UNCHANGED <<buf, head, tail, w>>
      /\ r' = [r EXCEPT !.data = Append(@, buf[RCell(k)])]
      /\ r \in RType /\ r.n \in Nat /\ r.first \in Nat /\ r.data \in Seq(Bytes) /\ k \in Nat
      /\ head \in Cells /\ tail \in Cells /\ buf \in [Cells -> Bytes]
  BY LenProperties DEF ReadByte, BufferInv, Types, RType
<1>2. r.n <= available /\ available \in 0 .. Size - 1
  BY <1>1, Shares DEF BufferInv, ReadInv
<1>3. RCell(k) = Cell(k) /\ Cell(k) \in Cells
  <2>1. r.first <= r.n /\ IF r.first = r.n THEN head + r.n <= Size ELSE head + r.first = Size
    BY <1>1 DEF BufferInv, ReadInv
  <2>2. head \in Nat /\ head < Size /\ Size \in Nat /\ r.n < Size
    BY <1>1, <1>2, BufferAssumption, SMT DEF Cells
  <2>3. k < r.n
    BY <1>1
  <2> HIDE DEF k
  <2>4. k \in Nat /\ r.n \in Nat /\ r.first \in Nat
    BY <1>1
  <2> QED BY <2>1, <2>2, <2>3, <2>4, SMT DEF RCell, Cell, Cells
<1> DEFINE d == Append(r.data, buf[Cell(k)])
<1>4. /\ d \in Seq(Bytes) /\ Len(d) = k + 1 /\ d[k + 1] = buf[Cell(k)]
      /\ \A i \in 1 .. k : d[i] = r.data[i]
  BY <1>1, <1>3, AppendProperties, SMT
<1>5. r' \in RType /\ r'.pc = "read" /\ r'.n = r.n /\ r'.first = r.first /\ r'.data = d
  BY <1>1, <1>3, <1>4 DEF RType
<1>6. Types'
  BY <1>1, <1>5 DEF BufferInv, Types
<1>7. WriteInv'
  BY <1>1, <1>5 DEF BufferInv, WriteInv, space, Wrap
<1>8. ReadInv'
  <2>1. \A i \in 0 .. k : d[i + 1] = buf[Cell(i)]
    <3> SUFFICES ASSUME NEW i \in 0 .. k PROVE d[i + 1] = buf[Cell(i)]
      OBVIOUS
    <3>1. CASE i = k
      BY <3>1, <1>4
    <3>2. CASE i < k
      BY <3>2, <1>1, <1>4, SMT DEF BufferInv, ReadInv
    <3> QED BY <3>1, <3>2, <1>1, SMT
  <2>2. k + 1 <= r.n /\ Len(r'.data) = k + 1
    BY <1>1, <1>4, <1>5, SMT
  <2> QED BY <1>1, <1>2, <1>5, <2>1, <2>2, SMT DEF BufferInv, ReadInv, available, Cell
<1> QED BY <1>6, <1>7, <1>8 DEF BufferInv

\* advance() moves head over the bytes that were read, which leaves those behind
\* them where they are.
LEMMA AdvanceFacts ==
    ASSUME BufferInv, NEW n \in 0 .. MaxLen, Advance(n)
    PROVE  /\ r.pc = "read" /\ UNCHANGED <<buf, tail, w>> /\ r' = RIdle
           /\ n \in Nat /\ n <= available /\ head' = Wrap(head + n) /\ head' \in Cells
           /\ available' = available - n /\ space' = space + n
<1>1. /\ r.pc = "read" /\ UNCHANGED <<buf, tail, w>> /\ r' = RIdle
      /\ head \in Cells /\ tail \in Cells /\ n \in Nat /\ n <= Len(r.data) /\ Len(r.data) \in Nat
      /\ r.n \in Nat /\ Len(r.data) <= r.n /\ r.n <= available
  BY LenProperties, BufferAssumption, SMT DEF Advance, BufferInv, Types, RType, ReadInv
<1>2. available \in 0 .. Size - 1 /\ space \in 0 .. Size - 1
  BY <1>1, Shares
<1>3. n <= available
  BY <1>1, <1>2, BufferAssumption, SMT
<1>4. head' = Wrap(head + n) /\ Wrap(head + n) \in Cells
  <2>1. head + n \in Nat /\ head + n < 2 * Size
    BY <1>1, <1>2, <1>3, BufferAssumption, SMT DEF Cells
  <2>2. head' = (head + n) % Size
    BY <1>2, <1>3, BufferAssumption, SMT DEF Advance
  <2> QED BY <2>1, <2>2, WrapIsMod, BufferAssumption, SMT DEF Wrap, Cells
<1>5. available' = available - n /\ space' = space + n
  BY <1>1, <1>3, <1>4, BufferAssumption, SMT DEF available, space, Wrap, Cells
<1> QED BY <1>1, <1>3, <1>4, <1>5

\* The writer keeps what it reserved: the space only grows.
LEMMA AdvanceInv ==
    ASSUME BufferInv, NEW n \in 0 .. MaxLen, Advance(n)
    PROVE  BufferInv'
<1>1. Types'
  BY AdvanceFacts, IdleTypes DEF BufferInv, Types
<1>2. WriteInv'
  <2>1. space \in Nat /\ Len(w.data) \in Nat /\ space' >= space
    BY AdvanceFacts, Shares, LenProperties, BufferAssumption, SMT DEF BufferInv, Types, WType
  <2>2. r'.pc = "idle"
    BY AdvanceFacts, SMT DEF RIdle
  <2> QED BY <2>1, <2>2, AdvanceFacts, SMTT(20) DEF BufferInv, WriteInv, Wrap
<1>3. ReadInv'
  BY AdvanceFacts, SMT DEF ReadInv, RIdle
<1> QED BY <1>1, <1>2, <1>3 DEF BufferInv

\* clear() excludes the writer.
LEMMA ClearTailInv ==
    ASSUME ClearLocked, BufferInv, ClearTail
    PROVE  BufferInv'
<1>1. /\ w.pc = "idle" /\ tail' = 0 /\ 0 \in Cells /\ UNCHANGED <<buf, head, w>>
      /\ r' = [r EXCEPT !.pc = "clear"] /\ r \in RType
  BY BufferAssumption, SMT DEF ClearTail, BufferInv, Types, Cells
<1>2. r' \in RType /\ r'.pc = "clear"
  BY <1>1 DEF RType
<1>3. Types'
  BY <1>1, <1>2 DEF BufferInv, Types
<1>4. WriteInv' /\ ReadInv'
  BY <1>1, <1>2 DEF BufferInv, WriteInv, ReadInv
<1> QED BY <1>3, <1>4 DEF BufferInv

\* The second store of clear().
LEMMA ClearHeadInv ==
    ASSUME BufferInv, ClearHead
    PROVE  BufferInv'
<1>1. /\ w.pc = "idle" /\ head' = 0 /\ 0 \in Cells /\ UNCHANGED <<buf, tail, w>> /\ r' = RIdle
  BY BufferAssumption, SMT DEF ClearHead, BufferInv, ReadInv, Cells
<1>2. Types'
  BY <1>1, IdleTypes DEF BufferInv, Types
<1>3. WriteInv' /\ ReadInv'
  BY <1>1 DEF BufferInv, WriteInv, ReadInv, RIdle
<1> QED BY <1>2, <1>3 DEF BufferInv

\* Every step keeps the invariant.
LEMMA BufferStepInv ==
    ASSUME ClearLocked, BufferInv, [BufferNext]_bufferVars
    PROVE  BufferInv'
<1>1. CASE BufferNext
  BY <1>1, ReserveInv, CopyInv, CommitInv, StoreInv, PeekInv, ReadPtrInv, ReadByteInv,
     AdvanceInv, ClearTailInv, ClearHeadInv DEF BufferNext
<1>2. CASE UNCHANGED bufferVars
  BY <1>2 DEF bufferVars, BufferInv, Types, WriteInv, ReadInv, space, available, Wrap, Cell
<1> QED BY <1>1, <1>2

\* What the two threads rely on is an invariant of the buffer.
THEOREM BufferInvariance ==
    ASSUME ClearLocked
    PROVE  BufferSpec => []BufferInv
<1>1. BufferInv /\ [BufferNext]_bufferVars => BufferInv'
  BY BufferStepInv
<1> QED BY BufferInitInv, <1>1, PTL DEF BufferSpec

\* Every variable keeps its type; indices never leave the buffer.
THEOREM BufferTypeCorrect ==
    ASSUME ClearLocked
    PROVE  BufferSpec => []BufferTypeOK
<1>1. BufferInv => BufferTypeOK
  BY LenProperties, SMT DEF BufferInv, Types, WType, RType, WriteInv, BufferTypeOK
<1> QED BY <1>1, BufferInvariance, PTL

\* The reader gets the bytes at the front of the queue, in order.
THEOREM InOrder ==
    ASSUME ClearLocked
    PROVE  BufferSpec => []ReadsInOrder
<1>1. ASSUME BufferInv, r.pc = "read"
      PROVE  /\ Len(r.data) <= available
             /\ \A i \in 1 .. Len(r.data) : r.data[i] = Queued[i]
  <2>1. /\ r.n \in Nat /\ Len(r.data) \in Nat /\ available \in Nat
        /\ Len(r.data) <= r.n /\ r.n <= available
    BY <1>1, LenProperties, Shares, BufferAssumption, SMT DEF BufferInv, Types, RType, ReadInv
  <2>2. ASSUME NEW i \in 1 .. Len(r.data)
        PROVE  r.data[i] = Queued[i]
    <3>1. i \in 1 .. available /\ i - 1 \in 0 .. Len(r.data) - 1 /\ (i - 1) + 1 = i
      BY <2>1, SMT
    <3>2. r.data[(i - 1) + 1] = buf[Cell(i - 1)]
      BY <1>1, <3>1 DEF BufferInv, ReadInv
    <3> QED BY <3>1, <3>2 DEF Queued
  <2> QED BY <2>1, <2>2, SMT
<1>2. BufferInv => ReadsInOrder
  BY <1>1 DEF ReadsInOrder
<1> QED BY <1>2, BufferInvariance, PTL

\* commit() is never refused.
THEOREM AgreementKept ==
    ASSUME ClearLocked
    PROVE  BufferSpec => []CommitAccepted
<1>1. BufferInv => CommitAccepted
  BY DEF BufferInv, WriteInv, CommitAccepted
<1> QED BY <1>1, BufferInvariance, PTL
-----------------------------------------------------------------------------
\* The contents are a sequence of as many bytes as are available.
LEMMA QueuedSeq ==
    ASSUME Types
    PROVE  /\ Queued \in Seq(Bytes) /\ Len(Queued) = available
           /\ available \in 0 .. Size - 1
           /\ \A i \in 1 .. available : Queued[i] = buf[Cell(i - 1)]
<1>1. available \in 0 .. Size - 1 /\ available \in Nat
  BY Shares, BufferAssumption, SMT DEF Types
<1>2. \A i \in 1 .. available : Cell(i - 1) \in Cells
  BY <1>1, BufferAssumption, SMT DEF Types, Cell, Cells
<1>3. Queued \in [1 .. available -> Bytes]
  BY <1>2 DEF Queued, Types
<1>4. Queued \in Seq(Bytes) /\ Len(Queued) = available
  BY <1>1, <1>3, SeqDef, SMT
<1> QED BY <1>1, <1>4 DEF Queued

\* A commit appends what was written to what was readable.
LEMMA StoreAppends ==
    ASSUME BufferInv, StoreTail
    PROVE  /\ Queued' = Queued \o SubSeq(w.data, 1, w.k)
           /\ Len(Queued') = Len(Queued) + w.k /\ Len(Queued') <= Size - 1
           /\ \A i \in 1 .. Len(Queued) : Queued'[i] = Queued[i]
<1> DEFINE d == SubSeq(w.data, 1, w.k)
<1>1. Types /\ Types'
  BY StoreInv DEF BufferInv
<1>2. /\ Queued \in Seq(Bytes) /\ Len(Queued) = available
      /\ Queued' \in Seq(Bytes) /\ Len(Queued') = available'
      /\ available \in 0 .. Size - 1 /\ available' \in 0 .. Size - 1
      /\ \A i \in 1 .. available : Queued[i] = buf[Cell(i - 1)]
      /\ \A i \in 1 .. available' : Queued'[i] = buf[Cell(i - 1)]
  <2>1. available \in 0 .. Size - 1 /\ available' \in 0 .. Size - 1
    BY <1>1, Shares, StoreFacts, BufferAssumption, SMT DEF Types
  <2>2. \A i \in 1 .. available' : Cell(i - 1) \in Cells
    BY <1>1, <2>1, BufferAssumption, SMT DEF Types, Cell, Cells
  <2>3. Queued' = [i \in 1 .. available' |-> buf[Cell(i - 1)]]
    BY StoreFacts DEF Queued, Cell
  <2>4. Queued' \in [1 .. available' -> Bytes]
    BY <1>1, <2>2, <2>3 DEF Types
  <2>5. Queued' \in Seq(Bytes) /\ Len(Queued') = available'
    BY <2>1, <2>4, SeqDef, SMT
  <2> QED BY <1>1, <2>1, <2>3, <2>5, QueuedSeq
<1>3. available' = available + w.k /\ w.k \in Nat /\ w.k <= Len(w.data) /\ w.data \in Seq(Bytes)
      /\ Len(w.data) \in Nat
  BY StoreFacts, LenProperties DEF BufferInv, Types, WType, WriteInv
<1>4. d \in Seq(Bytes) /\ Len(d) = w.k /\ \A i \in 1 .. w.k : d[i] = w.data[i]
  BY <1>3, SubSeqProperties, ElementOfSeq, SMT
<1>5. \A i \in 1 .. available : Queued'[i] = Queued[i]
  BY <1>2, <1>3, SMT
<1>6. ASSUME NEW i \in 1 .. available + w.k, i > available
      PROVE  Queued'[i] = d[i - available]
  <2> DEFINE j == i - available - 1
  <2>1. j \in 0 .. w.k - 1 /\ j + 1 = i - available
    BY <1>2, <1>3, <1>6, SMTT(20)
  <2>2. Cell(i - 1) = Wrap(tail + j)
    BY <1>1, <1>2, <1>3, <1>6, BufferAssumption, SMT DEF Types, Cell, Wrap, available, Cells
  <2>3. buf[Wrap(tail + j)] = w.data[j + 1]
    BY <2>1, StoreFacts DEF BufferInv, WriteInv
  <2>4. Queued'[i] = buf[Cell(i - 1)]
    BY <1>2, <1>3, <1>6
  <2>5. d[j + 1] = w.data[j + 1]
    BY <2>1, <1>3, <1>4, SMT
  <2> QED BY <2>1, <2>2, <2>3, <2>4, <2>5
<1>7. \A i \in 1 .. Len(Queued) + Len(d) :
          (Queued \o d)[i] = IF i <= Len(Queued) THEN Queued[i] ELSE d[i - Len(Queued)]
  BY <1>2, <1>4, ConcatProperties
<1>8. Queued \o d \in Seq(Bytes) /\ Len(Queued \o d) = Len(Queued')
  BY <1>2, <1>3, <1>4, ConcatProperties, SMT
<1>9. ASSUME NEW i \in 1 .. Len(Queued') PROVE Queued'[i] = (Queued \o d)[i]
  <2>1. /\ Len(Queued) = available /\ Len(d) = w.k /\ i \in 1 .. available + w.k
        /\ available \in Nat /\ w.k \in Nat
    BY <1>2, <1>3, <1>4, SMT
  <2>2. (Queued \o d)[i] = IF i <= available THEN Queued[i] ELSE d[i - available]
    BY <2>1, <1>7
  <2>3. CASE i <= available
    BY <2>1, <2>2, <2>3, <1>5, SMT
  <2>4. CASE i > available
    BY <2>1, <2>2, <2>4, <1>6, SMT
  <2> QED BY <2>1, <2>3, <2>4, SMT
<1>10. Queued' = Queued \o d
  BY <1>2, <1>8, <1>9, SeqEqual
<1> QED BY <1>2, <1>3, <1>5, <1>10, StoreFacts

\* What commit() makes readable is what was written, behind what was there.
THEOREM OnlyNewBytes ==
    ASSUME ClearLocked
    PROVE  BufferSpec => CommitAppends
<1>1. ASSUME BufferInv, BufferNext, w.pc = "store", w'.pc = "idle"
      PROVE  Queued' = Queued \o SubSeq(w.data, 1, w.k)
  <2>1. w' # w
    BY <1>1
  <2>2. StoreTail
    BY <1>1, <2>1 DEF BufferNext, Reserve, CopyByte, Commit, Peek, ReadPtr, ReadByte, Advance,
                      ClearTail, ClearHead
  <2> QED BY <1>1, <2>2, StoreAppends
<1>2. BufferInv /\ [BufferNext]_bufferVars =>
        [w.pc = "store" /\ w'.pc = "idle" /\ r.pc = "idle" =>
           Queued' = Queued \o SubSeq(w.data, 1, w.k)]_bufferVars
  BY <1>1
<1> QED BY <1>2, BufferInvariance, PTL DEF BufferSpec, CommitAppends
-----------------------------------------------------------------------------
(* The refinement of the queue                                             *)

queue == IF r.pc = "clear" THEN <<>> ELSE Queued

\* An empty buffer is an empty queue.
LEMMA EmptyQueued ==
    ASSUME Types, available = 0
    PROVE  Queued = <<>>
BY QueuedSeq, EmptySeq

\* The contents do not change when the readable bytes and the indices do not.
LEMMA SameQueued ==
    ASSUME Types, UNCHANGED <<head, tail>>,
           \A i \in 0 .. available - 1 : buf'[Cell(i)] = buf[Cell(i)]
    PROVE  Queued' = Queued
<1>1. available \in Nat
  BY Shares, BufferAssumption, SMT DEF Types
<1>2. \A i \in 1 .. available : buf'[Cell(i - 1)] = buf[Cell(i - 1)]
  BY <1>1, SMT
<1> QED BY <1>2 DEF Queued, available, Cell

\* Copying a byte is invisible.
LEMMA CopyHidden ==
    ASSUME BufferInv, CopyByte
    PROVE  queue' = queue
<1>1. /\ w.pc = "copy" /\ w.k < Len(w.data) /\ w.pos = tail /\ r.pc # "clear"
      /\ UNCHANGED <<head, tail, r>>
  BY DEF CopyByte, BufferInv, WriteInv
<1>2. head \in Cells /\ tail \in Cells /\ w.k \in Nat /\ Len(w.data) \in Nat
  BY LenProperties DEF BufferInv, Types, WType
<1>3. w.k < space
  BY <1>1, <1>2, Shares, BufferAssumption, SMT DEF BufferInv, WriteInv
<1>4. \A i \in 0 .. available - 1 : Cell(i) \in Cells /\ Cell(i) # Wrap(tail + w.k)
  BY <1>2, <1>3, FreeCells
<1>5. WCell(w.k) = Wrap(tail + w.k)
  BY <1>1, <1>2, BufferAssumption, SMT DEF WCell, Wrap, Cells
<1>6. \A i \in 0 .. available - 1 : buf'[Cell(i)] = buf[Cell(i)]
  BY <1>4, <1>5 DEF CopyByte, BufferInv, Types
<1> QED BY <1>1, <1>6, SameQueued DEF BufferInv, queue

\* The store of tail is a push.
LEMMA StorePushes ==
    ASSUME BufferInv, StoreTail
    PROVE  /\ Len(queue') >= Len(queue) /\ Len(queue') <= Size - 1
           /\ SubSeq(queue', 1, Len(queue)) = queue
<1>1. queue = Queued /\ queue' = Queued'
  BY StoreFacts DEF queue
<1>2. Queued \in Seq(Bytes) /\ Len(Queued) \in Nat /\ w.k \in Nat
  BY QueuedSeq, StoreFacts, LenProperties DEF BufferInv
<1>3. \A i \in 1 .. Len(Queued) : Queued'[i] = Queued[i] /\ Queued[i] \in Bytes
  BY <1>2, StoreAppends, ElementOfSeq
<1>4. /\ SubSeq(Queued', 1, Len(Queued)) \in Seq(Bytes)
      /\ Len(SubSeq(Queued', 1, Len(Queued))) = Len(Queued)
      /\ \A i \in 1 .. Len(Queued) : SubSeq(Queued', 1, Len(Queued))[i] = Queued'[i]
  BY <1>2, <1>3, SubSeqProperties, SMT
<1>5. SubSeq(Queued', 1, Len(Queued)) = Queued
  BY <1>2, <1>3, <1>4, SeqEqual
<1> QED BY <1>1, <1>2, <1>5, StoreAppends, SMT

\* advance() drops from the front.
LEMMA AdvanceDrops ==
    ASSUME BufferInv, NEW n \in 0 .. MaxLen, Advance(n)
    PROVE  /\ n \in 0 .. Len(queue)
           /\ queue' = SubSeq(queue, n + 1, Len(queue))
<1>1. /\ r.pc = "read" /\ r'.pc = "idle" /\ n \in Nat /\ n <= available
      /\ head \in Cells /\ tail \in Cells /\ head' \in Cells /\ tail' = tail /\ buf' = buf
      /\ head' = Wrap(head + n) /\ available' = available - n
      /\ buf \in [Cells -> Bytes]
  BY AdvanceFacts, SMT DEF BufferInv, Types, RIdle
<1>2. queue = Queued /\ queue' = Queued'
  BY <1>1 DEF queue
<1>3. Queued \in Seq(Bytes) /\ Len(Queued) = available /\ available \in 0 .. Size - 1
  BY <1>1, QueuedSeq, Shares DEF BufferInv
<1>4. \A i \in 1 .. available - n : Queued'[i] = Queued[n + i]
  <2> SUFFICES ASSUME NEW i \in 1 .. available - n
               PROVE  Queued'[i] = Queued[n + i]
    OBVIOUS
  <2>1. i \in Nat /\ n + i \in 1 .. available /\ i \in 1 .. available'
    BY <1>1, <1>3, BufferAssumption, SMT
  <2>2. Cell(i - 1)' = Cell(n + i - 1)
    BY <1>1, <1>3, <2>1, BufferAssumption, SMT DEF Cell, Wrap, Cells
  <2> QED BY <1>1, <2>1, <2>2, SMT DEF Queued
<1>5. /\ Queued' \in Seq(Bytes) /\ Len(Queued') = available - n
  <2>1. \A i \in 1 .. available' : Cell(i - 1)' \in Cells
    BY <1>1, <1>3, BufferAssumption, SMT DEF Cell, Cells
  <2>2. available' \in Nat
    BY <1>1, <1>3, BufferAssumption, SMT
  <2>3. Queued' \in [1 .. available' -> Bytes]
    BY <1>1, <2>1 DEF Queued
  <2> QED BY <1>1, <2>2, <2>3, SeqDef, LenProperties, SMT
<1>6. /\ SubSeq(Queued, n + 1, available) \in Seq(Bytes)
      /\ Len(SubSeq(Queued, n + 1, available)) = available - n
      /\ \A i \in 1 .. available - n : SubSeq(Queued, n + 1, available)[i] = Queued[n + i]
  <2>1. \A i \in n + 1 .. available : Queued[i] \in Bytes
    BY <1>1, <1>3, ElementOfSeq, SMT
  <2>2. n + 1 \in 1 .. Len(Queued) + 1 /\ available \in n .. Len(Queued)
    BY <1>1, <1>3, BufferAssumption, SMT
  <2> QED BY <1>1, <1>3, <2>1, <2>2, SubSeqProperties, BufferAssumption, SMTT(20)
<1>7. Queued' = SubSeq(Queued, n + 1, available)
  BY <1>4, <1>5, <1>6, SeqEqual
<1> QED BY <1>1, <1>2, <1>3, <1>7, SMT

\* Dropping nothing changes nothing.
LEMMA DropNothing ==
    ASSUME NEW S, NEW s \in Seq(S)
    PROVE  SubSeq(s, 1, Len(s)) = s
BY LenProperties, SubSeqProperties, SeqEqual, ElementOfSeq, SMT

\* Without a store of an index, or of a byte, the queue stays as it is.
LEMMA NothingMoves ==
    ASSUME UNCHANGED <<buf, head, tail>>, (r'.pc = "clear") <=> (r.pc = "clear")
    PROVE  queue' = queue
BY DEF queue, Queued, available, Cell

\* The ring buffer implements the queue, for every size and with a clear() that
\* excludes the writer.
THEOREM RefinesFifo ==
    ASSUME ClearLocked
    PROVE  BufferSpec => ImplementsFifo
<1>1. BufferInit => queue = <<>>
  <2> SUFFICES ASSUME BufferInit PROVE queue = <<>>
    OBVIOUS
  <2>1. Types /\ available = 0 /\ r.pc = "idle"
    BY BufferInitInv, BufferAssumption, SMT DEF BufferInit, BufferInv, available, RIdle
  <2> QED BY <2>1, EmptyQueued DEF queue
<1>2. BufferInit => Queue!Init
  BY <1>1 DEF Queue!Init, queue
<1>3. ASSUME BufferInv, BufferNext
      PROVE  Queue!Next \/ queue' = queue
  <2>1. CASE \E s \in Strings(MaxLen) : Reserve(s)
    BY <2>1, NothingMoves DEF Reserve
  <2>2. CASE CopyByte
    BY <1>3, <2>2, CopyHidden
  <2>3. CASE Commit
    BY <2>3, NothingMoves DEF Commit
  <2>4. CASE StoreTail
    <3>1. Queue!Push
      BY <1>3, <2>4, StorePushes DEF Queue!Push, queue
    <3> QED BY <3>1 DEF Queue!Next
  <2>5. CASE \E n \in 1 .. MaxLen : Peek(n)
    BY <2>5, NothingMoves, SMT DEF Peek
  <2>6. CASE ReadPtr
    <3>1. r'.pc = "read" /\ r.pc = "ptr" /\ UNCHANGED <<buf, head, tail>>
      BY <1>3, <2>6 DEF ReadPtr, BufferInv, Types, RType
    <3> QED BY <3>1, NothingMoves
  <2>7. CASE ReadByte
    <3>1. r'.pc = "read" /\ r.pc = "read" /\ UNCHANGED <<buf, head, tail>>
      BY <1>3, <2>7 DEF ReadByte, BufferInv, Types, RType
    <3> QED BY <3>1, NothingMoves
  <2>8. CASE ClearTail
    <3>1. r'.pc = "clear"
      BY <1>3, <2>8 DEF ClearTail, BufferInv, Types, RType
    <3>2. queue' = <<>>
      BY <3>1 DEF queue
    <3> QED BY <3>2 DEF Queue!Next, Queue!Discard, queue
  <2>9. CASE ClearHead
    <3>1. BufferInv' /\ r.pc = "clear" /\ r'.pc = "idle" /\ head' = 0 /\ tail' = tail /\ tail = 0
      BY <1>3, <2>9, ClearHeadInv DEF ClearHead, RIdle, BufferInv, ReadInv
    <3>2. available' = 0
      BY <3>1, SMT DEF available
    <3>3. Queued' = <<>>
      BY <3>2, SMT DEF Queued
    <3> QED BY <3>1, <3>3 DEF queue
  <2>10. CASE \E n \in 0 .. MaxLen : Advance(n)
    <3>1. PICK n \in 0 .. MaxLen : Advance(n)
      BY <2>10
    <3>2. n \in 0 .. Len(queue) /\ queue' = SubSeq(queue, n + 1, Len(queue))
      BY <1>3, <3>1, AdvanceDrops
    <3>3. CASE n = 0
      <4>1. queue \in Seq(Bytes)
        BY <1>3, <3>1, AdvanceFacts, QueuedSeq DEF queue, BufferInv
      <4> QED BY <3>2, <3>3, <4>1, DropNothing, SMT
    <3>4. CASE n # 0
      <4>1. n \in 1 .. Len(queue)
        BY <3>2, <3>4, SMT
      <4>2. Queue!Drop(n)
        BY <3>2 DEF Queue!Drop, queue
      <4> QED BY <4>1, <4>2 DEF Queue!Next, queue
    <3> QED BY <3>3, <3>4
  <2> QED BY <1>3, <2>1, <2>2, <2>3, <2>4, <2>5, <2>6, <2>7, <2>8, <2>9, <2>10 DEF BufferNext
<1>4. UNCHANGED bufferVars => queue' = queue
  BY NothingMoves DEF bufferVars
<1>5. BufferInv /\ [BufferNext]_bufferVars
        => [Queue!Next]_(IF r.pc = "clear" THEN <<>> ELSE Queued)
  BY <1>3, <1>4 DEF queue
<1> QED BY <1>2, <1>5, BufferInvariance, PTL DEF BufferSpec, ImplementsFifo, Queue!Spec
=============================================================================
