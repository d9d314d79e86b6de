# A verification project for ArduPilot

TLA+ models of parts of the ArduPilot flight software, model-checked with TLC on
small instances and, for the theorems listed below, proved with TLAPS for all
values of the constants. Every definition that stands for code is listed with its
lines under "map" in PROJECT.json.

## 1. The system

ArduPilot is the firmware of copters, planes, rovers, submarines, blimps and antenna
trackers. The vehicles (`ArduCopter/`, `ArduPlane/`, ...) are built from the
libraries in `libraries/`. One main thread runs the control loop and the scheduled
tasks. Other threads do storage, UARTs, logging, scripting and slow I/O. Most of the
code is numeric (estimation, control, geometry) or device access. What a model
checker reaches are the parts where state survives a crash, is shared between
threads, or is negotiated with another party:

| part | state | operations | what makes it hard |
|---|---|---|---|
| `AP_FlashStorage` | two flash sectors, `current_sector`, `write_offset`, `reserved_space`, `write_error` | `write`, `switch_sectors`, `switch_full_sector`, `init`, `erase` | power failure at any flash operation, nested calls, limited space, bits that can only be cleared |
| ChibiOS `Storage` | `_buffer`, `_dirty_mask`, the device | `write_block`, `_timer_tick` | several writers, device writes without the lock, failing devices, power failures |
| `ByteBuffer` | `head`, `tail`, `buf` | `reserve`, `commit`, `peekiovec`, `advance`, `clear` | two threads without a lock, wrap-around |
| `MissionItemProtocol`, fence | the upload in progress, the fence in storage, its index | eight handlers, `update`, queued requests | several ground stations and links, lost and repeated messages, timeouts, partial lists, storage limit |
| `AP_Param` in storage | the list of variables, `save_queue` | `save`, `save_sync`, `erase_all`, loading | three threads, a list that must be readable after every write, power failures |
| `AP_Logger_MAVLink` | blocks on four linked lists, `_next_seq_num` | writes, `push_log_blocks`, `do_resends`, messages of the client | a link that loses, repeats and reorders; writers in any thread |
| `AP_DroneCAN_DNA_Server` | the database of node IDs in storage, `rcvd_unique_id` | `init`, `handle_allocation`, `handle_node_info`; the nodes' side in AP_Periph | several nodes at once, missed messages, several servers on one database, restarts |
| `AP_Mission` | the commands, `_nav_cmd`, `_do_cmd`, `_flags`, `_jump_tracking` | `update`, `start`, `stop`, `resume`, `set_current_cmd`, changes of the mission | two searches through nested loops with counters, loops that must end, changes while it runs |
| rally, terrain, SmartRTL | tables in storage, caches | | not modelled, see sections 7 and 8 |
| vehicles, estimation, control, sensors, drivers | | | numeric or I/O, see section 7 |

They interact: the fence, missions and parameters live in areas of storage
(`StorageManager`), which are kept in the cache of the HAL (`HalStorage`), which on
boards without FRAM writes to `AP_FlashStorage`. Messages of ground stations come in
through UART drivers, whose buffers are `ByteBuffer`s. Most modules model their
neighbour by what it may do: `ParamStore` and `DNADatabase` take of the storage cache
what `DurableStore` promises (line by line, in any order, in the end).
`DNAAllocation` is a composition: nodes and servers on several buses, above the one
database.

PROJECT.json lists the hazards found, each at its line and with the properties that
would catch it, or with a note why there is none.

## 2. Modules

| module | models |
|---|---|
| `FlashStorage` | `AP_FlashStorage` |
| `MCFlash` | its instances for model checking: H7, F4, and F4 with a refused write |
| `FlashStorageProofs` | theorems about its space, and lemmas about the log |
| `FlashDataProofs` | theorems about its data |
| `HalStorage` | `ChibiOS::Storage` |
| `DurableStore` | what the cache promises: the abstract store |
| `ByteBuffer` | `ByteBuffer` in `RingBuffer.cpp` |
| `Fifo` | what it promises: a queue |
| `PolyFence` | pure part of `AC_PolyFence_loader`: validation, bytes needed, reading the storage |
| `FenceUpload` | `MissionItemProtocol` with `MissionItemProtocol_Fence` |
| `MCFenceUpload` | the items of the model-checked instance |
| `Mission` | `AP_Mission`: running a mission |
| `MCMission` | `FenceUpload` and `Mission` for model checking |
| `PlanProofs` | theorems about uploads of a fence and about running a mission |
| `ParamStore` | `AP_Param`: saving and loading |
| `ParamProofs` | theorems about it |
| `LoggerLists` | the linked lists of `AP_Logger_MAVLink` |
| `LoggerMAVLink` | `AP_Logger_MAVLink` and a client |
| `LogBlocks` | what it promises: the life of a block |
| `LogBlocksProofs` | theorems about that life |
| `LoggerListsProofs` | lemmas: what each list operation does to the lists |
| `LoggerMAVLinkProofs` | theorems about the logger, with the refinement to `LogBlocks` |
| `DNADatabase` | `AP_DroneCAN_DNA_Server::Database` |
| `DNAAllocation` | the servers and the nodes of AP_Periph, above the database |
| `StorageProofs` | theorems about `HalStorage`, with the refinement to `DurableStore`, about node IDs, with the refinement to `DNADatabase`, and about `ByteBuffer`, with the refinement to `Fifo` |
| `MCStorage` | `HalStorage`, `ParamStore` and `DNAAllocation` for model checking |
| `MCBuffers` | `ByteBuffer` and `LoggerMAVLink` for model checking |

`MCStorage`, `MCBuffers` and `MCMission` put modules that share no state side by side: the
variable `part`, chosen at the start, says whose behaviour it is, and the others stand still
in a state in which none of their fair actions is enabled. `MCFlash` chooses one of three
instances of `FlashStorage` at the start.

Operators whose comment begins with "Mutant" are plausible mistakes in the code. Each
property is shown to fail when the definition they stand for is replaced by one
(list "mutants" of PROJECT.json).

### FlashStorage

One action is one operation of the flash hardware with the RAM updates that follow
it: programming a sector header (`markFull`, `markInUse`, `available1`, ...), a block
(`program`, and on F4 `validate`), or erasing a sector. `pc` names the next one; `op`,
`nested`, `base` and `inner` stand for the call stack of `write()`,
`protected_switch_full_sector()` and `write_all()`. Loading is block by block.
`TwoPhase` selects the layout: TRUE for F4, where a block is marked WRITING, filled
and marked VALID; FALSE for H7 and G4, where header and data are one flash word.
`mem_buffer` may change at any moment (`Update`), as the main thread does it. Sizes
are in abstract units, the arithmetic is that of the code.

A power failure may come between any two flash operations. There are three
*vulnerable windows*, named in the model, in which one does lose data:
`SwitchWindow` (one sector FULL, the other not yet IN_USE), `EraseWindow` (a sector
erased and not yet marked) and `ReserveSpent` (the write-out of a previous `init()`
was itself cut off and there is no room for another). The variable `intact` records
that no power failure hit one; the recovery properties are about intact behaviours,
and `AtRestSafe` says that the windows are never open between calls. That the first
window exists contradicts a comment of the code (`flash_switch_cut`). The end of an
`erase_all()` makes the storage intact again, with nothing committed, unless it is that of
a `re_initialise()` inside `init()`: the `init()` around it goes on with the sector states
it has read before and may erase what the inner one wrote.

The hardware may refuse the write of a block (`WriteFault`). On H7 a flash word that is
neither blank nor equal to what is written is refused, too (`Fresh`). On F4 there is no such
test: the bits are cleared and read back, so that a block over the rest of an interrupted one
may be written or refused, and both are in the model (`Programmable`). What is said of a
storage at rest (`AtRestSafe`, `BootKeepsData`, `NoWriteError`, `ProgramsBlankFlash`) is said
until a write was refused (`NoRefusal`): a refused block may stay in flash, and the
`re_initialise()` that follows erases both sectors.

### HalStorage

Threads call `write_block()`: compare without the semaphore, take it, copy line by
line, mark dirty. The storage thread runs `_timer_tick()`: take the first dirty line,
copy it under the semaphore, write it without, and mark it clean if the line has not
changed since. FRAM is written from the copy, flash and file from the buffer itself,
which is the difference that `hal_flash_revert` shows. `Torn` is the value of a line
read while another thread copies into it. `recent` is a history variable: the values a
line had since it was last clean.

`DurableStore` is the promise: what is durable is one of the recent contents, a clean
line is durable in its present contents, and after a power failure the contents are
what was durable.

### ByteBuffer

Each step reads or stores at most one index that the other thread writes. `Reserve`
and `Peek` are the first reads of the other's index, `CopyByte` and `ReadByte` one
byte, `StoreTail` and `Advance` the stores. `peekiovec()` reads `tail` a second time in
`readptr()`, a step of its own. `clear()` is two stores. `ClearLocked` says whether it
excludes the writer. `Fifo` is the promise: a queue with `Push`, `Drop`, `Discard`.
`Fifo` does not say who discards, nor what is pushed; `CommitAppends` adds that a commit
appends exactly the bytes written, so that a full buffer cannot pass for an empty one.

### PolyFence and FenceUpload

All handlers run on the main thread, so a handler is one action. A message of any
station with any contents may arrive at any time; that covers loss, repetition, delay
and reordering. `queued` is the set of links whose message queue holds the request
for the next item; it is not emptied when an upload ends, as in the code. `waited`
counts calls of `update()` since the last item, up to `UploadTimeout`; that a request
is repeated after a second is "may be repeated at any call". An allocation may fail.
`stored` is the list in fence storage, `index` what `check_indexed()` knows about it:
after `write_fence()` it is void, with a count of 0, until `AC_Fence::update()` or a
read indexes it.

`validate_fence()`, `fence_storage_space_required()` and the offset at which
`write_fence()` puts the end marker are folds over the items, each following its own
loop in the code. `scan_eeprom` reads the storage back: from type to type, over the bytes that
belong to each, up to the end marker, a byte that is no type, or the end of the storage. Where
`write_fence()` has put a type it reads that type, elsewhere a byte of an older fence or of
the stack, which may be any (`Junk`): if the marker falls behind the storage it is lost, and
so is a scan that goes wrong by a byte. `IndexResults` are the results of `index_eeprom()`:
a first scan counts, and if there is a fence and memory for its index, a second one fills it.
Without memory the count stays and the fence is not indexed.

`sent`, `base` and `asked` are history variables: the items of this upload, the fence a
partial list started from, the last request of this upload.

### Mission

A call runs in the main thread and is one action. `cmds` is the mission in storage, home
first, and `run` the rest of the state: `nav` and `doc` are the indices of `_nav_cmd` and
`_do_cmd`, `jumps` is the used part of `_jump_tracking`. A command is a nav command, a nav
command that the vehicle refuses to start, a do command or a jump. What
`verify_command()` says is an input of `update_mission`. `get_next_cmd` and the loop of
`advance_current_nav_cmd` are recursive functions with the bounds of the code: 64 jumps
(`MaxJumps`), and 255 commands (`MaxSearch`), where the 8-bit counter has wrapped to 255
when the loop is given up. The loop of `set_current_cmd` has no bound in the code; one that
goes on for more than `HangAfter` commands makes the mission `hung`, until a watchdog or the
pilot restarts the board.

`way`, `did` and `known` are history variables: the do commands that the search for the nav
command passed, those that were started, and whether the two can be compared. A search that
has passed a jump with a limit has changed its count, so that a later search from the same
place goes elsewhere; `DoInOrder` and `ResumeKeepsTarget` are about ways without one, in a
mission that was not changed since. With one, `resume()` with an active do command searches
from there, counts the jump a second time, and may come to another nav command than the one
that was interrupted. `mission_resume` shows that against the comment on `resume()`. Two more
cases, which nothing in the repository calls right or wrong:

* WP 1, DO a, JUMP to 1 once, DO b, WP: on the way to the repeated WP 1, b is started after
  a, since the jump is used up; on the way to the last WP, a is run again and b is not,
  since the count has been reset.
* DO a, JUMP to 1 once, WP: the search for WP uses up the jump and resets its count. The
  search for do commands then finds it unused each time, and a is run again and again until
  WP is reached.

### ParamStore

Storage is an array of words. A variable is a header and its data; the list ends with
the sentinel, and what looks like one is taken for one, as `is_sentinel()` does (zero
data included). `set` and `save` are the main thread, `save_io_handler` takes a
parameter from the queue, and `Scan`, `write_sentinel`, `WriteData`, `WriteHeader` are
the steps of `save_sync()` in the IO thread or in that of an upload, one per write. The
value written is the one the parameter has at that moment. `Flush` makes a line
durable; `PowerFails` loses the rest and loads. `dropped` is a history variable: the
parameters whose last save was given up, because storage or, armed, the queue was full,
or because all were erased.

Two things can break the list, and the code does nothing against them. The IO thread and
that of an upload may be in `save_sync()` together, and find the same place for two new
variables. And power may fail when of a variable across two lines of the cache one is durable
and the other is not. Both happen in the model, and the history variable `harm` remembers
them: "overlap" and "torn". `ListSound`, `AllSaved` and `ReachesDevice` are about the time
until then. The code claims to survive the second one ("more robust to power off while adding
a variable to EEPROM"), and `param_power_off` shows that it does not. Of the first nothing is
said; TLC violates `Readable` with `"torn" \notin harm` after 10 steps.

### LogBlocks and LoggerMAVLink

`LoggerLists` and `LoggerMAVLink` keep the pointers: `next` of each block, oldest and
youngest of the three queues, the free stack and its count. The main thread sends, handles the
messages of the client and starts and stops logs, each call one action. A write takes
the semaphore and copies block by block in several steps, meanwhile the others find the
semaphore taken and give up, as `take_nonblocking()` has it. Messages are sets with a
bound on those lost or repeated, so that they are also reordered. `LogBlocks` forgets
lists, lengths and times: a block is free, current, pending, sent or to be retried.

`mixed` is a history variable: the log began with blocks or acknowledgements of the one
before in flight. The numbers start from 0 again and the protocol cannot tell the two
logs apart, so nothing is claimed of such a log (see the hazards).

### DNADatabase and DNAAllocation

Each method of the database holds its lock and is one action; `records` is what is in
storage, `registered` the bit mask, `saved` what is durable. A record may be durable in
part (`TornUid`), which its CRC shows. `register_uid()` clears the record of the old node ID
and writes that of the new one, and the two become durable in any order: a restart may find
the new record and still the old one. `revived` is a history variable: a restart has brought
back a record that had been deleted or replaced. `OneNodeIdEach` is about the time until then,
and `dna_power_off` shows what a restart does. Each server may clear the database when it
starts (`ClearDatabase`), the second one also while the first is up.

In `DNAAllocation` a node sends its unique ID in parts (`can_do_dna`), the server appends
and answers (`handle_allocation_msg`), and all nodes on the bus hear both. Time is not
modelled, but what the delays of the code keep apart counts as a *mishap*: a message that
a node or the server misses, a part that comes after the server gave up, a request while
an answer is still in the transmit queue, and a first part that comes before the
follow-up of another node. A follow-up comes at most 400 ms after the last message and a
first part after 600 ms or more, so that the last two do not happen by themselves.
`MaxTrouble` bounds mishaps and restarts together.

`given` and `forgot` are history variables: the node ID a node got, and the nodes whose
registration was cleared or was not yet durable when power failed.

## 3. Runs

| run | result | question |
|---|---|---|
| `flash_storage` | passes | H7 flash and two power failures at any two operations, F4 flash with its two-phase blocks and one, F4 flash that refuses a block: is everything that was written there after the reboot? Do the logs hold at every moment what was committed, is the reserve kept, is only blank flash programmed, and `write_error` never latched? Does every call return? |
| `flash_switch_cut` | violated | Power failure between the two header writes of `switch_sectors()` |
| `flash_odd_size` | violated | Storage size that is no multiple of the block size |
| `hal_fram` | passes | The cache: two writers, a failing write, a power failure: does it implement the durable store, and is everything written in the end? Parameters: can the list be read after every write and every power failure, as long as none tears a variable, does every change get to the device? Node IDs: has each unique ID one, does the database remember what nodes were given, do unique IDs put together from two nodes stay rare, does every node get one? |
| `hal_flash_revert` | violated | A line changed and set back while flash is written |
| `param_power_off` | violated | Power failure with a new variable durable in one of its two lines |
| `dna_power_off` | violated | Power failure between the two records of a `register_uid()` |
| `byte_buffer` | passes | Does the lock-free buffer implement a queue? Are the lists of log blocks sound, does the room that a write was promised exist, does the logger implement `LogBlocks`, does every full block come back? |
| `byte_buffer_clear` | violated | `clear()` while the other thread writes |
| `fence_upload` | passes | Two stations on two links: who changes the fence, what is stored, are items always asked for, are resources freed, does every upload end? A mission with loops: are its do commands run in order, does it resume where it was when no jump with a limit is on the way, does it complete, does every call return? |
| `fence_exact_fit` | violated | A fence that fills its storage exactly |
| `mission_resume` | violated | `resume()` in front of a jump with a limit |

A violated run checks one property that a comment of the code states; the finding in
PROJECT.json quotes it and says what the counterexample does. These are statements
about the models; none was reproduced on hardware.

### Bounds

* Flash: 2 units of storage (3 in `flash_odd_size`), blocks of one unit and sectors of 8
  (12), so that sectors fill up, are switched and run into the reserve within two updates;
  writes of one unit and of two. H7 has two power failures, for one during the recovery from
  another; F4 has one, and with a refused write one update. Blocks of several units are
  covered by the proofs: the states are too many for TLC with them. Contents are two values,
  one of them zero, which the code treats specially.
* HAL: two lines (the storage thread takes the first dirty one), two writers, three
  writes, one failing device write, one power failure.
* ByteBuffer: five cells (four in the violated run), two byte values, calls of up to
  four bytes, so that every call can fill the buffer and wrap; the number of calls is
  not bounded.
* Fence: 31 bytes (30 in `fence_exact_fit`), at most three items: two circles or one
  triangle leave one byte (none), a circle and a return point five (four). Two stations, two
  links, two started uploads (`MaxStarts`; a message left in a queue meets another upload
  only with two). `JunkCounts` bounds what a junk byte adds to the item count to 0 or 1 (in
  the code up to 255).
* Mission: every mission of two or three commands out of seven (jumps to 1 or 3, once or for
  ever), and six longer ones: nested loops, a jump forward over a nav command, more jumps than
  slots (two), a loop of do commands that uses up `MaxSearch`. Two calls other than `update()`
  (`MaxOrders`), each possible at any time: one to change the mission and one to meet the
  change. 20 commands (`HangAfter`) are more than any search passes in a mission without an
  unlimited jump. Counters are reset when a loop is done, as by default; the instance with
  `KeepCounters` (78,253 states), and all missions of four commands with one slot and one call
  (38,434 states), hold, too.
* Parameters: four, two of them vectors (two words stand for three) and one that is
  saved by force; storage of 6 words in lines of 4, so that it fills up and a variable
  lies across two lines; a queue of one, two changes, one erase, one power failure.
* Log: three blocks of two bytes, messages of three bytes (each write spans two blocks),
  blocks numbered up to 3, one mishap, one message of each kind in flight.
* Node IDs: four of them, one that of the servers; three nodes on two buses, two of them
  with the same first part; unique IDs of three parts; one mishap or restart. There is a node
  ID for each node, unless a mishap gives one to a unique ID that nobody has, and then the
  database is full. `EveryNodeGetsId` exempts only a node that is not registered then. The
  proofs cover unique IDs whose last part is shorter, as with 16 bytes in parts of 6.

No run uses symmetry. Deadlock is checked in every run.

### Fairness

* `FlashStorage`: weak fairness of `Step`, the next operation of the call in progress:
  the calling thread goes on. Used by `CallsReturn`.
* `HalStorage`: weak fairness of the storage thread, which loops for ever, of opening,
  and of each writer inside `write_block()`. Failures and power failures are bounded
  and not fair. Used by `EventuallyWritten`.
* `FenceUpload`: weak fairness of `update()`, which the scheduler calls through
  `GCS::update_send()`. Nothing is assumed of the ground stations. Used by `UploadEnds`.
  Since the number of started uploads is bounded, it says that an upload ends, not
  that uploads do not go on for ever.
* `Mission`: weak fairness of `update()` with the nav command done: it is called at 10 Hz, and
  the vehicle gets to where it is sent. Nothing is assumed of do commands. Used by
  `MissionCompletes`.
* `ParamStore`: weak fairness of `save()`, of the IO timer (`save_io_handler`), of a
  `save_sync()` in progress and of the storage thread for each line (which
  `EventuallyWritten` shows of `HalStorage`). Used by `ReachesDevice`.
* `LoggerMAVLink`: weak fairness of a write in progress, of the main thread's sending and
  resending, of time, and of the link for each block and acknowledgement: what is sent
  again and again arrives. Used by `BlocksComeBack`.
* `DNAAllocation`: weak fairness of the start of the servers, of their answers, and on each
  bus of "some node that has no node ID asks", not of each node by itself: the nodes choose
  random delays. Nothing is assumed of node info or storage. Used by `EveryNodeGetsId`.

## 4. What is proved

The proofs assume only the named ASSUMEs of the modules (sizes are positive naturals,
special values are different, a block and the reserve fit in a sector), which TLC
evaluates on the instances. The theorems about flash data and about `ByteBuffer` have a
hypothesis more, named in the table. The bounds (`MaxCuts`,
`MaxStarts`, ...) are constants, so the theorems hold for any number of failures, writes
and uploads.

| theorem | states |
|---|---|
| `FlashStorageProofs!TypeCorrect`, `ReserveIsKept` | types; no block runs over the end of its sector, and `write()` never uses the reserve |
| `FlashDataProofs!CommittedIsHeld`, `BootAlwaysRecovers` | `LogsHoldCommitted`, `BootRecovers`: if the storage size is a multiple of the largest block (`EvenSize`), with any power failures and any refused writes |
| `FlashDataProofs!RestIsSafe`, `BootErasesNothing`, `LatchStaysClear`, `BlankIsProgrammed` | `AtRestSafe`, `BootKeepsData`, `NoWriteError`, `ProgramsBlankFlash`: under the same hypothesis, until a write is refused (`NoRefusal`), with any power failures |
| `StorageProofs!TypeCorrect`, `FramCleanIsDurable`, `FramImplementsStore` | types for every backend; on FRAM a clean line is up to date on the device, and the cache implements `DurableStore` |
| `StorageProofs!BufferTypeCorrect`, `InOrder`, `AgreementKept`, `OnlyNewBytes`, `RefinesFifo` | with a `clear()` that excludes the writer: indices in range, the reader gets the front of the queue, no commit is refused, a commit appends what was written, the buffer implements `Fifo` |
| `PlanProofs!TypeCorrect`, `AlwaysFreed`, `AlwaysAsked`, `OwnerOnly`, `StoresWhatWasSent` | `TypeOK`, `ResourcesFreed`, `AsksForNext`, `UploaderOwnsFence`, `AcceptedIsStored` |
| `PlanProofs!EndIsSpace`, `ShorterAlwaysReadable` | `write_fence()` of a valid fence ends where `fence_storage_space_required()` says; `ShorterIsReadable`, with memory for the index or without |
| `PlanProofs!DoAlwaysInOrder`, `ResumeAlwaysKeepsTarget` | `DoInOrder`, `ResumeKeepsTarget`, for every mission, any limits of the searches and any orders; both as long as the way is known (no jump with a limit on it, mission not changed since) |
| `ParamProofs!ListAlwaysSound`, `AllAreSaved` | `ListSound`, `AllSaved`: until two threads met in `save_sync()` or a power failure tore a variable (`harm`) |
| `LogBlocksProofs!NeverLost`, `NumbersUnique` | no block is given up before the client has it, unless the log is mixed; blocks in use have different numbers |
| `LoggerMAVLinkProofs!ListsAlwaysSound`, `SpaceAlwaysReal`, `LoggerImplements`, `LoggerLosesNothing` | `ListsSound`, `SpaceIsReal`; the logger implements `LogBlocks`, so that `LogNothingLost` holds of it |
| `StorageProofs!OneEach`, `BitsAgree`, `TakesNone` | `OneNodeIdEach`, `RegisteredIsStored`, `AllocationTakesNone`, for every number of node IDs and unique IDs; the first until a restart brings back a deleted record (`revived`) |
| `StorageProofs!Remembers`, `UsesDatabase` | `RemembersNodes`; the network implements `DNADatabase` |
| `StorageProofs!StrangersNeedMishaps` | `StrangersAreRare`: without a mishap on the bus no node ID goes to a unique ID that nobody has |

The arguments:

* **Flash, space.** `SpaceKept` is not inductive: a block is programmed some steps after the
  test for room. `IInv` adds that whoever is about to program has a largest block and
  the reserve in front of it (`RoomToProgram`), that blocks in flash end in their sector
  (`EntriesFit`, needed because `init()` takes `write_offset` from them), and that the
  loops stay inside the storage.
* **Flash, data.** What `load_sector()` reads is a recursive function of the log (`Walk`).
  The prover has no induction over data, so the lemmas about it are proved by taking the
  least turn at which the claim fails (`NatSetInduction`): the loop passes the blocks in
  order, stays inside the sector, and a block programmed at the end of the log changes the
  result at the blocks it has. `DInv` then says for each operation where the data is. While
  a sector is in use: there the log ends, the flash behind it is blank (or begins with the
  block being written, `Tail`), and both logs together hold what was committed (`Rest`,
  `Appending`). While `switch_full_sector()` copies: the new log alone holds the part
  copied so far (`Copied`), and there is room for the rest (`Room`). While `init()` loads:
  what has been loaded and what will be are together the whole (`Loading`, `Within`), and
  the chunks that are not all zero fit into what is left (`OutRoom`). A committed value
  is kept because a full sector is erased only when everything was copied. `EvenSize` is
  needed for the room: `reserve_size` counts one header for each whole `max_write`, and
  not one for the rest.
* **Flash, no refused write.** `FInv`, which holds until then, adds what a refused write
  would break: the flash at `write_offset` is blank, the reserve is set aside as long as the
  other sector is FULL, a copy does not run out of room, `init()` erases nothing but a FULL
  sector that was copied, and `write_error` is clear.
* **HAL.** `CleanIsDurable` needs to know what is under way: `IInv` says who holds the
  semaphore, that the line of the storage thread is dirty, and that on FRAM what goes to
  the device is the copy. The step that marks a line clean then follows from the
  comparison. The refinement maps a line changed but not yet marked to "not clean".
* **ByteBuffer.** Each thread relies on what the other may only improve: `WriteInv` says
  that the reserved cells are still free and those copied hold the new bytes,
  `ReadInv` that the bytes wanted are still available and those read are the first.
  The steps of the other thread only increase `space`, or only append to the contents.
* **Fence.** `ReceivedOK` says where the items received so far are: in their places of the
  list, numbered from 0 in a full upload, in the mask in a partial one, where in
  addition the stored fence is still the one the upload started from. So the list
  written at the end has for each place an item sent or an item stored. All steps but
  the arrival of an item fall into four kinds (ending, starting, leaving alone,
  sending), with one lemma each.
* **Fence, its end.** `validate_fence()`, `fence_storage_space_required()` and
  `write_fence()` walk over the items each in its own way: one counts the vertices of a
  polygon, one skips them, one writes them. `EndIsSpace` goes through the list with all three
  (`Together`): they are at the same vertex, and what was written, with the vertices still
  to be written, is what was counted. `IndexTrue` then says that the stored fence is valid
  and that what is known of it was read from it. `scan_eeprom` is a recursive function of the
  place it is at, which grows: read as a loop that counts down the bytes left it computes what
  one expects. With a byte left the end marker was stored, and the scan that is at the type of
  an item comes to that of the next, over a polygon with all its vertices, and has counted the
  items in front of it; it never reads a byte that `write_fence()` did not write.
* **Parameters.** `scan()` is a recursive function of the storage (`Walk`). The lemmas about
  it are again proved by taking the least turn at which the claim fails; from then on the
  proofs use only the set of positions it comes to (`Reach`), which is the least set closed
  under stepping over a header. The list is sound up to a cell (`SoundTo`) when what it has
  in front of that cell are headers of different parameters, each with data of one value and
  room for the sentinel behind it. Each of the three writes of a new variable (sentinel,
  data, header) keeps that. Until there is `harm`, `PInv` says that `storage` is sound up to
  its end, and the device up to the end of its first line. That is what a power failure
  needs: if no variable is torn, either the first line is dirty and the durable list ends in
  it, or no line with a part of the list is dirty, line by line from the first on. A thread
  in `save_sync()` still finds what it found when it searched (`LiveAt`), or all was erased
  since (`StaleAt`) and what it writes is behind the end. No change is lost (`Kept`,
  `NoneLate`): the value is in storage, waits in the queue, or is about to be written.
* **Mission.** The searches are recursive functions; as loops that count down they exist
  and compute what one expects (`LoopExists`, `LoopInduction`, by the least turn again).
  `DoInOrder` compares two searches: the one for the nav command, which counts jumps and
  passes several do commands, and later ones that count nothing and each look for one. A
  command *leads* to another through jumps that are always taken (`Leads`, the least such
  relation), and at most to one. `WayOK` says that on the way each do command leads to the
  next, and the last to the nav command or another command that is no do command (`StepsTo`).
  Whatever the later search finds behind the command that was started last is then the next
  on the way. `MInv` adds what `update()` relies on: the nav command is in storage, and without
  a do command on the way there is none to look for, also after `resume()` and
  `set_current_cmd()`.
  `ResumeKeepsTarget` compares the search that loaded the nav command with the one that
  `resume()` begins at a do command on the way. The search *comes* from a command to the nav
  command through do commands and commands that the vehicle refuses (`Comes`, again the least
  such relation, with the number of turns), and `WayOK` says so of each do command on the way
  (`Reach`). A turn that has the nav command ahead ends with it or still has it ahead
  (`AheadStep`). The turns suffice: counted from the nav command, the least numbers of
  turns are all different, so there are fewer than commands behind home (`ShortWay`). That is
  where `total <= MaxSearch` is needed. In longer missions the property fails: one that does
  not run loads its commands in a loop without that limit, and may load a nav command behind
  more do commands than `resume()` passes.
* **Log blocks.** `IInv` adds to `NothingLost` that numbers in use are below `nextSeq`
  (`NumbersUsed`), that they differ, and that an acknowledgement in flight is about a
  block the client has (`AcksTrue`), which is what a mixed log lacks.
* **Logger.** A *layout* says which blocks are on which list, in order; links have a layout
  when each list follows it and no block is on two. `LoggerListsProofs` shows what each list
  operation (enqueue, dequeue in the middle, the moves of a sending loop, freeing all) does
  to the layout. `LInv` says that there is a layout, that every block is on a list or the
  current one, and that the room promised to a write is free. Each action is then shown to
  keep `LInv` and to be a step of `LogBlocks` or none (`Simulates`), one lemma per action.
  The refinement carries `NeverLost` over from `LogBlocksProofs`.
* **Node IDs, database.** `DBInv`: `registered` agrees with the records, and no unique ID is
  registered twice until a record is `revived`. A restart that revives none finds in storage
  a part of what was registered before it, so that it keeps that. `HighestFree` exists
  because a set of node IDs has a greatest element, which the proof takes from the
  well-foundedness of the naturals.
* **Node IDs, network.** `RemembersNodes` needs to know what is in the transmit queues:
  `DNAInv` says that a node ID on its way to a node that waits for it is registered for that
  node (`RepliesTrue`), that a server that is down has no answers (`DownIsSilent`), and
  that a node keeps what it was given, which is not the servers' own ID (`IdsKept`). A node
  takes a node ID only from an answer that is its own unique ID, and no method of the
  database takes a registration away but the ones that `forgot` records. The proofs hold
  for every length of unique IDs and parts and any number of mishaps. Each step of the
  network is a step of the database.
* **Node IDs, mishaps.** A unique ID that nobody has is put together in two steps: first a
  node goes on with a part that the server does not have, then a server adds it to the part
  of another. `MishapsPay` counts both: the unique IDs of nobody in storage, also those that
  are only durable and may come back with a restart, and the buses on which somebody is
  misled are together no more than the mishaps. A server that puts together such an ID
  clears its bus: the sum stays. Only a mishap makes a bus misleading.

The type invariants of `HalStorage`, `ByteBuffer` and `FenceUpload` are proved and not
checked again in a run. The invariants `DInv`, `FInv`, `LInv`, `PInv`, `MishapsPay`,
`IndexTrue` and `WayOK` were checked with TLC on small instances before they were proved.

## 5. What is only model-checked

Liveness (`CallsReturn`, `EventuallyWritten`, `UploadEnds`, `ReachesDevice`,
`BlocksComeBack`, `EveryNodeGetsId`, `MissionCompletes`), since TLAPS does not handle
fairness here. Flash storages that are no multiple of the largest block, see below. The
violated properties are about particular instances.

## 6. Simplifications

* Flash: an erase is atomic with respect to a power failure. The F1 layout is not
  covered. Only writes of blocks are refused, not those of headers. Copying the data and
  programming the WRITING header are one step. `re_initialise()` happens at most once
  in a call. The bits that two refused writes leave at one place are not told apart from those
  of the first.
* Flash, sizes: the storage is a multiple of the largest block with blocks of up to 64
  bytes and 8192, 15360 or 16384 bytes (F4, F7), and the theorems cover these. With the
  blocks of 30 bytes of H7 and 6 bytes of G4 it is not. There `reserve_size` may be one
  header short; `flash_odd_size` shows what follows from it.
* HAL: the storage is opened before other threads write. Marking the lines of a
  `write_block()` dirty is one step. Time (rate limits, the retry delay) is left out.
* ByteBuffer: `available()` and `space()` are one step of the caller, whose own index
  does not change meanwhile. Memory accesses are sequentially consistent, as the
  default order of `std::atomic` gives. `set_size()` and `update()` are left out.
* Fence: a ChibiOS build, where `write_fence()` does not index at once as in SITL. The
  refusal of MAVLink 1 and answers lost for lack of space on the link are left out
  (they change nothing in the vehicle). Locations and
  radii are a field saying whether they are valid. No reboot, and no file upload.
* Mission: whether a command is refused does not change. Storage has room for each command
  that is added, and a mission that was changed is durable. Going back a distance on resume
  (`_repeat_dist`), jump tags, landing sequences, return paths and the option to clear the
  mission at a start are left out.
* Parameters: a value equal to the default is
  not saved; that one very near to it is not either is left out, as are groups,
  conversion and the backup copy of storage.
* Log: the time without an answer is counted up to its limit, and "last sent more than
  100 ms ago" is a set of blocks. Contents of messages are left out, so that a write into
  a new log without the formats is not told apart.
* Node IDs: a unique ID stands for its hash; collisions are left out. All drivers have
  the same node ID, as by default. A node restarts only when no answer waits on its bus.
  Verification of nodes that are running (`verify_nodes()` and the server's state) is left
  out.

Smaller points that were met in the code, and that no property is about:

* Flash: `flash_erase_ok()` is asked before a long write-out and not again before the erase;
  a refused header write in `switch_sectors()` lets `write()` go on; `erase_all()` does not
  reset `reserved_space`, so that `switch_sectors()` takes the other sector for full when it is
  not, and an armed vehicle stores nothing more once it has used up what is left.
* HAL: `write_block()` before the storage is opened compares with an empty buffer.
* Ring buffer: `commit(0)` of a buffer whose `set_size()` failed divides by 0;
  `push_force()` of several objects mixes bytes and objects (it has no caller).
* Fence: until `AC_Fence::update()` runs, a station that reads back a new fence is told that it
  is empty; `MISSION_REQUEST` is served during an upload, the other requests are not; a
  partial list 0..0 for an empty fence ends in an internal error.
* Mission: a loop of commands that do not start is searched again at each `update()`; the test
  for it in `advance_current_nav_cmd()` sees 255 and not 0, and ends the mission only if the
  255th command was a nav command that started. `set_current_cmd()` before the start of a
  mission that has only do commands and an unlimited jump does not return.
* Log: one block more than `_max_blocks_per_send_blocks` is sent from each queue;
  `_blockcount` is a `uint8_t` that a large LOG_MAV_BUFSIZE wraps around; a write that was
  allowed before a new log started can precede its formats.
* Node IDs: DNA_CLEAR_DATABASE of the second driver clears the node ID of the first one's
  server, if it is a different one; the state "duplicate nodes" lasts until the next status of
  a healthy node.

## 7. What is not modelled

PROJECT.json lists every part with the reason: estimation, control, navigation and
avoidance compute with reals; sensors, buses, telemetry and displays are device
protocols and formatting; the HALs are hardware access; simulation and tools are not
flight code. The repository has more than 800,000 lines of code, nearly all of it of these
kinds: the modelled parts are a fraction of a percent of it, chosen for state that is
shared, negotiated or kept.

Of the parts that could be modelled:

* the masks and the state of the DNA server (`verify_nodes`, `handleNodeStatus`): what
  they show is transient, and nothing says how long a duplicate is to be reported;
* file and block backends of `AP_Logger`: I/O, with a `ByteBuffer` in between, which is
  modelled;
* SmartRTL: the path is shared between two threads, but what its cleanup may remove is
  geometry over reals;
* the terrain cache: disk transfers in the IO thread; what the code promises of a block
  whose transfer meets an eviction is stated nowhere.

## 8. What could follow

1. The waypoint and rally backends of the item protocol beside `FenceUpload`, which store
   each item when it arrives; the fence as a file as another writer.
2. `HalStorage` on `FlashStorage` as one system, and `write_fence()` and `ParamStore` on it
   with a power failure.
3. `AP_FlashStorage`: refused header writes, interrupted erase.
4. `ObjectBuffer`, `set_size()` and `update()` of the ring buffer.
5. Timed state machines: parachute, landing gear, engine start, advanced failsafe.
