----------------------------- MODULE HalStorage -----------------------------
(***************************************************************************)
(* ChibiOS::Storage: the write-back cache in front of the storage device.  *)
(*                                                                         *)
(* Threads call write_block(), which changes _buffer and marks the lines   *)
(* dirty.  The storage thread calls _timer_tick(), which writes out one    *)
(* dirty line at a time without holding the semaphore during the write.    *)
(* The device is FRAM, flash or a file on the microSD card; flash and file *)
(* are written from _buffer itself, FRAM from the copy in tmpline.         *)
(***************************************************************************)
EXTENDS Integers

CONSTANTS
    NumLines,   \* CH_STORAGE_NUM_LINES
    Values,     \* contents a line can have
    Torn,       \* a line read while another thread was copying into it
    Writers,    \* threads that call write_block()
    None,       \* no thread
    Backend,    \* _initialisedType after _storage_open()
    Revert,     \* TRUE: a dirty line may be set back to a value it had before
    MaxWrites,  \* bound: number of calls of write_block()
    MaxFails,   \* bound: number of device writes that fail
    MaxCuts     \* bound: number of power failures

Lines    == 0 .. NumLines - 1
Contents == Values \cup {Torn}

ASSUME HalAssumption ==
    /\ NumLines \in Nat \ {0} /\ Torn \notin Values /\ Values # {}
    /\ None \notin Writers
    /\ Backend \in {"FRAM", "Flash", "SDCard"} /\ Revert \in BOOLEAN
    /\ MaxWrites \in Nat /\ MaxFails \in Nat /\ MaxCuts \in Nat

VARIABLES
    buffer,     \* _buffer
    dirty,      \* _dirty_mask
    opened,     \* _initialisedType is not None
    sem,        \* the thread that holds the semaphore, or None
    tick,       \* the storage thread: next step and line of _timer_tick()
    tmpline,    \* tmpline
    out,        \* what is on its way to the device
    job,        \* the write_block() calls in progress
    device,     \* what the device holds
    recent,     \* history: values of each line since it was last clean
    budget      \* writes, failures and power failures still to come

vars == <<buffer, dirty, opened, sem, tick, tmpline, out, job, device, recent, budget>>

Idle == [pc |-> "idle", lines |-> {}, todo |-> {}, val |-> Torn]
IsFirst(l, S) == l \in S /\ \A k \in S : l <= k
Ranges == {a .. b : a, b \in Lines} \ {{}}
-----------------------------------------------------------------------------
(* write_block() and read_block()                                          *)

\* The comparison with _buffer is made without the semaphore; when nothing
\* changes the call returns at once.  AP_Param::setup() has read the storage
\* before anything is written.
WriteBlock(w, S, v) ==
    /\ opened /\ job[w].pc = "idle" /\ budget.writes > 0
    /\ \E l \in S : buffer[l] # v
    /\ Revert \/ \A l \in S : v \notin recent[l]
    /\ budget' = [budget EXCEPT !.writes = @ - 1]
    /\ job' = [job EXCEPT ![w] = [pc |-> "lock", lines |-> S, todo |-> S, val |-> v]]
    /\ UNCHANGED <<buffer, dirty, opened, sem, tick, tmpline, out, device, recent>>

Lock(w) ==
    /\ job[w].pc = "lock" /\ sem = None
    /\ sem' = w
    /\ job' = [job EXCEPT ![w].pc = "copy"]
    /\ UNCHANGED <<buffer, dirty, opened, tick, tmpline, out, device, recent, budget>>

\* memcpy(), line by line.
Copying(l) ==
    \E w \in Writers : job[w].pc = "copy" /\ l \in job[w].todo /\ job[w].val # buffer[l]

CopyLine(w) ==
    /\ job[w].pc = "copy"
    /\ \E l \in job[w].todo :
           /\ IsFirst(l, job[w].todo)
           /\ buffer' = [buffer EXCEPT ![l] = job[w].val]
           /\ recent' = [recent EXCEPT ![l] = @ \cup {job[w].val}]
           /\ job' = [job EXCEPT ![w].todo = @ \ {l}]
    /\ UNCHANGED <<dirty, opened, sem, tick, tmpline, out, device, budget>>

\* _mark_dirty(), and the semaphore is given back.
MarkDirty(w) ==
    /\ job[w].pc = "copy" /\ job[w].todo = {}
    /\ dirty' = dirty \cup job[w].lines
    /\ sem' = None
    /\ job' = [job EXCEPT ![w] = Idle]
    /\ UNCHANGED <<buffer, opened, tick, tmpline, out, device, recent, budget>>
-----------------------------------------------------------------------------
(* _timer_tick()                                                           *)

\* Nothing is dirty: only _last_empty_ms, which healthy() looks at, changes.
NothingToWrite ==
    /\ opened /\ tick.pc = "idle" /\ dirty = {}
    /\ UNCHANGED vars

\* The first dirty line is picked without the semaphore.
PickLine ==
    /\ opened /\ tick.pc = "idle"
    /\ \E l \in dirty : IsFirst(l, dirty) /\ tick' = [pc |-> "take", line |-> l]
    /\ UNCHANGED <<buffer, dirty, opened, sem, tmpline, out, job, device, recent, budget>>

\* Mutant: the copy is not taken, tmpline is that of the line before.
TakeCopyStale ==
    /\ tick.pc = "take" /\ sem = None
    /\ tick' = [tick EXCEPT !.pc = "send"]
    /\ UNCHANGED <<buffer, dirty, opened, sem, tmpline, out, job, device, recent, budget>>

TakeCopy ==
    /\ tick.pc = "take" /\ sem = None
    /\ tmpline' = buffer[tick.line]
    /\ tick' = [tick EXCEPT !.pc = "send"]
    /\ UNCHANGED <<buffer, dirty, opened, sem, out, job, device, recent, budget>>

\* What a device write takes: _buffer is read without the semaphore.
Source ==
    IF Backend = "FRAM" THEN {tmpline}
    ELSE {buffer[tick.line]} \cup IF Copying(tick.line) THEN {Torn} ELSE {}

Send ==
    /\ tick.pc = "send"
    /\ out' \in Source
    /\ tick' = [tick EXCEPT !.pc = "commit"]
    /\ UNCHANGED <<buffer, dirty, opened, sem, tmpline, job, device, recent, budget>>

DeviceWrite ==
    /\ tick.pc = "commit"
    /\ device' = [device EXCEPT ![tick.line] = out]
    /\ tick' = [tick EXCEPT !.pc = "check"]
    /\ UNCHANGED <<buffer, dirty, opened, sem, tmpline, out, job, recent, budget>>

\* The device reports an error, having stored the line or not.
DeviceError ==
    /\ tick.pc = "commit" /\ budget.fails > 0
    /\ budget' = [budget EXCEPT !.fails = @ - 1]
    /\ device' \in {device, [device EXCEPT ![tick.line] = out]}
    /\ tick' = [tick EXCEPT !.pc = "idle"]
    /\ UNCHANGED <<buffer, dirty, opened, sem, tmpline, out, job, recent>>

\* Mutant: the line is marked clean without looking at it again.
CheckLineAlways ==
    /\ tick.pc = "check" /\ sem = None
    /\ dirty' = dirty \ {tick.line}
    /\ recent' = [recent EXCEPT ![tick.line] = {buffer[tick.line]}]
    /\ tick' = [tick EXCEPT !.pc = "idle"]
    /\ UNCHANGED <<buffer, opened, sem, tmpline, out, job, device, budget>>

\* Mutant: the line never becomes clean.
CheckLineNever ==
    /\ tick.pc = "check" /\ sem = None
    /\ tick' = [tick EXCEPT !.pc = "idle"]
    /\ UNCHANGED <<buffer, dirty, recent, opened, sem, tmpline, out, job, device, budget>>

\* The line is clean unless it changed while it was written.
CheckLine ==
    /\ tick.pc = "check" /\ sem = None
    /\ IF tmpline = buffer[tick.line]
       THEN /\ dirty' = dirty \ {tick.line}
            /\ recent' = [recent EXCEPT ![tick.line] = {buffer[tick.line]}]
       ELSE UNCHANGED <<dirty, recent>>
    /\ tick' = [tick EXCEPT !.pc = "idle"]
    /\ UNCHANGED <<buffer, opened, sem, tmpline, out, job, device, budget>>
-----------------------------------------------------------------------------
PowerFailure ==
    /\ opened /\ budget.cuts > 0
    /\ budget' = [budget EXCEPT !.cuts = @ - 1]
    /\ opened' = FALSE /\ sem' = None
    /\ tick' = [pc |-> "idle", line |-> 0]
    /\ job' = [w \in Writers |-> Idle]
    /\ buffer' = device /\ dirty' = {}
    /\ recent' = [l \in Lines |-> {device[l]}]
    /\ UNCHANGED <<tmpline, out, device>>

\* _storage_open(): _buffer is read back from the device.
StorageOpen ==
    /\ ~opened
    /\ opened' = TRUE /\ dirty' = {} /\ buffer' = device
    /\ UNCHANGED <<sem, tick, tmpline, out, job, device, recent, budget>>

Init ==
    /\ device \in [Lines -> Values] /\ buffer = device
    /\ dirty = {} /\ opened = FALSE /\ sem = None
    /\ tick = [pc |-> "idle", line |-> 0]
    /\ tmpline \in Values /\ out = tmpline
    /\ job = [w \in Writers |-> Idle]
    /\ recent = [l \in Lines |-> {device[l]}]
    /\ budget = [writes |-> MaxWrites, fails |-> MaxFails, cuts |-> MaxCuts]

StorageThread == NothingToWrite \/ PickLine \/ TakeCopy \/ Send \/ DeviceWrite \/ CheckLine
Writer(w) == Lock(w) \/ CopyLine(w) \/ MarkDirty(w)

Next ==
    \/ StorageThread \/ DeviceError \/ StorageOpen \/ PowerFailure
    \/ \E w \in Writers : Writer(w) \/ \E S \in Ranges, v \in Values : WriteBlock(w, S, v)

\* The storage thread loops for ever; a thread that holds the semaphore goes on.
Fairness ==
    /\ WF_vars(StorageThread) /\ WF_vars(StorageOpen)
    /\ \A w \in Writers : WF_vars(Writer(w))

Spec == Init /\ [][Next]_vars /\ Fairness
-----------------------------------------------------------------------------
(* Properties                                                              *)

PCs == {"idle", "take", "send", "commit", "check"}

\* Every variable keeps its type.
TypeOK ==
    /\ buffer \in [Lines -> Contents] /\ device \in [Lines -> Contents]
    /\ dirty \subseteq Lines /\ opened \in BOOLEAN /\ sem \in Writers \cup {None}
    /\ tick \in [pc : PCs, line : Lines]
    /\ tmpline \in Contents /\ out \in Contents
    /\ job \in [Writers -> [pc : {"idle", "lock", "copy"}, lines : SUBSET Lines,
                            todo : SUBSET Lines, val : Contents]]
    /\ recent \in [Lines -> SUBSET Contents]
    /\ budget \in [writes : Nat, fails : Nat, cuts : Nat]

\* Lines that a write_block() has changed and not yet marked.
Unmarked == UNION {job[w].lines \ job[w].todo : w \in {x \in Writers : job[x].pc = "copy"}}

Clean == Lines \ (dirty \cup Unmarked)

\* A line that is neither dirty nor about to be marked is up to date on the
\* device: _timer_tick() never forgets a change made while it wrote the line.
CleanIsDurable == \A l \in Clean : device[l] = buffer[l]

AllWritten == \A l \in Lines : device[l] = buffer[l]
\* Every change reaches the device, unless the power fails first: the lines that
\* _timer_tick() leaves dirty are written again until nothing is dirty.
EventuallyWritten == []<>(AllWritten /\ dirty = {})

\* The cache implements the abstract durable store.
Store == INSTANCE DurableStore
         WITH contents <- buffer, durable <- device, clean <- Clean

\* Every step of the cache is a step of the durable store, or changes nothing of it.
ImplementsStore == Store!Spec
=============================================================================
