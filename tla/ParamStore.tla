----------------------------- MODULE ParamStore -----------------------------
(***************************************************************************)
(* AP_Param: parameters saved in storage.                                  *)
(*                                                                         *)
(* Storage holds a list of variables, each a header and its data, up to a  *)
(* sentinel.  save() puts a parameter into a queue; the IO thread takes it *)
(* out and writes the value that the parameter has by then, in place or at *)
(* the end of the list.  Storage is the cache of the HAL: it becomes       *)
(* durable line by line (DurableStore), and the rest is lost when power    *)
(* fails.  A cell stands for a word, the size of a header.                 *)
(***************************************************************************)
EXTENDS Integers, Sequences, FiniteSets

CONSTANTS
    Params,     \* parameters
    Vectors,    \* those of type AP_PARAM_VECTOR3F
    Forced,     \* those that are saved with force_save
    ParamValues,    \* their values; 0 is the default of every one
    Size,       \* _storage.size(), in cells, behind the EEPROM_header
    LineLen,    \* cells of a line of the storage cache
    QueueLen,   \* size of save_queue
    MaxSets,    \* bound: changes of a value
    MaxErases,  \* bound: erase_all() while running
    MaxCrashes  \* bound: power failures

Threads == {"io", "ftp"}
Cells == 0 .. Size - 1
StorageLines == {c \div LineLen : c \in Cells}

NoParam == "none"
Bad     == -1

ASSUME ParamAssumption ==
    /\ Vectors \subseteq Params /\ Forced \subseteq Params /\ NoParam \notin Params
    /\ 0 \in ParamValues /\ Bad \notin ParamValues
    /\ Size \in Nat \ {0} /\ LineLen \in Nat \ {0} /\ QueueLen \in Nat \ {0}
    /\ MaxSets \in Nat /\ MaxErases \in Nat /\ MaxCrashes \in Nat

VARIABLES
    value,      \* the parameters in memory
    storage,    \* storage, as read_block() sees it
    durable,    \* what of it is durable
    queue,      \* save_queue
    saving,     \* parameter that the main thread is about to queue, or NoParam
    saver,      \* each thread in save_sync()
    dropped,    \* history: parameters whose last save was given up
    harm,       \* history: "overlap" of two save_sync(), variables "torn" by a power failure
    left        \* bound: what may still happen

paramVars == <<value, storage, durable, queue, saving, saver, dropped, harm, left>>

\* What is in a cell: a header, a word of data, the sentinel, or 0x00000000 or
\* 0xFFFFFFFF, with which storage is filled.
Header(p)  == [kind |-> "header", p |-> p, v |-> 0]
Word(p, v) == [kind |-> "data", p |-> p, v |-> v]
Sentinel   == [kind |-> "sentinel", p |-> NoParam, v |-> 0]
Fill       == [kind |-> "fill", p |-> NoParam, v |-> 0]

Done == [pc |-> "done", p |-> NoParam, ofs |-> 0]
-----------------------------------------------------------------------------
(* The list of variables                                                   *)

\* In cells; two of the three words of a vector are enough.
type_size(p) == IF p \in Vectors THEN 2 ELSE 1

\* The data of a variable with the value 0 looks like one, too.
is_sentinel(x) == x \in {Sentinel, Fill} \/ (x.kind = "data" /\ x.v = 0)

\* A word that is no header is taken for one of a type without data.
StepOver(x) == 1 + IF x.kind = "header" THEN type_size(x.p) ELSE 0

\* The headers that scan() reads, up to the sentinel or past the end.
Walk(m) ==
    LET From[o \in 0 .. Size + 2] ==
            IF o >= Size \/ is_sentinel(m[o]) THEN <<o>>
            ELSE <<o>> \o From[o + StepOver(m[o])]
    IN  From[0]
End(m) == LET w == Walk(m) IN w[Len(w)]
Found(m, p) == {o \in {Walk(m)[i] : i \in 1 .. Len(Walk(m)) - 1} : m[o] = Header(p)}
First(S) == CHOOSE o \in S : \A x \in S : o <= x

\* The place of the variable, or of the sentinel, or past the end.
scan(m, p) == IF Found(m, p) # {} THEN First(Found(m, p)) ELSE End(m)

\* read_block() of a variable: Bad if its words are not of one value.
Data(m, o, p) ==
    LET D == {IF c < Size THEN m[c] ELSE Fill : c \in o + 1 .. o + type_size(p)}
    IN  IF \E v \in ParamValues : D = {Word(p, v)}
        THEN CHOOSE v \in ParamValues : D = {Word(p, v)} ELSE Bad

\* load(): a variable that is not in storage has its default value.
load(m, p) == IF Found(m, p) = {} THEN 0 ELSE Data(m, First(Found(m, p)), p)

\* The cells of a variable at o and of the sentinel behind it.
Extent(p, o) == o .. o + type_size(p) + 1

\* eeprom_write_check() of x to the cells of C.
eeprom_write_check(C, x) == storage' = [c \in Cells |-> IF c \in C THEN x ELSE storage[c]]
-----------------------------------------------------------------------------
(* save() in the main thread                                               *)

set(p, v) ==
    /\ saving = NoParam /\ left.sets > 0 /\ v # value[p]
    /\ value' = [value EXCEPT ![p] = v]
    /\ saving' = p
    /\ dropped' = dropped \ {p}
    /\ left' = [left EXCEPT !.sets = @ - 1]
    /\ UNCHANGED <<storage, durable, queue, saver, harm>>

\* Mutant: neither is a parameter queued again that is being saved.
AtHeadOrSaved(p) == (queue # <<>> /\ queue[1] = p) \/ saver["io"].p = p

\* "this one is already at the head of the list to be saved"
AtHead(p) == queue # <<>> /\ queue[1] = p

\* When the queue is full the main thread waits, or, when armed, loses the save.
save ==
    /\ saving # NoParam
    /\ \/ AtHead(saving) /\ UNCHANGED <<queue, dropped>>
       \/ /\ ~AtHead(saving) /\ Len(queue) < QueueLen
          /\ queue' = Append(queue, saving) /\ UNCHANGED dropped
       \/ /\ ~AtHead(saving) /\ Len(queue) = QueueLen
          /\ dropped' = dropped \cup {saving} /\ UNCHANGED queue
    /\ saving' = NoParam
    /\ UNCHANGED <<value, storage, durable, saver, harm, left>>

\* MAV_CMD_PREFLIGHT_STORAGE: "All parameters reset, reboot board".
erase_all ==
    /\ saving = NoParam /\ left.erases > 0
    /\ eeprom_write_check({0}, Sentinel)
    /\ dropped' = Params
    /\ left' = [left EXCEPT !.erases = @ - 1]
    /\ UNCHANGED <<value, durable, queue, saving, saver, harm>>
-----------------------------------------------------------------------------
(* save_sync() in the IO thread, and in the thread of an upload            *)

\* A call of save_sync() in thread t.  Nothing keeps the other thread out.
save_sync(t, p) ==
    /\ saver[t] = Done
    /\ saver' = [saver EXCEPT ![t] = [pc |-> "scan", p |-> p, ofs |-> 0]]
    /\ harm' = harm \cup IF \A u \in Threads : saver[u] = Done THEN {} ELSE {"overlap"}

save_io_handler ==
    /\ queue # <<>> /\ queue' = Tail(queue)
    /\ save_sync("io", queue[1])
    /\ UNCHANGED <<value, storage, durable, saving, dropped, left>>

\* The save_io_handler() that finds the queue empty.
NothingToSave == saver["io"] = Done /\ queue = <<>> /\ UNCHANGED paramVars

\* param_upload_parse() does without the queue.
upload(p, v) ==
    /\ left.sets > 0
    /\ value' = [value EXCEPT ![p] = v]
    /\ save_sync("ftp", p)
    /\ dropped' = dropped \ {p}
    /\ left' = [left EXCEPT !.sets = @ - 1]
    /\ UNCHANGED <<storage, durable, queue, saving>>

At(t, pc)   == saver[t].pc = pc
Goto(t, pc) == saver' = [saver EXCEPT ![t].pc = pc]
Leave(t)    == saver' = [saver EXCEPT ![t] = Done]

\* Mutant: the sentinel behind the variable may be past the end.
RoomNoSentinel(o, p) == o + type_size(p) + 1 <= Size
Room(o, p) == o + type_size(p) + 2 < Size

\* A value that need not be added to the list: there is no such test for a vector.
AtDefault(t, p) == p \notin Vectors /\ value[p] = 0 /\ ~(t = "io" /\ p \in Forced)
IsAt(o, p)      == o < Size /\ storage[o] = Header(p)

\* Mutant: a default value is not saved, even if another is in storage.
PlanDefaultFirst(t, p, o) ==
    IF AtDefault(t, p) THEN "skip"
    ELSE IF IsAt(o, p) THEN "update"
    ELSE IF o >= Size \/ ~Room(o, p) THEN "full" ELSE "sentinel"

\* What save_sync() does with p when the search has ended at o.
Plan(t, p, o) ==
    IF IsAt(o, p) THEN "update"
    ELSE IF o >= Size THEN "full"
    ELSE IF AtDefault(t, p) THEN "skip"
    ELSE IF ~Room(o, p) THEN "full" ELSE "sentinel"

Scan(t) ==
    /\ At(t, "scan")
    /\ LET p == saver[t].p
           o == scan(storage, p)
           plan == Plan(t, p, o)
       IN  /\ saver' = [saver EXCEPT ![t] = IF plan \in {"skip", "full"} THEN Done
                                            ELSE [pc |-> plan, p |-> p, ofs |-> o]]
           /\ dropped' = IF plan = "full" THEN dropped \cup {p} ELSE dropped
    /\ UNCHANGED <<value, storage, durable, queue, saving, harm, left>>

write_sentinel(t) ==
    /\ At(t, "sentinel") /\ Goto(t, "data")
    /\ eeprom_write_check({saver[t].ofs + 1 + type_size(saver[t].p)}, Sentinel)
    /\ UNCHANGED <<value, durable, queue, saving, dropped, harm, left>>

\* The value is that of now, not that of when it was queued.
WriteData(t) ==
    /\ At(t, "data") \/ At(t, "update")
    /\ LET p == saver[t].p   o == saver[t].ofs
       IN  eeprom_write_check(o + 1 .. o + type_size(p), Word(p, value[p]))
    /\ IF At(t, "data") THEN Goto(t, "header") ELSE Leave(t)
    /\ UNCHANGED <<value, durable, queue, saving, dropped, harm, left>>

WriteHeader(t) ==
    /\ At(t, "header") /\ Leave(t)
    /\ eeprom_write_check({saver[t].ofs}, Header(saver[t].p))
    /\ UNCHANGED <<value, durable, queue, saving, dropped, harm, left>>
-----------------------------------------------------------------------------
(* Storage and power                                                       *)

CellsOf(l) == {c \in Cells : c \div LineLen = l}
Dirty == {l \in StorageLines : \E c \in CellsOf(l) : storage[c] # durable[c]}

Flush(l) ==
    /\ l \in Dirty
    /\ durable' = [c \in Cells |-> IF c \in CellsOf(l) THEN storage[c] ELSE durable[c]]
    /\ UNCHANGED <<value, storage, queue, saving, saver, dropped, harm, left>>

\* The variables in storage, durable, or on their way there; one that does not
\* fit into a line may be durable in part.
InStorage ==
    UNION {{Extent(p, o) : o \in Found(storage, p) \cup Found(durable, p)} : p \in Params}
    \cup {Extent(saver[t].p, saver[t].ofs) :
              t \in {x \in Threads : saver[x].pc \notin {"done", "scan"}}}
Straddles ==
    \E E \in InStorage :
        LET L == {c \div LineLen : c \in E} IN Cardinality(L) > 1 /\ L \cap Dirty # {}

\* load_all() at the next start.
PowerFails ==
    /\ left.crashes > 0
    /\ storage' = durable /\ UNCHANGED durable
    /\ value' = [p \in Params |-> load(durable, p)]
    /\ queue' = <<>> /\ saving' = NoParam /\ saver' = [t \in Threads |-> Done]
    /\ dropped' = {} /\ harm' = harm \cup IF Straddles THEN {"torn"} ELSE {}
    /\ left' = [left EXCEPT !.crashes = @ - 1]
-----------------------------------------------------------------------------
ParamInit ==
    /\ value = [p \in Params |-> 0]
    /\ storage = [c \in Cells |-> IF c = 0 THEN Sentinel ELSE Fill] /\ durable = storage
    /\ queue = <<>> /\ saving = NoParam /\ saver = [t \in Threads |-> Done]
    /\ dropped = {} /\ harm = {}
    /\ left = [sets |-> MaxSets, erases |-> MaxErases, crashes |-> MaxCrashes]

SaveSync(t) == Scan(t) \/ write_sentinel(t) \/ WriteData(t) \/ WriteHeader(t)

ParamNext ==
    \/ \E p \in Params, v \in ParamValues : set(p, v) \/ upload(p, v)
    \/ save \/ erase_all \/ save_io_handler \/ NothingToSave \/ PowerFails
    \/ \E t \in Threads : SaveSync(t)
    \/ \E l \in StorageLines : Flush(l)

\* The threads that save go on, and so does the storage thread.
ParamFairness ==
    /\ WF_paramVars(save) /\ WF_paramVars(save_io_handler)
    /\ WF_paramVars(SaveSync("io")) /\ WF_paramVars(SaveSync("ftp"))
    /\ \A l \in StorageLines : WF_paramVars(Flush(l))

ParamSpec == ParamInit /\ [][ParamNext]_paramVars /\ ParamFairness
-----------------------------------------------------------------------------
(* Properties                                                              *)

\* What load_all() and every later save rely on: scan() gets to the sentinel, over
\* headers of different parameters with data of their own.
Readable ==
    LET w == Walk(storage) IN
    /\ w[Len(w)] < Size
    /\ \A i \in 1 .. Len(w) - 1 :
          /\ storage[w[i]].kind = "header" /\ Data(storage, w[i], storage[w[i]].p) # Bad
          /\ \A j \in 1 .. i - 1 : storage[w[i]] # storage[w[j]]

\* The list is readable after every write of a save and after a power failure, with
\* erase_all() and a full storage in between, until two threads have been in save_sync()
\* at the same time, or power has failed with a variable across two lines of the cache
\* not durable in both: against these two the code does nothing.
ListSound == harm = {} => Readable

\* When nothing is left to save, storage holds the value of every parameter, unless
\* its save was given up: what save() leaves out because the parameter is at the
\* head of the queue is not lost.  As long as the list has come to no harm.
Resting == saving = NoParam /\ queue = <<>> /\ \A t \in Threads : saver[t] = Done
AllSaved ==
    harm = {} /\ Resting => \A p \in Params \ dropped : load(storage, p) = value[p]

\* The device comes to hold the value of every parameter, unless its save was given
\* up: what is queued is saved, and what is saved is written.  As long as the list has
\* come to no harm.
ReachesDevice ==
    []<>(harm # {} \/ \A p \in Params \ dropped : load(durable, p) = value[p])
-----------------------------------------------------------------------------
(* What comments in the code say, and the code does not do                 *)

\* Power that goes off while a variable is added, with one save_sync() at a time, leaves
\* a list that can be read.
SurvivesPowerOff == "overlap" \notin harm => Readable
=============================================================================
