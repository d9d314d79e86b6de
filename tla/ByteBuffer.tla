----------------------------- MODULE ByteBuffer -----------------------------
(***************************************************************************)
(* ByteBuffer: the lock-free ring buffer between one writing and one       *)
(* reading thread (UART drivers, DMA callbacks, loggers).                  *)
(*                                                                         *)
(* The writer reserves space, copies its bytes and commits them by storing *)
(* tail; the reader looks at what is available, copies it and advances     *)
(* head.  A step reads or stores at most one index of the other thread.    *)
(***************************************************************************)
EXTENDS Integers, Sequences

CONSTANTS
    Size,        \* size
    Bytes,       \* values of a byte
    MaxLen,      \* bound: longest len passed to write() and read()
    ClearLocked  \* TRUE: clear() excludes the writer;
                 \* FALSE: called like UARTDriver::_discard_input()

ASSUME BufferAssumption ==
    /\ Size \in Nat \ {0} /\ MaxLen \in Nat
    /\ ClearLocked \in BOOLEAN

VARIABLES
    buf,    \* buf
    head,   \* where to read data
    tail,   \* where to write data
    w,      \* the writer: bytes to be written, how many are copied, where to
    r       \* the reader: bytes wanted, the first part of the iovec, bytes read

bufferVars == <<buf, head, tail, w, r>>

Cells == 0 .. Size - 1
Strings(n) == UNION {[1 .. m -> Bytes] : m \in 1 .. n}
Lesser(a, b) == IF a < b THEN a ELSE b

WIdle == [pc |-> "idle", data |-> <<>>, k |-> 0, pos |-> 0]
RIdle == [pc |-> "idle", n |-> 0, first |-> 0, data |-> <<>>]

available == IF head > tail THEN Size - head + tail ELSE tail - head

\* Mutant: no cell is left free, so that full looks like empty.
spaceNoGap == (IF head <= tail THEN Size ELSE 0) + head - tail
space == (IF head <= tail THEN Size ELSE 0) + head - tail - 1
-----------------------------------------------------------------------------
(* The writer: write(), or reserve() and commit()                          *)

Reserve(s) ==
    /\ w.pc = "idle" /\ (ClearLocked => r.pc # "clear")
    /\ space > 0
    /\ w' = [pc |-> "copy", data |-> SubSeq(s, 1, Lesser(Len(s), space)), k |-> 0, pos |-> tail]
    /\ UNCHANGED <<buf, head, tail, r>>

\* The two parts of the iovec: up to the end of buf, and from its start.
WCell(i) == IF i < Size - w.pos THEN w.pos + i ELSE i - (Size - w.pos)

CopyByte ==
    /\ w.pc = "copy" /\ w.k < Len(w.data)
    /\ buf' = [buf EXCEPT ![WCell(w.k)] = w.data[w.k + 1]]
    /\ w' = [w EXCEPT !.k = @ + 1]
    /\ UNCHANGED <<head, tail, r>>

\* Mutant: off by one.
CommitOkLess(n) == n < space
\* commit() looks at the space again.
CommitOk(n) == n <= space

\* commit(): as many bytes as were written, not more than were reserved.
Commit ==
    /\ w.pc = "copy" /\ w.k > 0
    /\ IF CommitOk(w.k) THEN w' = [w EXCEPT !.pc = "store", !.pos = (tail + w.k) % Size]
       ELSE w' = [w EXCEPT !.pc = "refused"]
    /\ UNCHANGED <<buf, head, tail, r>>

\* "Someone broke the agreement": commit() gives up.
StoreTail ==
    /\ w.pc \in {"store", "refused"}
    /\ tail' = IF w.pc = "store" THEN w.pos ELSE tail
    /\ w' = WIdle
    /\ UNCHANGED <<buf, head, r>>
-----------------------------------------------------------------------------
(* The reader: read(), or peekiovec() and advance()                        *)

\* Mutant: len is not limited to what is available.
PeekUnlimited(len) ==
    /\ r.pc = "idle" /\ available > 0
    /\ r' = [pc |-> "ptr", n |-> len, first |-> 0, data |-> <<>>]
    /\ UNCHANGED <<buf, head, tail, w>>

Peek(len) ==
    /\ r.pc = "idle" /\ available > 0
    /\ r' = [pc |-> "ptr", n |-> Lesser(len, available), first |-> 0, data |-> <<>>]
    /\ UNCHANGED <<buf, head, tail, w>>

\* readptr() reads tail once more.
ReadPtr ==
    /\ r.pc = "ptr"
    /\ LET c == IF head > tail THEN Size - head ELSE tail - head
       IN  r' = [r EXCEPT !.pc = "read", !.first = Lesser(c, r.n)]
    /\ UNCHANGED <<buf, head, tail, w>>

RCell(i) == IF i < r.first THEN head + i ELSE i - r.first

ReadByte ==
    /\ r.pc = "read" /\ Len(r.data) < r.n
    /\ r' = [r EXCEPT !.data = Append(@, buf[RCell(Len(@))])]
    /\ UNCHANGED <<buf, head, tail, w>>

\* Mutant: one byte too many.
AdvancePast(n) ==
    /\ r.pc = "read" /\ n <= Len(r.data)
    /\ head' = IF n > available THEN head ELSE (head + n + 1) % Size
    /\ r' = RIdle
    /\ UNCHANGED <<buf, tail, w>>
\* advance() by what was read; peekbytes() alone leaves head where it is.
Advance(n) ==
    /\ r.pc = "read" /\ n <= Len(r.data)
    /\ head' = IF n > available THEN head ELSE (head + n) % Size
    /\ r' = RIdle
    /\ UNCHANGED <<buf, tail, w>>

\* clear() stores the two indices one after the other.
ClearTail ==
    /\ r.pc = "idle" /\ (ClearLocked => w.pc = "idle")
    /\ tail' = 0
    /\ r' = [r EXCEPT !.pc = "clear"]
    /\ UNCHANGED <<buf, head, w>>

ClearHead ==
    /\ r.pc = "clear"
    /\ head' = 0
    /\ r' = RIdle
    /\ UNCHANGED <<buf, tail, w>>
-----------------------------------------------------------------------------
BufferInit ==
    /\ buf \in [Cells -> Bytes]
    /\ head = 0 /\ tail = 0
    /\ w = WIdle /\ r = RIdle

BufferNext ==
    \/ \E s \in Strings(MaxLen) : Reserve(s)
    \/ CopyByte \/ Commit \/ StoreTail
    \/ \E n \in 1 .. MaxLen : Peek(n)
    \/ ReadPtr \/ ReadByte \/ ClearTail \/ ClearHead
    \/ \E n \in 0 .. MaxLen : Advance(n)

BufferSpec == BufferInit /\ [][BufferNext]_bufferVars
-----------------------------------------------------------------------------
(* Properties                                                              *)

\* Every variable keeps its type.
BufferTypeOK ==
    /\ buf \in [Cells -> Bytes] /\ head \in Cells /\ tail \in Cells
    /\ w.pc \in {"idle", "copy", "store", "refused"} /\ w.data \in Seq(Bytes)
    /\ w.k \in 0 .. Len(w.data) /\ w.pos \in Cells
    /\ r.pc \in {"idle", "ptr", "read", "clear"} /\ r.data \in Seq(Bytes)
    /\ r.n \in Nat /\ r.first \in Nat

\* The readable bytes, in order.
Cell(i) == IF head + i < Size THEN head + i ELSE head + i - Size
Queued == [i \in 1 .. available |-> buf[Cell(i - 1)]]

\* What read() has copied so far is the front of the queue, also when the writer
\* commits, and wraps around, between the steps of the reader.
ReadsInOrder ==
    r.pc = "read" =>
        /\ Len(r.data) <= available
        /\ \A i \in 1 .. Len(r.data) : r.data[i] = Queued[i]

\* commit() never finds that someone broke the agreement.
CommitAccepted == w.pc # "refused"

\* The ring buffer implements a queue of Size - 1 bytes; the first of the two
\* stores of clear() empties it.
Queue == INSTANCE Fifo
         WITH Capacity <- Size - 1, q <- IF r.pc = "clear" THEN <<>> ELSE Queued

\* Every step appends to the queue, takes from its front, or empties it.
ImplementsFifo == Queue!Spec

\* A commit makes readable exactly the bytes that were just written, behind those
\* that were readable before: what clear() discarded does not come back.
CommitAppends ==
    [][w.pc = "store" /\ w'.pc = "idle" /\ r.pc = "idle" =>
         Queued' = Queued \o SubSeq(w.data, 1, w.k)]_bufferVars
=============================================================================
