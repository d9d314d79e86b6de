----------------------------- MODULE LogBlocks ------------------------------
(***************************************************************************)
(* What logging over MAVLink promises: the life of a block of the log,     *)
(* from the free list to the client and back, over a link that loses,      *)
(* repeats and reorders messages.  How the blocks are linked into queues,  *)
(* and when they are sent, is left to the implementation.                  *)
(***************************************************************************)
EXTENDS Naturals

CONSTANTS Blocks        \* the blocks of the buffer

VARIABLES
    loc,        \* where each block is
    seqno,      \* dm_block::seqno
    nextSeq,    \* _next_seq_num
    sending,    \* _sending_to_client
    toClient,   \* sequence numbers of the blocks in flight
    toVehicle,  \* status messages in flight
    got,        \* history: blocks of this log that the client has
    mixed       \* history: this log began with messages of the one before in flight

blockVars == <<loc, seqno, nextSeq, sending, toClient, toVehicle, got, mixed>>

Places == {"free", "current", "pending", "sent", "retry"}

Ack(s)  == [kind |-> "ack", seq |-> s]
Nack(s) == [kind |-> "nack", seq |-> s]
StartLog == [kind |-> "start", seq |-> 0]
StopLog  == [kind |-> "stop", seq |-> 0]
Messages == [kind : {"ack", "nack", "start", "stop"}, seq : Nat]

Init ==
    /\ loc = [b \in Blocks |-> "free"] /\ seqno \in [Blocks -> Nat]
    /\ nextSeq = 0 /\ sending = FALSE
    /\ toClient = {} /\ toVehicle = {} /\ got = {} /\ mixed = FALSE

\* A message that arrives may arrive again.
Arrives(m, S, T) == m \in S /\ T \in {S, S \ {m}}
-----------------------------------------------------------------------------
(* The vehicle                                                             *)

\* A free block becomes the one that is written to.
Open(b) ==
    /\ loc[b] = "free" /\ \A c \in Blocks : loc[c] # "current"
    /\ loc' = [loc EXCEPT ![b] = "current"]
    /\ seqno' = [seqno EXCEPT ![b] = nextSeq] /\ nextSeq' = nextSeq + 1
    /\ UNCHANGED <<sending, toClient, toVehicle, got, mixed>>

\* The block is full; c is written to next.
Turn(b, c) ==
    /\ loc[b] = "current" /\ loc[c] = "free"
    /\ loc' = [loc EXCEPT ![b] = "pending", ![c] = "current"]
    /\ seqno' = [seqno EXCEPT ![c] = nextSeq] /\ nextSeq' = nextSeq + 1
    /\ UNCHANGED <<sending, toClient, toVehicle, got, mixed>>

\* The last block is full.
Close(b) ==
    /\ loc[b] = "current" /\ \A c \in Blocks : loc[c] # "free"
    /\ loc' = [loc EXCEPT ![b] = "pending"]
    /\ UNCHANGED <<seqno, nextSeq, sending, toClient, toVehicle, got, mixed>>

Transmit(S) ==
    /\ \A b \in S : loc[b] \in {"pending", "retry"}
    /\ loc' = [b \in Blocks |-> IF b \in S THEN "sent" ELSE loc[b]]
    /\ toClient' = toClient \cup {seqno[b] : b \in S}
    /\ UNCHANGED <<seqno, nextSeq, sending, toVehicle, got, mixed>>

Resend(S) ==
    /\ \A b \in S : loc[b] = "sent"
    /\ toClient' = toClient \cup {seqno[b] : b \in S}
    /\ UNCHANGED <<loc, seqno, nextSeq, sending, toVehicle, got, mixed>>

\* An acknowledged block is free again, one that is asked for is sent again.
HandleAck(b) ==
    /\ loc[b] \in {"sent", "retry"}
    /\ Arrives(Ack(seqno[b]), toVehicle, toVehicle')
    /\ loc' = [loc EXCEPT ![b] = "free"]
    /\ UNCHANGED <<seqno, nextSeq, sending, toClient, got, mixed>>

HandleNack(b) ==
    /\ loc[b] = "sent"
    /\ Arrives(Nack(seqno[b]), toVehicle, toVehicle')
    /\ loc' = [loc EXCEPT ![b] = "retry"]
    /\ UNCHANGED <<seqno, nextSeq, sending, toClient, got, mixed>>

\* A new log: its blocks are numbered from 0 again.
HandleStart ==
    /\ ~sending
    /\ Arrives(StartLog, toVehicle, toVehicle')
    /\ sending' = TRUE
    /\ loc' = [b \in Blocks |-> "free"] /\ seqno' \in [Blocks -> Nat] /\ nextSeq' = 0
    /\ got' = {}
    /\ mixed' = (toClient # {} \/ \E m \in toVehicle : m.kind = "ack")
    /\ UNCHANGED toClient

Stop ==
    /\ sending' = FALSE
    /\ toVehicle' \in {toVehicle, toVehicle \ {StopLog}}
    /\ UNCHANGED <<loc, seqno, nextSeq, toClient, got, mixed>>

\* A message that changes nothing, or is lost.
Ignore ==
    /\ \/ toVehicle' \subseteq toVehicle /\ UNCHANGED toClient
       \/ toClient' \subseteq toClient /\ UNCHANGED toVehicle
    /\ UNCHANGED <<loc, seqno, nextSeq, sending, got, mixed>>
-----------------------------------------------------------------------------
(* The client                                                              *)

\* The client answers; the answer may be lost at once.
Receive(s) ==
    /\ Arrives(s, toClient, toClient')
    /\ got' = got \cup {s}
    /\ toVehicle' \in {toVehicle, toVehicle \cup {Ack(s)}}
    /\ UNCHANGED <<loc, seqno, nextSeq, sending, mixed>>

Request(m) ==
    /\ m.kind # "ack"
    /\ toVehicle' = toVehicle \cup {m}
    /\ UNCHANGED <<loc, seqno, nextSeq, sending, toClient, got, mixed>>

Next ==
    \/ Ignore \/ Stop \/ HandleStart
    \/ \E s \in toClient : Receive(s)
    \/ \E m \in toVehicle' : Request(m)
    \/ \E S \in SUBSET Blocks : Resend(S) \/ Transmit(S)
    \/ \E b \in Blocks : Open(b) \/ Close(b) \/ HandleAck(b) \/ HandleNack(b)
    \/ \E b, c \in Blocks : Turn(b, c)

Spec == Init /\ [][Next]_blockVars
-----------------------------------------------------------------------------
Held(s) == \E b \in Blocks : loc[b] # "free" /\ seqno[b] = s

\* No block of the log is given up before the client has it: a free block's
\* number, once used, is one that free_seqno_from_queue() was told has arrived.
NothingLost == mixed \/ \A s \in 0 .. nextSeq - 1 : s \in got \/ Held(s)

\* dequeue_seqno() can look for a block by its number: no two blocks share one.
NumbersDiffer ==
    \A b, c \in Blocks : loc[b] # "free" /\ loc[c] # "free" /\ seqno[b] = seqno[c] => b = c
=============================================================================
