--------------------------- MODULE LoggerMAVLink ----------------------------
(***************************************************************************)
(* AP_Logger_MAVLink: the log sent to a client in numbered blocks.         *)
(*                                                                         *)
(* The main thread sends blocks and handles the client's status messages;  *)
(* any thread may write to the log.  All of them take the semaphore with   *)
(* take_nonblocking() and give up when another thread holds it.  A block   *)
(* is on the free stack, on one of three queues (singly linked lists), or  *)
(* is the one that is written to.                                          *)
(***************************************************************************)
EXTENDS LoggerLists, FiniteSets

CONSTANTS
    BlockLen,   \* MAVLINK_MSG_REMOTE_LOG_DATA_BLOCK_FIELD_DATA_LEN
    Sizes,      \* sizes of the log messages that are written
    MaxBlocks,  \* _max_blocks_per_send_blocks
    Silence,    \* 10 s without an answer, in units of 100 ms
    MaxSeq,     \* bound: blocks of one log
    MaxMishaps, \* bound: messages that are lost or arrive twice
    MaxFlight   \* bound: blocks, acknowledgements and other messages in flight

\* Init() allocates no fewer than 8 blocks, and a log message is shorter than two.
ASSUME LoggerAssumption ==
    /\ BlockLen \in Nat \ {0}
    /\ Sizes \subseteq 1 .. BlockCount * BlockLen
    /\ {MaxBlocks, Silence, MaxSeq, MaxMishaps, MaxFlight} \subseteq Nat

VARIABLES
    links,      \* dm_block::next, the queues, _blocks_free and _blockcount_free
    seqno,      \* dm_block::seqno
    due,        \* blocks last sent more than 100 ms ago
    current,    \* _current_block
    blockLen,   \* _latest_block_len
    nextSeq,    \* _next_seq_num
    sending,    \* _sending_to_client
    quiet,      \* time since _last_response_time, now and at _last_send_time
    sem,        \* whether a writer holds the semaphore
    writer,     \* a thread in WritePrioritisedBlock()
    errors,     \* INTERNAL_ERRORs raised
    mishaps,    \* messages that may still be lost or arrive twice
    toClient, toVehicle, got, mixed     \* as in LogBlocks

loggerVars == <<links, seqno, due, current, blockLen, nextSeq, sending, quiet, sem,
                writer, mishaps, errors, toClient, toVehicle, got, mixed>>
blocks == <<links, seqno, due, current, blockLen, nextSeq>>
radio == <<toClient, toVehicle, got, mixed>>

NoWrite == [pc |-> "idle", left |-> 0]
Junk    == MaxSeq
-----------------------------------------------------------------------------
(* Looking up a block                                                      *)

\* Mutant: the oldest block is taken for the one that has the number.
FirstWithAny(L, q, s) == IF ListOf(L, q) = <<>> THEN {} ELSE {1}

\* The place of the first block of the queue that has the number.
FirstWith(L, q, s) ==
    LET w == ListOf(L, q) IN
    {i \in 1 .. Len(w) : seqno[w[i]] = s /\ \A j \in 1 .. i - 1 : seqno[w[j]] # s}

-----------------------------------------------------------------------------
(* Writing to the log                                                      *)

bufferspace_available == links.count * BlockLen + (BlockLen - blockLen)

\* WritesOK() is asked without the semaphore.
WritesOK(n) ==
    /\ writer.pc = "idle" /\ sending
    /\ writer' = [pc |-> "ready", left |-> n]
    /\ UNCHANGED <<blocks, sending, quiet, sem, errors, mishaps, radio>>

\* Another thread holds the semaphore, or there is no room: the message is
\* dropped. The main thread may hold it at any time, inside one of its steps.
DropWrite ==
    /\ writer.pc = "ready"
    /\ writer' = NoWrite
    /\ UNCHANGED <<blocks, sending, quiet, sem, errors, mishaps, radio>>

\* Blocks that the write of n bytes takes, if there are so many.
Taken(n) ==
    LET k == IF current = Nil THEN 1 + n \div BlockLen ELSE (blockLen + n) \div BlockLen
        f == Len(FreeStack(links))
    IN  IF k < f THEN k ELSE f

StartWrite ==
    /\ writer.pc = "ready" /\ sem = "free" /\ bufferspace_available >= writer.left
    /\ nextSeq + Taken(writer.left) <= MaxSeq
    /\ sem' = "writer" /\ writer' = [writer EXCEPT !.pc = "copy"]
    /\ UNCHANGED <<blocks, sending, quiet, errors, mishaps, radio>>

\* Of the lists L, a free block is taken, if there is one.
next_block(L) ==
    /\ current' = L.free
    /\ IF L.free = Nil
       THEN links' = L /\ UNCHANGED <<seqno, due, nextSeq>>
       ELSE /\ links' = PopFree(L)
            /\ seqno' = [seqno EXCEPT ![L.free] = nextSeq] /\ nextSeq' = nextSeq + 1
            /\ due' = due \cup {L.free}

NeedBlock ==
    /\ writer.pc = "copy" /\ current = Nil
    /\ next_block(links)
    /\ IF links.free = Nil
       THEN /\ errors' = errors \cup {"logger_bad_current_block"}
            /\ sem' = "free" /\ writer' = NoWrite /\ UNCHANGED blockLen
       ELSE blockLen' = 0 /\ UNCHANGED <<errors, sem, writer>>
    /\ UNCHANGED <<sending, quiet, mishaps, radio>>

\* One memcpy(); a full block is pending, and the next one is taken.
Copy ==
    /\ writer.pc = "copy" /\ current # Nil
    /\ LET n == IF writer.left > BlockLen - blockLen THEN BlockLen - blockLen ELSE writer.left
           done == writer.left = n
       IN  /\ writer' = IF done THEN NoWrite ELSE [writer EXCEPT !.left = @ - n]
           /\ sem' = IF done THEN "free" ELSE sem
           /\ IF blockLen + n = BlockLen
              THEN /\ next_block(enqueue_block(links, "pending", current))
                   /\ blockLen' = IF links.free = Nil THEN BlockLen ELSE 0
              ELSE blockLen' = blockLen + n /\ UNCHANGED <<links, seqno, due, current, nextSeq>>
    /\ UNCHANGED <<sending, quiet, errors, mishaps, radio>>
-----------------------------------------------------------------------------
(* Sending: periodic_tasks() in the main thread                            *)

\* _link->txspace(): the channel takes no more than it can hold.
Sent(S) == toClient' = toClient \cup S /\ Cardinality(toClient') <= MaxFlight

\* It stops when the queue is empty, enough has been sent or the link has no room.
CanSend(L, q) ==
    LET n == Len(ListOf(L, q)) IN 0 .. IF n > MaxBlocks THEN MaxBlocks + 1 ELSE n

\* The pending blocks have to wait until the retries are all sent.
push_log_blocks ==
    /\ sem = "free" /\ sending
    /\ \E n \in CanSend(links, "retry") :
       LET L == SendFrom(links, "retry", n)
           left == ListOf(L, "retry")
       IN  \E k \in IF left = <<>> THEN CanSend(L, "pending") ELSE {0} :
           LET S == Oldest(links, "retry", n) \cup Oldest(L, "pending", k) IN
           /\ S # {} /\ Sent({seqno[b] : b \in S})
           /\ links' = SendFrom(L, "pending", k)
           /\ due' = due \ S
    /\ quiet' = [quiet EXCEPT !.sent = quiet.now]
    /\ UNCHANGED <<seqno, current, blockLen, nextSeq, sending, sem, writer, errors, mishaps>>
    /\ UNCHANGED <<toVehicle, got, mixed>>

\* Mutant: the blocks that were sent lately are sent again.
DueLately(n) == Oldest(links, "sent", n) \ due

\* Those of the n oldest blocks of the sent queue that are sent again.
DueBlocks(n) == Oldest(links, "sent", n) \cap due

\* It goes through the queue, oldest first, while there is room.
do_resends ==
    /\ sem = "free" /\ sending
    /\ \E n \in 1 .. Len(ListOf(links, "sent")) :
           /\ DueBlocks(n) # {}
           /\ Sent({seqno[b] : b \in DueBlocks(n)})
           /\ due' = due \ DueBlocks(n)
    /\ quiet' = [quiet EXCEPT !.sent = quiet.now]
    /\ UNCHANGED <<links, seqno, current, blockLen, nextSeq, sending, sem, writer, errors>>
    /\ UNCHANGED <<mishaps, toVehicle, got, mixed>>

\* 100 ms pass.
Tick ==
    /\ due' = Blocks
    /\ quiet' = [quiet EXCEPT !.now = IF @ > Silence THEN @ ELSE @ + 1]
    /\ UNCHANGED <<links, seqno, current, blockLen, nextSeq, sending, sem, writer, errors>>
    /\ UNCHANGED <<mishaps, radio>>

\* The other end appears to have timed out.
periodic_1Hz ==
    /\ sending /\ quiet.sent > Silence
    /\ sending' = FALSE
    /\ UNCHANGED <<blocks, quiet, sem, writer, errors, mishaps, radio>>
-----------------------------------------------------------------------------
(* The client's messages: remote_log_block_status_msg() in the main thread *)

\* Where the blocks are.
Members(q) == {ListOf(links, q)[i] : i \in 1 .. Len(ListOf(links, q))}
Places ==
    LET In == [q \in Queues |-> Members(q)] IN
    [b \in Blocks |-> IF b = current THEN "current"
                      ELSE IF \E q \in Queues : b \in In[q]
                           THEN CHOOSE q \in Queues : b \in In[q]
                           ELSE "free"]

Abstract == INSTANCE LogBlocks WITH loc <- Places

\* A message of S arrives, and T is what is left; it may arrive again.
Arrives(m, S, T) ==
    /\ m \in S
    /\ \/ T = S \ {m} /\ UNCHANGED mishaps
       \/ T = S /\ mishaps > 0 /\ mishaps' = mishaps - 1

Handled(m) == sem = "free" /\ Arrives(m, toVehicle, toVehicle')

Answered == quiet' = [now |-> 0, sent |-> 0]

\* free_seqno_from_queue(): first the blocks that were sent, then those to be sent again.
AckIn(s, q) ==
    \E i \in FirstWith(links, q, s) :
        links' = PushFree(dequeue(links, q, i), ListOf(links, q)[i])

handle_ack(s) ==
    /\ Handled(Abstract!Ack(s))
    /\ \/ AckIn(s, "sent")
       \/ FirstWith(links, "sent", s) = {} /\ AckIn(s, "retry")
    /\ Answered
    /\ UNCHANGED <<seqno, due, current, blockLen, nextSeq, sending, sem, writer, errors>>
    /\ UNCHANGED <<toClient, got, mixed>>

handle_retry(s) ==
    /\ Handled(Abstract!Nack(s)) /\ sending
    /\ \E i \in FirstWith(links, "sent", s) :
           links' = enqueue_block(dequeue(links, "sent", i), "retry", ListOf(links, "sent")[i])
    /\ Answered
    /\ UNCHANGED <<seqno, due, current, blockLen, nextSeq, sending, sem, writer, errors>>
    /\ UNCHANGED <<toClient, got, mixed>>

\* Mutant: the numbers go on from the log before.
start_new_log_KeepsNumber ==
    /\ Handled(Abstract!StartLog) /\ ~sending
    /\ links' = free_all_blocks /\ current' = Nil /\ blockLen' = 0
    /\ seqno' = [b \in Blocks |-> Junk] /\ UNCHANGED nextSeq
    /\ sending' = TRUE /\ Answered
    /\ got' = {}
    /\ mixed' = (toClient # {} \/ \E m \in toVehicle : m.kind = "ack")
    /\ UNCHANGED <<due, sem, writer, errors, toClient>>

\* MAV_REMOTE_LOG_DATA_BLOCK_START: ignored while a log is being sent.
start_new_log ==
    /\ Handled(Abstract!StartLog) /\ ~sending
    /\ links' = free_all_blocks /\ current' = Nil /\ blockLen' = 0
    /\ seqno' = [b \in Blocks |-> Junk] /\ nextSeq' = 0
    /\ sending' = TRUE /\ Answered
    /\ got' = {}
    /\ mixed' = (toClient # {} \/ \E m \in toVehicle : m.kind = "ack")
    /\ UNCHANGED <<due, sem, writer, errors, toClient>>

stop_logging ==
    /\ Handled(Abstract!StopLog) /\ sending
    /\ sending' = FALSE /\ Answered
    /\ UNCHANGED <<blocks, sem, writer, errors, toClient, got, mixed>>

\* A message that is lost on the way, or that remote_log_block_status_msg()
\* drops because another thread holds the semaphore.
Lost ==
    /\ mishaps > 0 /\ mishaps' = mishaps - 1
    /\ \/ \E m \in toVehicle : toVehicle' = toVehicle \ {m} /\ UNCHANGED toClient
       \/ \E s \in toClient : toClient' = toClient \ {s} /\ UNCHANGED toVehicle
    /\ UNCHANGED <<blocks, sending, quiet, sem, writer, errors, got, mixed>>

\* A message that says nothing new.
NoUse(m) ==
    CASE m.kind = "ack"   -> \A q \in {"sent", "retry"} : FirstWith(links, q, m.seq) = {}
      [] m.kind = "nack"  -> FirstWith(links, "sent", m.seq) = {} \/ ~sending
      [] m.kind = "start" -> sending
      [] m.kind = "stop"  -> ~sending

Useless(m) ==
    /\ Handled(m) /\ NoUse(m)
    /\ UNCHANGED <<blocks, sending, quiet, sem, writer, errors, toClient, got, mixed>>

vehicle == <<blocks, sending, quiet, sem, writer, errors>>

\* The client: it acknowledges what arrives, asks for what it misses, and
\* starts and stops the log.
Say(m) ==
    /\ toVehicle' = toVehicle \cup {m}
    /\ Cardinality({x \in toVehicle' : (x.kind = "ack") = (m.kind = "ack")}) <= MaxFlight

ReceiveBlock(s) ==
    /\ Arrives(s, toClient, toClient')
    /\ got' = got \cup {s}
    /\ Say(Abstract!Ack(s))
    /\ UNCHANGED <<vehicle, mixed>>

AskAgain(s) ==
    /\ s \notin got /\ \E t \in got : s < t
    /\ Say(Abstract!Nack(s))
    /\ UNCHANGED <<vehicle, mishaps, toClient, got, mixed>>

StartOrStop ==
    /\ Say(Abstract!StartLog) \/ Say(Abstract!StopLog)
    /\ UNCHANGED <<vehicle, mishaps, toClient, got, mixed>>
-----------------------------------------------------------------------------
LoggerInit ==
    /\ links = free_all_blocks /\ seqno = [b \in Blocks |-> Junk] /\ due = Blocks
    /\ current = Nil /\ blockLen = 0 /\ nextSeq = 0 /\ sending = FALSE
    /\ quiet = [now |-> Silence + 1, sent |-> 0]
    /\ sem = "free" /\ writer = NoWrite /\ errors = {} /\ mishaps = MaxMishaps
    /\ toClient = {} /\ toVehicle = {} /\ got = {} /\ mixed = FALSE

Seqs == 0 .. MaxSeq - 1
Writing == DropWrite \/ StartWrite \/ NeedBlock \/ Copy

LoggerNext ==
    \/ Writing \/ push_log_blocks \/ do_resends \/ Tick \/ periodic_1Hz
    \/ start_new_log \/ stop_logging \/ Lost \/ StartOrStop
    \/ \E n \in Sizes : WritesOK(n)
    \/ \E m \in toVehicle : Useless(m)
    \/ \E s \in Seqs : handle_ack(s) \/ handle_retry(s) \/ ReceiveBlock(s) \/ AskAgain(s)

LoggerSpec == LoggerInit /\ [][LoggerNext]_loggerVars

\* The threads go on, and the link delivers.
LoggerFairness ==
    /\ WF_loggerVars(Writing) /\ WF_loggerVars(Tick)
    /\ WF_loggerVars(push_log_blocks) /\ WF_loggerVars(do_resends)
    /\ \A s \in Seqs : /\ WF_loggerVars(ReceiveBlock(s))
                       /\ WF_loggerVars(handle_ack(s) \/ Useless(Abstract!Ack(s)))
-----------------------------------------------------------------------------
(* Properties                                                              *)

\* The lists are what stats_collect() and free_seqno_from_queue() take them to
\* be: the youngest block of a queue is its last one, _blockcount_free counts the
\* free blocks, and every block is in exactly one place.
ListsSound ==
    LET W == [q \in Queues |-> ListOf(links, q)]
        F == FreeStack(links)
        C == IF current = Nil THEN <<>> ELSE <<current>>
        All == W["pending"] \o W["sent"] \o W["retry"] \o F \o C
    IN  /\ links.count = Len(F)
        /\ \A q \in Queues :
               links.queue[q].youngest = IF W[q] = <<>> THEN Nil ELSE W[q][Len(W[q])]
        /\ Len(All) = BlockCount /\ {All[i] : i \in 1 .. Len(All)} = Blocks

\* A write that found room never runs out of blocks: bufferspace_available()
\* never promises more than there is.
SpaceIsReal == errors = {}

\* No block is given up before the client has it.
LogNothingLost == Abstract!NothingLost

\* Every step is a step of the life of a block, or changes nothing of it.
ImplementsLogBlocks == Abstract!Spec

\* A full block comes back, acknowledged, unless the log is stopped.
Waiting(b) == \E q \in Queues : b \in Members(q)
BlocksComeBack == \A b \in Blocks : Waiting(b) ~> (~Waiting(b) \/ ~sending)
=============================================================================
