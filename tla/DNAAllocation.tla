--------------------------- MODULE DNAAllocation ----------------------------
(***************************************************************************)
(* Dynamic allocation of node IDs on CAN: AP_DroneCAN_DNA_Server, and the  *)
(* side of the nodes as AP_Periph has it.                                  *)
(*                                                                         *)
(* A node sends its unique ID in parts.  The server answers each part with *)
(* all that it has received so far, and the last one with the node ID.     *)
(* Everybody on the bus hears every message: a node that hears another ask *)
(* starts again.  Messages may be missed, by some or by all.               *)
(***************************************************************************)
EXTENDS DNADatabase, Sequences, FiniteSets

CONSTANTS
    UidBytes,   \* what unique IDs are made of
    UidLen,     \* length of a unique ID
    PartLen,    \* MaxLenOfUniqueIDInRequest
    Nodes,      \* unique IDs of the nodes; Uids are all that can be put together
    BusOf,      \* the CAN driver that a node is connected to
    NumBuses,
    OwnId,      \* node ID of the servers, the same for all by default
    OwnUid,     \* their unique ID, made from that of the board and OwnId
    NewIds,     \* what CAN_NODE is set to when a node is restarted; 0: use DNA
    MaxReplies, \* bound: answers that a server has not sent yet
    MaxTrouble  \* bound: messages missed or late, and restarts

Buses == 1 .. NumBuses

ASSUME AllocationAssumption ==
    /\ UidLen \in Nat \ {0} /\ PartLen \in Nat \ {0} /\ NumBuses \in Nat
    /\ Uids = [1 .. UidLen -> UidBytes]
    /\ Nodes \subseteq Uids /\ OwnUid \in Uids \ Nodes /\ OwnId \in NodeIds
    /\ IsFiniteSet(Nodes) /\ BusOf \in [Nodes -> Buses] /\ NewIds \subseteq 0 .. MaxNodeId

VARIABLES
    node,       \* each node: its node ID or 0, and its allocation_unique_id_offset
    given,      \* history: the node ID that each node got from DNA last, or 0
    forgot,     \* history: nodes whose registration was lost with power, cleared, or
                \* replaced by that of the servers
    up,         \* servers that have finished init()
    clear,      \* drivers with the option DNA_CLEAR_DATABASE
    bare,       \* a server is between reset() and init_server()
    rcvd,       \* rcvd_unique_id of each server, up to rcvd_unique_id_offset
    replies,    \* answers in the transmit queue of each server
    trouble     \* history: how often each kind of trouble has happened

netVars  == <<node, given, forgot, rcvd, replies>>
bootVars == <<up, clear, bare>>
dnaVars  == <<dbVars, netVars, bootVars, trouble>>

OnBus(b) == {u \in Nodes : BusOf[u] = b}
\* Nodes that take part in the allocation.
Waiting(b) == {u \in OnBus(b) : node[u].id = 0}

\* The next part of its unique ID that a node sends.
PartOf(u, ofs) == SubSeq(u, ofs + 1, IF ofs + PartLen < UidLen THEN ofs + PartLen ELSE UidLen)

Trouble(kind, n) ==
    /\ trouble.mishaps + trouble.restarts + n <= MaxTrouble
    /\ trouble' = [trouble EXCEPT ![kind] = @ + n]
-----------------------------------------------------------------------------
(* The server                                                              *)

\* Mutant: a first part does not start a new unique ID.
SoFarKeeps(b, first, part, late) ==
    LET old == IF late THEN <<>> ELSE rcvd[b]
        new == old \o part
    IN  IF (~first /\ old = <<>>) \/ Len(new) > UidLen THEN <<>> ELSE new

\* What the server has of a unique ID with the part that comes in: nothing when it
\* ignores the part.
SoFar(b, first, part, late) ==
    LET old == IF first \/ late THEN <<>> ELSE rcvd[b]
        new == old \o part
    IN  IF (~first /\ old = <<>>) \/ Len(new) > UidLen THEN <<>> ELSE new

Answer(b, uid, id) == replies' = [replies EXCEPT ![b] = Append(@, [uid |-> uid, id |-> id])]

handle_allocation_msg(b, first, part, late) ==
    LET uid == SoFar(b, first, part, late) IN
    IF Len(uid) = UidLen
    THEN /\ handle_allocation(uid) /\ rcvd' = [rcvd EXCEPT ![b] = <<>>]
         /\ IF Allocated(uid) = 0 THEN UNCHANGED replies ELSE Answer(b, uid, Allocated(uid))
    ELSE /\ rcvd' = [rcvd EXCEPT ![b] = uid]
         /\ IF uid = <<>> THEN UNCHANGED replies ELSE Answer(b, uid, 0)
         /\ UNCHANGED dbVars
-----------------------------------------------------------------------------
(* The nodes                                                               *)

\* Mutant: a node that is not answered goes on from where it was.
StartAgainNever(S) == node

\* A node goes back to the first part of its unique ID, once it has sent a part and
\* when it hears another ask.
StartAgain(S) == [v \in Nodes |-> IF v \in S THEN [node[v] EXCEPT !.ofs = 0] ELSE node[v]]

\* A first part that comes before the next part of another node.
Interrupts(u) == node[u].ofs = 0 /\ \E v \in Waiting(BusOf[u]) : node[v].ofs # 0

\* can_do_dna(), and what the message does to those who hear it.  It is a mishap when
\* somebody misses it, when the server has given up waiting for it, when the server has
\* not yet sent its last answer, and when it interrupts another node: next parts come at
\* most MAX_FOLLOWUP_DELAY after the last message, and first parts no sooner than
\* MIN_REQUEST_PERIOD, unless the node has missed that message or has only just started.
can_do_dna(u, M, missed, late) ==
    LET b == BusOf[u]   ofs == node[u].ofs IN
    /\ node[u].id = 0 /\ Len(replies[b]) < MaxReplies
    /\ M \subseteq Waiting(b) \ {u}
    /\ missed => b \in up
    /\ late => ~missed /\ ofs # 0 /\ rcvd[b] # <<>>
    /\ Trouble("mishaps", Cardinality(M) + (IF missed \/ late THEN 1 ELSE 0)
                          + (IF replies[b] # <<>> \/ Interrupts(u) THEN 1 ELSE 0))
    /\ node' = StartAgain(Waiting(b) \ M)
    /\ IF b \in up /\ ~missed THEN handle_allocation_msg(b, ofs = 0, PartOf(u, ofs), late)
       ELSE UNCHANGED <<dbVars, rcvd, replies>>
    /\ UNCHANGED <<given, forgot, bootVars>>

\* What a node makes of an answer.
Hears(u, r) ==
    IF SubSeq(u, 1, Len(r.uid)) # r.uid THEN [node[u] EXCEPT !.ofs = 0]
    ELSE IF Len(r.uid) < UidLen THEN [node[u] EXCEPT !.ofs = Len(r.uid)]
    ELSE [node[u] EXCEPT !.id = r.id]

\* handle_allocation_response() in all nodes that hear the answer.
handle_allocation_response(b, M) ==
    LET r == Head(replies[b])
        H == Waiting(b) \ M
        got == {u \in H : Hears(u, r).id # 0}
    IN
    /\ replies[b] # <<>> /\ M \subseteq Waiting(b) /\ Trouble("mishaps", Cardinality(M))
    /\ replies' = [replies EXCEPT ![b] = Tail(@)]
    /\ node' = [u \in Nodes |-> IF u \in H THEN Hears(u, r) ELSE node[u]]
    /\ given' = [u \in Nodes |-> IF u \in got THEN r.id ELSE given[u]]
    /\ forgot' = forgot \ {u \in got : records[r.id] = u}
    /\ UNCHANGED <<dbVars, rcvd, bootVars>>

\* A node with a node ID is asked for its node info again and again.  With it the
\* database may learn what it had forgotten.
NodeInfo(u) ==
    /\ node[u].id # 0 /\ BusOf[u] \in up
    /\ handle_node_info(node[u].id, u)
    /\ forgot' = IF given[u] # 0 /\ records'[given[u]] = u THEN forgot \ {u} ELSE forgot
    /\ UNCHANGED <<node, given, rcvd, replies, bootVars, trouble>>

\* A restart takes longer than an answer waits.  A node that comes back with a node ID
\* of its own is no longer one with a given one.
NodeRestarts(u, id) ==
    /\ replies[BusOf[u]] = <<>> /\ Trouble("restarts", 1)
    /\ node' = [node EXCEPT ![u] = [id |-> id, ofs |-> 0]]
    /\ given' = IF id = 0 THEN given ELSE [given EXCEPT ![u] = 0]
    /\ forgot' = IF id = 0 THEN forgot ELSE forgot \ {u}
    /\ UNCHANGED <<dbVars, rcvd, replies, bootVars>>
-----------------------------------------------------------------------------
(* Start of the autopilot                                                  *)

\* init() of the servers, one after the other, while those that have finished it are
\* running already.  The answers that they have not sent yet are of the old database.
Starts(b) == b \notin up /\ 1 .. b - 1 \subseteq up
Promised(u) == \E k \in 1 .. Len(replies[BusOf[u]]) : replies[BusOf[u]][k].uid = u

ClearDatabase(b) ==
    /\ Starts(b) /\ b \in clear
    /\ reset /\ clear' = clear \ {b} /\ bare' = TRUE
    /\ forgot' = {u \in Nodes : given[u] # 0 \/ Promised(u)}
    /\ UNCHANGED <<node, given, rcvd, replies, up, trouble>>

init(b) ==
    /\ Starts(b) /\ b \notin clear
    /\ init_server(OwnId, OwnUid)
    /\ up' = up \cup {b} /\ bare' = FALSE
    /\ forgot' = forgot \cup {u \in Nodes : records[OwnId] = u}
    /\ UNCHANGED <<node, given, rcvd, replies, clear, trouble>>

Boot == \E b \in Buses : ClearDatabase(b) \/ init(b)

PowerCycle ==
    /\ Restart /\ Trouble("restarts", 1)
    /\ clear' \in SUBSET Buses /\ bare' = FALSE
    /\ up' = {} /\ rcvd' = [b \in Buses |-> <<>>] /\ replies' = [b \in Buses |-> <<>>]
    /\ forgot' = forgot \cup {u \in Nodes : given[u] # 0 /\ saved[given[u]] # u}
    /\ UNCHANGED <<node, given>>

SaveRecord(i) == Save(i) /\ UNCHANGED <<netVars, bootVars, trouble>>
-----------------------------------------------------------------------------
DNAInit ==
    /\ DBInit
    /\ node = [u \in Nodes |-> [id |-> 0, ofs |-> 0]]
    /\ given = [u \in Nodes |-> 0] /\ forgot = {}
    /\ up = {} /\ clear = {} /\ bare = FALSE
    /\ rcvd = [b \in Buses |-> <<>>] /\ replies = [b \in Buses |-> <<>>]
    /\ trouble = [mishaps |-> 0, restarts |-> 0]

DNANext ==
    \/ \E u \in Nodes, missed, late \in BOOLEAN : \E M \in SUBSET Waiting(BusOf[u]) :
          can_do_dna(u, M, missed, late)
    \/ Boot
    \/ \E b \in Buses : \E M \in SUBSET Waiting(b) : handle_allocation_response(b, M)
    \/ \E u \in Nodes : NodeInfo(u) \/ \E id \in NewIds : NodeRestarts(u, id)
    \/ PowerCycle \/ \E i \in NodeIds : SaveRecord(i)

\* The servers start and answer, and on each bus somebody asks when it is quiet.
Asks(b) == \E u \in OnBus(b) : can_do_dna(u, {}, FALSE, FALSE)
DNAFairness ==
    /\ WF_dnaVars(Boot)
    /\ \A b \in Buses : WF_dnaVars(Asks(b)) /\ WF_dnaVars(handle_allocation_response(b, {}))

DNASpec == DNAInit /\ [][DNANext]_dnaVars /\ DNAFairness
-----------------------------------------------------------------------------
(* Properties                                                              *)

\* The database remembers every node ID that a node has got, so that it gets the same
\* again and no other node gets it, and no node gets that of the servers: "we will
\* always remember and re-assign node IDs consistently", unless it was lost.
RemembersNodes ==
    /\ \A u \in Nodes \ forgot : given[u] # 0 => records[given[u]] = u
    /\ up # {} /\ ~bare => records[OwnId] = OwnUid

\* A unique ID put together from the parts of two nodes gets a node ID that nobody
\* uses: that takes a mishap for each.
Strangers == {i \in registered : records[i] \notin Nodes \cup {OwnUid}}
StrangersAreRare == Cardinality(Strangers) <= trouble.mishaps

\* Every node gets a node ID, unless there is none for it (it is not registered, and all
\* node IDs are): nodes that ask at the same time, that have the same first part, or that
\* start again do not keep each other from it.
NoneLeftFor(u) == registered = NodeIds /\ find_node_id(u) = 0
EveryNodeGetsId == []<>(\A u \in Nodes : node[u].id # 0 \/ NoneLeftFor(u))
=============================================================================
