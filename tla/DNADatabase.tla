---------------------------- MODULE DNADatabase -----------------------------
(***************************************************************************)
(* AP_DroneCAN_DNA_Server::Database: which unique ID has which node ID.    *)
(*                                                                         *)
(* All DNA servers, one for each CAN driver, share the database.  Each of  *)
(* its methods holds a lock and is one action here.  The records are kept  *)
(* in storage, which becomes durable one by one and in part (HalStorage);  *)
(* a record whose CRC does not match is no registration.  The hash stands  *)
(* for the unique ID: two of them with the same hash are not modelled.     *)
(***************************************************************************)
EXTENDS Naturals

CONSTANTS
    MaxNodeId,  \* MAX_NODE_ID
    TwoLines,   \* node IDs whose records lie across two lines of storage
    Uids,       \* unique IDs
    NoUid,      \* the all-zero record
    TornUid     \* a record with a CRC that does not match

NodeIds == 1 .. MaxNodeId

ASSUME DNAAssumption == MaxNodeId \in Nat \ {0} /\ NoUid \notin Uids /\ TornUid \notin Uids

VARIABLES
    records,    \* the records in storage, as read_record() sees them
    registered, \* node_registered
    saved,      \* what of the records is durable
    revived     \* history: a restart has brought back a record that was deleted or replaced

dbVars == <<records, registered, saved, revived>>
-----------------------------------------------------------------------------
\* The highest node ID that is registered with the unique ID, or 0.
find_node_id(u) ==
    LET S == {i \in registered : records[i] = u}
    IN  IF S = {} THEN 0 ELSE CHOOSE i \in S : \A j \in S : j <= i

\* Mutant: the CRC is not looked at.
check_registration_NoCrc(r) == r # NoUid

check_registration(r) == r \in Uids

create_registration(i, u) ==
    records' = [records EXCEPT ![i] = u] /\ registered' = registered \cup {i}

\* Mutant: the old registration of the unique ID is kept.
register_uid_KeepsOld(i, u) == create_registration(i, u)

\* delete_registration() of the old node ID, then create_registration().
register_uid(i, u) ==
    LET old == find_node_id(u) IN
    /\ records' = [n \in NodeIds |-> IF n = i THEN u ELSE IF n = old THEN NoUid ELSE records[n]]
    /\ registered' = (registered \ {old}) \cup {i}

\* Where handle_allocation() looks for a free node ID: from the top.
Free == NodeIds \ registered

\* Mutant: the highest node ID, free or not.
HighestFree_Top == MaxNodeId

HighestFree == CHOOSE i \in Free : \A j \in Free : j <= i

\* The node ID that handle_allocation() returns.
Allocated(u) ==
    IF find_node_id(u) # 0 THEN find_node_id(u)
    ELSE IF Free = {} THEN 0 ELSE HighestFree
-----------------------------------------------------------------------------
(* The methods                                                             *)

reset ==
    /\ records' = [i \in NodeIds |-> NoUid] /\ registered' = {}
    /\ UNCHANGED <<saved, revived>>

init_server(i, u) ==
    /\ IF find_node_id(u) # i THEN register_uid(i, u) ELSE UNCHANGED <<records, registered>>
    /\ UNCHANGED <<saved, revived>>

\* Mutant: the node takes the node ID it has.
handle_node_info_Takes(i, u) == register_uid(i, u) /\ UNCHANGED <<saved, revived>>

\* A node ID that is registered is left alone: the caller is told of a duplicate if it
\* is registered with another unique ID.
handle_node_info(i, u) ==
    /\ IF i \in registered THEN UNCHANGED <<records, registered>> ELSE register_uid(i, u)
    /\ UNCHANGED <<saved, revived>>

handle_allocation(u) ==
    /\ IF find_node_id(u) = 0 /\ Free # {} THEN create_registration(HighestFree, u)
       ELSE UNCHANGED <<records, registered>>
    /\ UNCHANGED <<saved, revived>>
-----------------------------------------------------------------------------
(* Storage                                                                 *)

\* A record that lies across two lines may be durable in part.
Save(i) ==
    /\ saved[i] # records[i]
    /\ \E r \in {records[i]} \cup IF i \in TwoLines THEN {TornUid} ELSE {} :
          saved' = [saved EXCEPT ![i] = r]
    /\ UNCHANGED <<records, registered, revived>>

\* Power fails, and the autopilot calls init() at its next start.
Restart ==
    /\ records' = saved /\ registered' = {i \in NodeIds : check_registration(saved[i])}
    /\ revived' = (revived \/ \E i \in NodeIds : saved[i] \in Uids /\ records[i] # saved[i])
    /\ UNCHANGED saved
-----------------------------------------------------------------------------
\* A new storage has no magic: init() has called reset().
DBInit ==
    /\ records = [i \in NodeIds |-> NoUid] /\ saved = records
    /\ registered = {} /\ revived = FALSE

DBNext ==
    \/ reset \/ Restart
    \/ \E i \in NodeIds : Save(i)
    \/ \E u \in Uids : handle_allocation(u)
    \/ \E i \in NodeIds, u \in Uids : init_server(i, u) \/ handle_node_info(i, u)

DBSpec == DBInit /\ [][DBNext]_dbVars
-----------------------------------------------------------------------------
(* Properties                                                              *)

\* node_registered agrees with the records: it is read once, at init(), and from then
\* on decides which records find_node_id() looks at.
RegisteredIsStored ==
    /\ registered \subseteq NodeIds
    /\ \A i \in NodeIds : i \in registered <=> records[i] \in Uids

UniqueOnce == \A i, j \in registered : records[i] = records[j] => i = j

\* A unique ID has one node ID: register_uid() deletes the one it had before.  That holds
\* as long as every restart finds the deletions and replacements done that came before
\* it: the two records of a register_uid() become durable in any order.
OneNodeIdEach == ~revived => UniqueOnce

\* handle_allocation() never takes a node ID from the unique ID that has it.
AllocationTakesNone ==
    [][\A u \in Uids : handle_allocation(u) =>
          \A i \in registered : i \in registered' /\ records'[i] = records[i]]_dbVars
-----------------------------------------------------------------------------
(* What comments in the code say, and the code does not do                 *)

\* register_uid() registers a unique ID, "deleting any existing registration for the
\* unique ID": it has one node ID at any time, power failures included.
RegisteredOnce == UniqueOnce
=============================================================================
