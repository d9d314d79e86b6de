----------------------------- MODULE MCStorage ------------------------------
(***************************************************************************)
(* The cache of the HAL, and two that keep what they know in such a cache: *)
(* the parameters, and the database of the DNA servers.  The model is one, *)
(* but they share no state: a behaviour is one of HalStorage, ParamStore   *)
(* or DNAAllocation.  The last two take of the first only what             *)
(* DurableStore says of it.                                                *)
(***************************************************************************)
EXTENDS HalStorage, ParamStore, DNAAllocation

\* Nodes 1 and 2 have the first part of their unique IDs in common, and the bus.
MCUids == [1 .. UidLen -> UidBytes]
MCNodes == {<<0, 0, 0>>, <<0, 1, 1>>, <<1, 0, 1>>}
MCBusOf == [u \in MCNodes |-> 1 + u[1]]
MCOwnUid == <<1, 1, 1>>
MCNoUid == <<>>
MCTornUid == <<0>>

VARIABLE part   \* the module that this behaviour is about

\* Where the lines and the copy start when the behaviour is not about them.
Clear == CHOOSE v \in Values : TRUE

\* Servers that are running, with a bus on which no node asks for a node ID.
QuietBus ==
    /\ records = [i \in NodeIds |-> IF i = OwnId THEN OwnUid ELSE NoUid]
    /\ saved = records /\ registered = {OwnId} /\ revived = FALSE
    /\ node = [u \in Nodes |-> [id |-> MaxNodeId, ofs |-> 0]]
    /\ given = [u \in Nodes |-> 0] /\ forgot = {} /\ up = Buses /\ clear = {} /\ bare = FALSE
    /\ rcvd = [b \in Buses |-> <<>>] /\ replies = [b \in Buses |-> <<>>]
    /\ trouble = [mishaps |-> 0, restarts |-> 0]

mcVars == <<vars, paramVars, dnaVars, part>>

MCInit ==
    /\ part \in {"hal", "params", "dna"} /\ Init /\ ParamInit
    /\ part # "hal" => \A l \in Lines : device[l] = Clear /\ tmpline = Clear
    /\ IF part = "dna" THEN DNAInit ELSE QuietBus

MCNext ==
    \/ part = "hal" /\ Next /\ UNCHANGED <<paramVars, dnaVars, part>>
    \/ part # "hal" /\ StorageOpen /\ UNCHANGED <<paramVars, dnaVars, part>>
    \/ part = "params" /\ opened /\ ParamNext /\ UNCHANGED <<vars, dnaVars, part>>
    \/ part = "dna" /\ opened /\ DNANext /\ UNCHANGED <<vars, paramVars, part>>

\* With the storage open, no parameter changed and a quiet bus, no action with fairness
\* of the other modules is enabled.
MCSpec == MCInit /\ [][MCNext]_mcVars /\ Fairness /\ ParamFairness /\ DNAFairness
=============================================================================
