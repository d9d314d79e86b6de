---------------------------- MODULE DurableStore ----------------------------
(***************************************************************************)
(* What the storage promises to its callers: contents that can be changed  *)
(* at once, a durable copy that follows them, and a set of clean lines     *)
(* whose durable copy is up to date.  After a power failure the contents   *)
(* are the durable copy.                                                   *)
(***************************************************************************)
CONSTANTS Lines, Contents

VARIABLES
    contents,   \* what a reader sees
    durable,    \* what survives a power failure
    clean,      \* lines that need not be written out
    recent      \* values of each line since it was last clean

storeVars == <<contents, durable, clean, recent>>

Init ==
    /\ contents \in [Lines -> Contents] /\ durable = contents
    /\ clean = Lines /\ recent = [l \in Lines |-> {contents[l]}]

\* A line gets a new value.
Change(l, v) ==
    /\ contents' = [contents EXCEPT ![l] = v]
    /\ recent' = [recent EXCEPT ![l] = @ \cup {v}]
    /\ clean' = clean \ {l}
    /\ UNCHANGED durable

\* The durable copy of a line takes a value the line has, or had while dirty.
Persist(l) ==
    /\ l \notin clean
    /\ \E v \in recent[l] : durable' = [durable EXCEPT ![l] = v]
    /\ UNCHANGED <<contents, clean, recent>>

\* A line is only declared clean when its durable copy is up to date.
Settle(l) ==
    /\ l \notin clean /\ durable[l] = contents[l]
    /\ clean' = clean \cup {l}
    /\ recent' = [recent EXCEPT ![l] = {contents[l]}]
    /\ UNCHANGED <<contents, durable>>

PowerFailure ==
    /\ contents' = durable /\ clean' = Lines
    /\ recent' = [l \in Lines |-> {durable[l]}]
    /\ UNCHANGED durable

Next ==
    \/ \E l \in Lines : Persist(l) \/ Settle(l) \/ \E v \in Contents : Change(l, v)
    \/ PowerFailure

Spec == Init /\ [][Next]_storeVars
=============================================================================
