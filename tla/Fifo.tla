-------------------------------- MODULE Fifo --------------------------------
(***************************************************************************)
(* What a ring buffer promises: a queue of bytes.  Bytes are appended at   *)
(* the back and dropped at the front, or all discarded.                    *)
(***************************************************************************)
EXTENDS Integers, Sequences

CONSTANT Capacity

VARIABLE q

Init == q = <<>>

\* The queue grows at the back, up to its capacity.
Push ==
    /\ Len(q') >= Len(q) /\ Len(q') <= Capacity
    /\ SubSeq(q', 1, Len(q)) = q

Drop(n) == q' = SubSeq(q, n + 1, Len(q))

Discard == q' = <<>>

Next == Push \/ Discard \/ \E n \in 1 .. Len(q) : Drop(n)

Spec == Init /\ [][Next]_q
=============================================================================
