----------------------------- MODULE MCBuffers ------------------------------
(***************************************************************************)
(* The two buffers between threads, ByteBuffer and the block buffer of     *)
(* LoggerMAVLink, in one model.  They share no state: a behaviour is one   *)
(* of the first or one of the second, so that the states of the two add up *)
(* and do not multiply.                                                    *)
(***************************************************************************)
EXTENDS ByteBuffer, LoggerMAVLink

VARIABLE part   \* the buffer that this behaviour is about

mcVars == <<bufferVars, loggerVars, part>>

MCInit ==
    /\ part \in {"bytes", "blocks"}
    /\ BufferInit /\ LoggerInit
    /\ part = "blocks" => \A c \in Cells : buf[c] = buf[0]

MCNext ==
    \/ part = "bytes" /\ BufferNext /\ UNCHANGED <<loggerVars, part>>
    \/ part = "blocks" /\ LoggerNext /\ UNCHANGED <<bufferVars, part>>

\* No action of the logger that is fair is enabled before a client starts a log:
\* LoggerFairness asks nothing of a behaviour of the other buffer.
MCSpec == MCInit /\ [][MCNext]_mcVars /\ LoggerFairness
=============================================================================
