-------------------------- MODULE LogBlocksProofs ---------------------------
(***************************************************************************)
(* Proofs about the life of a block, for any set of blocks, any number of  *)
(* logs, and any loss, repetition and reordering of messages.              *)
(***************************************************************************)
EXTENDS LogBlocks, TLAPS

TypeOK ==
    /\ loc \in [Blocks -> Places] /\ seqno \in [Blocks -> Nat]
    /\ nextSeq \in Nat /\ mixed \in BOOLEAN

\* A block in use has a number that was given out in this log.
NumbersUsed == \A b \in Blocks : loc[b] # "free" => seqno[b] < nextSeq

\* An acknowledgement in flight is of a block that the client has.
AcksTrue == mixed \/ \A s \in Nat : Ack(s) \in toVehicle => s \in got

\* The inductive invariant.
IInv == TypeOK /\ NumbersUsed /\ NumbersDiffer /\ AcksTrue /\ NothingLost

\* Steps that leave every block in use, or free as it was, with its number, and
\* take nothing from what the client has.
LEMMA KeepsBlocks ==
    ASSUME IInv, loc' \in [Blocks -> Places],
           \A b \in Blocks : (loc'[b] = "free") <=> (loc[b] = "free"),
           seqno' = seqno, nextSeq' = nextSeq, mixed' = mixed, got \subseteq got', AcksTrue'
    PROVE  IInv'
<1>1. TypeOK' /\ NumbersUsed' /\ NumbersDiffer'
  BY DEF IInv, TypeOK, NumbersUsed, NumbersDiffer
<1>2. NothingLost'
  BY DEF IInv, NothingLost, Held
<1> QED BY <1>1, <1>2 DEF IInv

\* No acknowledgement appears, and what the client has stays.
LEMMA KeepsAcks ==
    ASSUME AcksTrue, mixed' = mixed, got \subseteq got',
           \A s \in Nat : Ack(s) \in toVehicle' => Ack(s) \in toVehicle
    PROVE  AcksTrue'
BY DEF AcksTrue

\* A free block is given the next number; p is the block that was written to
\* before, if there was one.
LEMMA TakesBlock ==
    ASSUME IInv, NEW c \in Blocks, loc[c] = "free",
           loc' \in [Blocks -> Places], loc'[c] = "current",
           \A b \in Blocks \ {c} : (loc'[b] = "free") <=> (loc[b] = "free"),
           seqno' = [seqno EXCEPT ![c] = nextSeq], nextSeq' = nextSeq + 1,
           UNCHANGED <<toVehicle, got, mixed>>
    PROVE  IInv'
<1>1. /\ seqno'[c] = nextSeq /\ \A b \in Blocks \ {c} : seqno'[b] = seqno[b]
      /\ nextSeq \in Nat /\ \A b \in Blocks : seqno[b] \in Nat
  BY DEF IInv, TypeOK
<1>2. TypeOK' BY DEF IInv, TypeOK
<1>3. NumbersUsed' BY <1>1 DEF IInv, NumbersUsed
<1>4. NumbersDiffer' BY <1>1 DEF IInv, NumbersUsed, NumbersDiffer
<1>5. AcksTrue' BY DEF IInv, AcksTrue
<1>6. NothingLost'
  <2> SUFFICES ASSUME ~mixed, NEW s \in 0 .. nextSeq, s \notin got
               PROVE  \E b \in Blocks : loc'[b] # "free" /\ seqno'[b] = s
    BY <1>1 DEF NothingLost, Held
  <2>1. CASE s = nextSeq BY <2>1, <1>1
  <2>2. CASE s # nextSeq
    <3>1. s \in 0 .. nextSeq - 1 BY <2>2, <1>1
    <3>2. PICK b \in Blocks : loc[b] # "free" /\ seqno[b] = s
      BY <3>1 DEF IInv, NothingLost, Held
    <3> QED BY <3>2, <1>1
  <2> QED BY <2>1, <2>2
<1> QED BY <1>2, <1>3, <1>4, <1>5, <1>6 DEF IInv

\* An acknowledged block may be given up: the client has it.
LEMMA AckStep ==
    ASSUME IInv, NEW b \in Blocks, HandleAck(b)
    PROVE  IInv'
<1>1. /\ loc[b] # "free" /\ Ack(seqno[b]) \in toVehicle /\ toVehicle' \subseteq toVehicle
      /\ loc' = [loc EXCEPT ![b] = "free"] /\ seqno' = seqno /\ nextSeq' = nextSeq
      /\ got' = got /\ mixed' = mixed
  BY DEF HandleAck, Arrives
<1>2. loc' \in [Blocks -> Places] /\ \A c \in Blocks \ {b} : loc'[c] = loc[c]
  BY <1>1 DEF IInv, TypeOK, Places
<1>3. loc'[b] = "free" /\ seqno[b] \in Nat BY <1>1 DEF IInv, TypeOK
<1>4. TypeOK' /\ NumbersUsed' /\ NumbersDiffer'
  BY <1>1, <1>2, <1>3 DEF IInv, TypeOK, NumbersUsed, NumbersDiffer
<1>5. AcksTrue' BY <1>1, KeepsAcks DEF IInv
<1>6. mixed \/ seqno[b] \in got BY <1>1, <1>3 DEF IInv, AcksTrue
<1>7. NothingLost'
  BY <1>1, <1>2, <1>6 DEF IInv, NothingLost, Held
<1> QED BY <1>4, <1>5, <1>7 DEF IInv

\* A new log starts with no block in use, and with an acknowledgement in flight
\* only if it is mixed with the one before.
LEMMA StartStep ==
    ASSUME IInv, HandleStart
    PROVE  IInv'
<1>1. /\ loc' = [b \in Blocks |-> "free"] /\ seqno' \in [Blocks -> Nat] /\ nextSeq' = 0
      /\ mixed' = (toClient # {} \/ \E m \in toVehicle : m.kind = "ack")
      /\ toVehicle' \subseteq toVehicle
  BY DEF HandleStart, Arrives
<1>2. TypeOK' BY <1>1 DEF TypeOK, Places
<1>3. NumbersUsed' /\ NumbersDiffer' BY <1>1 DEF NumbersUsed, NumbersDiffer
<1>4. NothingLost' BY <1>1 DEF NothingLost
<1>5. AcksTrue'
  <2>1. \A s \in Nat : Ack(s).kind = "ack" BY DEF Ack
  <2> QED BY <1>1, <2>1 DEF AcksTrue
<1> QED BY <1>2, <1>3, <1>4, <1>5 DEF IInv

\* Every step preserves the invariant.
LEMMA Inductive == IInv /\ [Next]_blockVars => IInv'
<1> SUFFICES ASSUME IInv, [Next]_blockVars PROVE IInv'
  OBVIOUS
<1>0. loc \in [Blocks -> Places] /\ AcksTrue BY DEF IInv, TypeOK
<1>1. CASE Ignore
  <2>1. AcksTrue' BY <1>0, <1>1, KeepsAcks DEF Ignore
  <2> QED BY <1>0, <1>1, <2>1, KeepsBlocks DEF Ignore
<1>2. CASE Stop
  <2>1. AcksTrue' BY <1>0, <1>2, KeepsAcks DEF Stop
  <2> QED BY <1>0, <1>2, <2>1, KeepsBlocks DEF Stop
<1>3. CASE HandleStart BY <1>3, StartStep
<1>4. ASSUME NEW s \in toClient, Receive(s) PROVE IInv'
  <2>1. AcksTrue'
    <3>1. \A t \in Nat : Ack(t) = Ack(s) => t = s
      <4>1. \A t \in Nat : Ack(t).seq = t BY DEF Ack
      <4>2. Ack(s).seq = s BY DEF Ack
      <4> QED BY <4>1, <4>2
    <3> QED BY <1>0, <1>4, <3>1 DEF Receive, AcksTrue
  <2> QED BY <1>0, <1>4, <2>1, KeepsBlocks DEF Receive
<1>5. ASSUME NEW m \in toVehicle', Request(m) PROVE IInv'
  <2>1. \A s \in Nat : Ack(s) # m BY <1>5 DEF Request, Ack
  <2>2. AcksTrue' BY <1>0, <1>5, <2>1, KeepsAcks DEF Request
  <2> QED BY <1>0, <1>5, <2>2, KeepsBlocks DEF Request
<1>6. ASSUME NEW S \in SUBSET Blocks, Resend(S) PROVE IInv'
  <2>1. AcksTrue' BY <1>0, <1>6, KeepsAcks DEF Resend
  <2> QED BY <1>0, <1>6, <2>1, KeepsBlocks DEF Resend
<1>7. ASSUME NEW S \in SUBSET Blocks, Transmit(S) PROVE IInv'
  <2>1. AcksTrue' BY <1>0, <1>7, KeepsAcks DEF Transmit
  <2>2. loc' \in [Blocks -> Places] BY <1>0, <1>7 DEF Transmit, Places
  <2>3. \A b \in Blocks : (loc'[b] = "free") <=> (loc[b] = "free")
    BY <1>7 DEF Transmit
  <2> QED BY <1>7, <2>1, <2>2, <2>3, KeepsBlocks DEF Transmit
<1>8. ASSUME NEW b \in Blocks, Open(b) PROVE IInv'
  BY <1>0, <1>8, TakesBlock DEF Open, Places
<1>9. ASSUME NEW b \in Blocks, NEW c \in Blocks, Turn(b, c) PROVE IInv'
  <2>1. b # c BY <1>9 DEF Turn
  <2> QED BY <1>0, <1>9, <2>1, TakesBlock DEF Turn, Places
<1>10. ASSUME NEW b \in Blocks, Close(b) PROVE IInv'
  <2>1. AcksTrue' BY <1>0, <1>10, KeepsAcks DEF Close
  <2> QED BY <1>0, <1>10, <2>1, KeepsBlocks DEF Close, Places
<1>11. ASSUME NEW b \in Blocks, HandleNack(b) PROVE IInv'
  <2>1. AcksTrue' BY <1>0, <1>11, KeepsAcks DEF HandleNack, Arrives
  <2> QED BY <1>0, <1>11, <2>1, KeepsBlocks DEF HandleNack, Places
<1>12. CASE UNCHANGED blockVars
  <2>1. AcksTrue' BY <1>0, <1>12, KeepsAcks DEF blockVars
  <2> QED BY <1>0, <1>12, <2>1, KeepsBlocks DEF blockVars
<1> QED
  BY <1>1, <1>2, <1>3, <1>4, <1>5, <1>6, <1>7, <1>8, <1>9, <1>10, <1>11, <1>12, AckStep
  DEF Next

\* The invariant holds in the first state.
LEMMA Initial == Init => IInv
<1> SUFFICES ASSUME Init PROVE IInv
  OBVIOUS
<1>1. TypeOK BY DEF Init, TypeOK, Places
<1>2. NumbersUsed /\ NumbersDiffer BY DEF Init, NumbersUsed, NumbersDiffer
<1>3. AcksTrue BY DEF Init, AcksTrue
<1>4. NothingLost BY DEF Init, NothingLost
<1> QED BY <1>1, <1>2, <1>3, <1>4 DEF IInv

\* Whatever is lost, repeated or reordered on the link, no block of a log is
\* given up before the client has it, unless the log began with blocks or
\* acknowledgements of the log before in flight.
THEOREM NeverLost == Spec => []NothingLost
<1>1. IInv => NothingLost BY DEF IInv
<1> QED BY <1>1, Initial, Inductive, PTL DEF Spec

\* No two blocks in use have the same number, so that dequeue_seqno() finds the
\* block that the client means.
THEOREM NumbersUnique == Spec => []NumbersDiffer
<1>1. IInv => NumbersDiffer BY DEF IInv
<1> QED BY <1>1, Initial, Inductive, PTL DEF Spec
=============================================================================
