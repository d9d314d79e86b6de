------------------------ MODULE LoggerMAVLinkProofs -------------------------
(***************************************************************************)
(* Proofs about AP_Logger_MAVLink, for any number of blocks, any size of a *)
(* block and any log messages that fit: the lists are sound, a write that  *)
(* found room finds the blocks it needs, and the lists implement the life  *)
(* of a block that LogBlocks describes.                                    *)
(*                                                                         *)
(* Each action is related to what it does to the lists, and that to a step *)
(* of LogBlocks.                                                           *)
(***************************************************************************)
EXTENDS LoggerMAVLink, LoggerListsProofs

\* A leaf is proved by Zenon unless it names SMT, which does the arithmetic.
USE Zenon

\* Places, now and after a step, is read off the lists and the current block.
LEMMA PlacesAre == Places = PlacesOf(links, current) /\ Places' = PlacesOf(links', current')
BY DEF Places, PlacesOf, Members

\* Lists that are laid out so are sound.
LEMMA LayoutSound ==
    ASSUME NEW W, Layout(links, Loose(current), W)
    PROVE  ListsSound
<1> DEFINE C == IF current = Nil THEN <<>> ELSE <<current>>
<1>1. /\ \A q \in Queues : ListOf(links, q) = W[q]
      /\ FreeStack(links) = W["free"]
  BY ListIs
<1>2. "pending" \in Lists /\ "sent" \in Lists /\ "retry" \in Lists /\ "free" \in Lists
      /\ Lists = {"pending", "sent", "retry", "free"} /\ Queues = {"pending", "sent", "retry"}
  BY DEF Lists, Queues
<1>p. PICK p : p = W["pending"] OBVIOUS
<1>s. PICK s : s = W["sent"] OBVIOUS
<1>r. PICK r : r = W["retry"] OBVIOUS
<1>f. PICK f : f = W["free"] OBVIOUS
<1>c. PICK c : c = C OBVIOUS
<1>3. /\ p \in Seq(Blocks) /\ s \in Seq(Blocks) /\ r \in Seq(Blocks) /\ f \in Seq(Blocks)
      /\ Distinct(p) /\ Distinct(s) /\ Distinct(r) /\ Distinct(f)
  BY <1>2, <1>p, <1>s, <1>r, <1>f, OfLayout, SMT
<1>4. c \in Seq(Blocks) /\ Distinct(c) /\ Rng(c) = Loose(current)
  <2>1. CASE current = Nil
    <3>1. c = <<>>
      BY <1>c, <2>1
    <3>2. <<>> \in Seq(Blocks) /\ Len(<<>>) = 0
      BY SMT
    <3>3. 1 .. Len(<<>>) = {}
      BY <3>2, SMT
    <3> QED BY <2>1, <3>1, <3>2, <3>3 DEF Rng, Distinct, Loose
  <2>2. CASE current # Nil
    <3>1. c = <<current>> /\ Loose(current) = {current} /\ current \in Blocks
      BY <1>c, <2>2 DEF Layout, Loose
    <3>2. c \in Seq(Blocks) /\ Len(c) = 1 /\ c[1] = current
      BY <3>1, SMT
    <3>3. 1 .. Len(c) = {1}
      BY <3>2, SMT
    <3> QED BY <3>1, <3>2, <3>3 DEF Rng, Distinct
  <2> QED BY <2>1, <2>2
<1>5. /\ Rng(p) \cap Rng(s) = {} /\ Rng(p) \cap Rng(r) = {} /\ Rng(p) \cap Rng(f) = {}
      /\ Rng(s) \cap Rng(r) = {} /\ Rng(s) \cap Rng(f) = {} /\ Rng(r) \cap Rng(f) = {}
  BY <1>2, <1>p, <1>s, <1>r, <1>f DEF Layout, Apart
<1>6. /\ Rng(p) \cap Rng(c) = {} /\ Rng(s) \cap Rng(c) = {} /\ Rng(r) \cap Rng(c) = {}
      /\ Rng(f) \cap Rng(c) = {}
  BY <1>2, <1>4, <1>p, <1>s, <1>r, <1>f, SMT DEF Layout, Apart
<1>7. Blocks \subseteq Rng(p) \cup Rng(s) \cup Rng(r) \cup Rng(f) \cup Rng(c)
  BY <1>2, <1>4, <1>p, <1>s, <1>r, <1>f, SMT DEF Layout, Apart
<1>8. PICK a : a = p \o s \o r \o f \o c OBVIOUS
<1>9. a \in Seq(Blocks) /\ Distinct(a) /\ Rng(a) = Blocks
  <2>1. PICK a1 : a1 = p \o s OBVIOUS
  <2>2. a1 \in Seq(Blocks) /\ Distinct(a1) /\ Rng(a1) = Rng(p) \cup Rng(s)
    BY <2>1, <1>3, <1>5, Concat
  <2>3. PICK a2 : a2 = a1 \o r OBVIOUS
  <2>4. a2 \in Seq(Blocks) /\ Distinct(a2) /\ Rng(a2) = Rng(a1) \cup Rng(r)
    <3>1. Rng(a1) \cap Rng(r) = {}
      BY <2>2, <1>5
    <3> QED BY <2>2, <2>3, <3>1, <1>3, Concat
  <2>5. PICK a3 : a3 = a2 \o f OBVIOUS
  <2>6. a3 \in Seq(Blocks) /\ Distinct(a3) /\ Rng(a3) = Rng(a2) \cup Rng(f)
    <3>1. Rng(a2) \cap Rng(f) = {}
      BY <2>2, <2>4, <1>5
    <3> QED BY <2>4, <2>5, <3>1, <1>3, Concat
  <2>7. a = a3 \o c
    BY <1>8, <2>1, <2>3, <2>5
  <2>8. a \in Seq(Blocks) /\ Distinct(a) /\ Rng(a) = Rng(a3) \cup Rng(c)
    <3>1. Rng(a3) \cap Rng(c) = {}
      BY <2>2, <2>4, <2>6, <1>6
    <3> QED BY <2>6, <2>7, <3>1, <1>4, Concat
  <2>9. Rng(a) \subseteq Blocks
    BY <2>8, RngInBlocks
  <2> QED BY <2>2, <2>4, <2>6, <2>8, <2>9, <1>7
<1>10. Len(a) = BlockCount
  <2>0. BlockCount \in Nat \ {0}
    BY LoggerAssumption, BlockCountAssumption
  <2>1. BlockCount \in Nat /\ IsFiniteSet(Blocks) /\ Cardinality(Blocks) = BlockCount
    BY <2>0, FS_Interval, SMT DEF Blocks
  <2>2. Len(a) \in Nat
    BY <1>9, SMT
  <2>3. IsFiniteSet(1 .. Len(a)) /\ Cardinality(1 .. Len(a)) = Len(a)
    BY <2>2, FS_Interval, SMTT(20)
  <2>4. a \in Injection(1 .. Len(a), Blocks) /\ a \in Surjection(1 .. Len(a), Blocks)
    BY <1>9, SMT DEF Rng, Distinct, Injection, IsInjective, Surjection
  <2> QED BY <2>1, <2>2, <2>3, <2>4, FS_Injection
<1>11. links.count = Len(f)
  BY <1>f DEF Layout
<1>12. ASSUME NEW q \in Queues
       PROVE  links.queue[q].youngest = IF W[q] = <<>> THEN Nil ELSE W[q][Len(W[q])]
  BY DEF Layout, Final
<1>13. {a[i] : i \in 1 .. Len(a)} = Blocks
  BY <1>9 DEF Rng
<1>w. PICK w : w = [q \in Queues |-> ListOf(links, q)]
  OBVIOUS
<1>14. \A q \in Queues : w[q] = W[q]
  BY <1>w, <1>1
<1>15. w["pending"] = p /\ w["sent"] = s /\ w["retry"] = r
  BY <1>14, <1>2, <1>p, <1>s, <1>r
<1>16. w["pending"] \o w["sent"] \o w["retry"] \o FreeStack(links) \o C = a
  BY <1>15, <1>8, <1>1, <1>f, <1>c
<1> HIDE DEF C
<1> DEFINE V == [q \in Queues |-> ListOf(links, q)]
           F == FreeStack(links)
           A == V["pending"] \o V["sent"] \o V["retry"] \o F \o C
<1>17. A = a /\ V = w
  BY <1>w, <1>16
<1>18. links.count = Len(F)
  BY <1>1, <1>11, <1>f
<1>19. \A q \in Queues :
           links.queue[q].youngest = IF V[q] = <<>> THEN Nil ELSE V[q][Len(V[q])]
  <2> HIDE DEF V
  <2> QED BY <1>12, <1>14, <1>17
<1>20. Len(A) = BlockCount /\ {A[i] : i \in 1 .. Len(A)} = Blocks
  <2> HIDE DEF A
  <2> QED BY <1>10, <1>13, <1>17
<1> QED BY ONLY <1>18, <1>19, <1>20, Zenon DEF ListsSound, C
-----------------------------------------------------------------------------
\* The types of the variables that the invariant is about.
LoggerTypes ==
    /\ seqno \in [Blocks -> Nat] /\ nextSeq \in Nat /\ blockLen \in 0 .. BlockLen
    /\ current \in Ends /\ sem \in {"free", "writer"}
    /\ writer \in [pc : {"idle", "ready", "copy"}, left : Nat]

\* As free_all_blocks() leaves the lists.
AllFree == links.count = BlockCount /\ \A q \in Queues : links.queue[q].oldest = Nil

\* Bytes that can be written before a block has to be freed.
Room == links.count * BlockLen + IF current = Nil THEN 0 ELSE BlockLen - blockLen

\* A write that holds the semaphore fits into the room there is. Without a current
\* block _latest_block_len is that of a full one, or all blocks are free.
WriteFits ==
    /\ current # Nil => blockLen < BlockLen
    /\ current = Nil => blockLen = BlockLen \/ (blockLen = 0 /\ AllFree)
    /\ writer.pc = "copy" <=> sem = "writer"
    /\ writer.pc # "idle" => writer.left \in 1 .. BlockCount * BlockLen
    /\ writer.pc = "copy" => writer.left <= Room

\* The lists are laid out.
Linear == \E W : Layout(links, Loose(current), W)

\* The inductive invariant.
LInv == LoggerTypes /\ Linear /\ WriteFits /\ SpaceIsReal

\* Init() lays the lists out, all blocks free.
LEMMA Initially == LoggerInit => LInv /\ Abstract!Init
<1> SUFFICES ASSUME LoggerInit PROVE LInv /\ Abstract!Init
  OBVIOUS
<1>0. /\ BlockCount \in Nat \ {0} /\ BlockLen \in Nat \ {0} /\ MaxSeq \in Nat
  BY LoggerAssumption, BlockCountAssumption
<1>1. LoggerTypes
  BY <1>0, SMT DEF LoggerInit, LoggerTypes, NoWrite, Nil, Ends, Junk
<1>2. PICK W : Layout(free_all_blocks, {}, W) /\ \A b \in Blocks : b \in Rng(W["free"])
  BY FreeAllLayout
<1>3. Loose(current) = {} /\ links = free_all_blocks /\ current = Nil
  BY DEF Loose, LoggerInit
<1>4. Linear
  BY <1>2, <1>3 DEF Linear
<1>5. AllFree
  BY <1>3 DEF AllFree, free_all_blocks, Empty
<1>6. WriteFits
  BY <1>0, <1>3, <1>5 DEF WriteFits, LoggerInit, NoWrite
<1>7. SpaceIsReal
  BY DEF LoggerInit, SpaceIsReal
<1>8. Places = [b \in Blocks |-> "free"]
  <2>1. "free" \in Lists
    BY DEF Lists
  <2>2. Layout(links, Loose(current), W)
    BY <1>2, <1>3
  <2> QED BY <2>1, <2>2, <1>2, PlacesAre, PlacesAt, SMT
<1>9. Abstract!Init
  BY <1>8, <1>1 DEF Abstract!Init, LoggerInit, LoggerTypes
<1> QED BY <1>1, <1>4, <1>6, <1>7, <1>9 DEF LInv

\* A step that moves no block and writes nothing keeps the invariant.
LEMMA Still ==
    ASSUME LInv, links' = links, current' = current, seqno' = seqno, nextSeq' = nextSeq,
           blockLen' = blockLen, sem' = sem, writer' = writer, errors' = errors
    PROVE  LInv' /\ Places' = Places
<1>1. Places' = Places
  BY PlacesAre
<1>2. LoggerTypes' /\ Linear' /\ WriteFits' /\ SpaceIsReal'
  BY DEF LInv, LoggerTypes, Linear, WriteFits, SpaceIsReal, Room, AllFree
<1> QED BY <1>1, <1>2 DEF LInv

\* What every step is shown to do.
Simulates == LInv' /\ [Abstract!Next]_(Abstract!blockVars)

\* Steps of the writing thread that take no block.
LEMMA WriterStep ==
    ASSUME LInv, UNCHANGED <<blocks, sending, radio>>, errors' = errors,
           sem' \in {"free", "writer"}, writer' \in [pc : {"idle", "ready", "copy"}, left : Nat],
           writer'.pc = "copy" <=> sem' = "writer",
           writer'.pc # "idle" => writer'.left \in 1 .. BlockCount * BlockLen,
           writer'.pc = "copy" => writer'.left <= Room
    PROVE  Simulates
<1>1. /\ links' = links /\ current' = current /\ seqno' = seqno /\ nextSeq' = nextSeq
      /\ blockLen' = blockLen
  BY DEF blocks
<1>2. Places' = Places
  BY <1>1, PlacesAre
<1>3. LoggerTypes' /\ Linear' /\ SpaceIsReal'
  BY <1>1 DEF LInv, LoggerTypes, Linear, SpaceIsReal
<1>4. Room' = Room /\ (AllFree' <=> AllFree)
  BY <1>1 DEF Room, AllFree
<1>5. WriteFits'
  BY <1>1, <1>4 DEF LInv, WriteFits
<1>6. UNCHANGED (Abstract!blockVars)
  BY <1>1, <1>2 DEF radio, Abstract!blockVars
<1> QED BY <1>3, <1>5, <1>6 DEF Simulates, LInv

\* WritesOK() changes nothing but the writer.
LEMMA WritesOKStep == ASSUME LInv, NEW n \in Sizes, WritesOK(n) PROVE Simulates
<1>1. n \in 1 .. BlockCount * BlockLen /\ n \in Nat
  BY LoggerAssumption, BlockCountAssumption, SMT
<1>2. writer' = [pc |-> "ready", left |-> n] /\ writer.pc = "idle" /\ sem' = sem
  BY DEF WritesOK
<1>3. sem \in {"free", "writer"} /\ sem # "writer"
  BY <1>2 DEF LInv, LoggerTypes, WriteFits
<1> QED BY <1>1, <1>2, <1>3, WriterStep, SMT DEF WritesOK

\* Nor does a write that is dropped.
LEMMA DropWriteStep == ASSUME LInv, DropWrite PROVE Simulates
<1>1. writer' = [pc |-> "idle", left |-> 0] /\ writer.pc = "ready" /\ sem' = sem
  BY DEF DropWrite, NoWrite
<1>2. sem \in {"free", "writer"} /\ sem # "writer"
  BY <1>1 DEF LInv, LoggerTypes, WriteFits
<1> QED BY <1>1, <1>2, WriterStep, SMT DEF DropWrite

\* bufferspace_available() counts a current block that is not there, but only when all
\* blocks are free: what it promises, there is.
LEMMA StartWriteStep == ASSUME LInv, StartWrite PROVE Simulates
<1>0. BlockCount \in Nat \ {0} /\ BlockLen \in Nat \ {0}
  BY LoggerAssumption, BlockCountAssumption
<1>1. /\ writer.pc = "ready" /\ writer \in [pc : {"idle", "ready", "copy"}, left : Nat]
      /\ writer' = [writer EXCEPT !.pc = "copy"] /\ sem' = "writer"
      /\ links.count * BlockLen + (BlockLen - blockLen) >= writer.left
  BY DEF StartWrite, LInv, LoggerTypes, bufferspace_available
<1>2. writer' = [pc |-> "copy", left |-> writer.left] /\ writer.left \in Nat
  BY <1>1
<1>3. writer.left \in 1 .. BlockCount * BlockLen
  BY <1>1 DEF LInv, WriteFits
<1>4. blockLen \in Nat /\ links.count \in Nat
  BY <1>0, SMT DEF LInv, LoggerTypes, Linear, Layout, Links
<1>5. PICK m \in Nat : m = links.count * BlockLen
  BY <1>0, <1>4, SMT
<1>6. writer.left <= Room
  <2>1. CASE current # Nil
    BY <2>1, <1>0, <1>1, <1>2, <1>4, <1>5 DEF Room
  <2>2. CASE current = Nil /\ blockLen = BlockLen
    BY <2>2, <1>0, <1>1, <1>2, <1>4, <1>5, SMT DEF Room
  <2>3. CASE current = Nil /\ AllFree
    <3>1. Room = BlockCount * BlockLen
      <4>1. Room = m + 0 /\ m = BlockCount * BlockLen
        BY <2>3, <1>5 DEF Room, AllFree
      <4> QED BY <1>5, <4>1, SMT
    <3> QED BY <1>3, <3>1, SMT
  <2> QED BY <2>1, <2>2, <2>3 DEF LInv, WriteFits
<1> QED BY <1>1, <1>2, <1>3, <1>6, WriterStep DEF StartWrite

\* Steps that touch neither the lists nor the writing thread.
LEMMA OutsideStep ==
    ASSUME LInv, UNCHANGED <<links, seqno, current, blockLen, nextSeq, sem, writer, errors>>,
           Places' = Places => [Abstract!Next]_(Abstract!blockVars)
    PROVE  Simulates
BY Still DEF Simulates

\* Time passes.
LEMMA TickStep == ASSUME LInv, Tick PROVE Simulates
<1>1. UNCHANGED <<links, seqno, current, blockLen, nextSeq, sem, writer, errors>>
  BY DEF Tick
<1>2. Places' = Places => UNCHANGED (Abstract!blockVars)
  BY DEF Tick, radio, Abstract!blockVars
<1> QED BY <1>1, <1>2, OutsideStep

\* A log that times out is a log that stops.
LEMMA TimeoutStep == ASSUME LInv, periodic_1Hz PROVE Simulates
<1>1. UNCHANGED <<links, seqno, current, blockLen, nextSeq, sem, writer, errors>>
  BY DEF periodic_1Hz, blocks
<1>2. Places' = Places => Abstract!Stop
  BY DEF periodic_1Hz, blocks, radio, Abstract!Stop
<1> QED BY <1>1, <1>2, OutsideStep DEF Abstract!Next

\* stop_logging() leaves every block where it is.
LEMMA StopStep == ASSUME LInv, stop_logging PROVE Simulates
<1>1. UNCHANGED <<links, seqno, current, blockLen, nextSeq, sem, writer, errors>>
  BY DEF stop_logging, blocks
<1>2. Places' = Places => Abstract!Stop
  BY DEF stop_logging, blocks, radio, Abstract!Stop, Handled, Arrives
<1> QED BY <1>1, <1>2, OutsideStep DEF Abstract!Next

\* A lost message is an ignored one.
LEMMA LostStep == ASSUME LInv, Lost PROVE Simulates
<1>1. UNCHANGED <<links, seqno, current, blockLen, nextSeq, sem, writer, errors>>
  BY DEF Lost, blocks
<1>2. Places' = Places => Abstract!Ignore
  BY DEF Lost, blocks, Abstract!Ignore
<1> QED BY <1>1, <1>2, OutsideStep DEF Abstract!Next

\* So is one that says nothing new.
LEMMA UselessStep == ASSUME LInv, NEW m, Useless(m) PROVE Simulates
<1>1. UNCHANGED <<links, seqno, current, blockLen, nextSeq, sem, writer, errors>>
  BY DEF Useless, blocks
<1>2. Places' = Places => Abstract!Ignore
  BY DEF Useless, blocks, Abstract!Ignore, Handled, Arrives
<1> QED BY <1>1, <1>2, OutsideStep DEF Abstract!Next

\* The client receives a block.
LEMMA ReceiveStep == ASSUME LInv, NEW s, ReceiveBlock(s) PROVE Simulates
<1>1. UNCHANGED <<links, seqno, current, blockLen, nextSeq, sem, writer, errors>>
  BY DEF ReceiveBlock, vehicle, blocks
<1>2. Places' = Places => s \in toClient /\ Abstract!Receive(s)
  BY DEF ReceiveBlock, vehicle, blocks, Say, Arrives, Abstract!Receive, Abstract!Arrives
<1> QED BY <1>1, <1>2, OutsideStep DEF Abstract!Next

\* The client asks for a block.
LEMMA AskStep == ASSUME LInv, NEW s, AskAgain(s) PROVE Simulates
<1>1. UNCHANGED <<links, seqno, current, blockLen, nextSeq, sem, writer, errors>>
  BY DEF AskAgain, vehicle, blocks
<1>2. Abstract!Nack(s).kind # "ack" /\ Abstract!Nack(s) \in toVehicle'
  BY DEF AskAgain, Say, Abstract!Nack
<1>3. Places' = Places => Abstract!Request(Abstract!Nack(s))
  BY <1>2 DEF AskAgain, vehicle, blocks, Say, Abstract!Request
<1> QED BY <1>1, <1>2, <1>3, OutsideStep DEF Abstract!Next

\* The client starts or stops the log.
LEMMA StartOrStopStep == ASSUME LInv, StartOrStop PROVE Simulates
<1>1. UNCHANGED <<links, seqno, current, blockLen, nextSeq, sem, writer, errors>>
  BY DEF StartOrStop, vehicle, blocks
<1>2. PICK m \in {Abstract!StartLog, Abstract!StopLog} : Say(m)
  BY DEF StartOrStop
<1>3. m.kind # "ack" /\ m \in toVehicle'
  BY <1>2, SMT DEF Say, Abstract!StartLog, Abstract!StopLog
<1>4. Places' = Places => Abstract!Request(m)
  BY <1>2, <1>3 DEF StartOrStop, vehicle, blocks, Say, Abstract!Request
<1> QED BY <1>1, <1>3, <1>4, OutsideStep DEF Abstract!Next

\* do_resends() sends blocks of the sent queue, which stay there.
LEMMA ResendStep == ASSUME LInv, do_resends PROVE Simulates
<1>1. UNCHANGED <<links, seqno, current, blockLen, nextSeq, sem, writer, errors>>
  BY DEF do_resends
<1>2. PICK n \in 1 .. Len(ListOf(links, "sent")) : Sent({seqno[b] : b \in DueBlocks(n)})
  BY DEF do_resends
<1>3. PICK W : Layout(links, Loose(current), W)
  BY DEF LInv, Linear
<1>4. "sent" \in Lists /\ "sent" \in Queues
  BY DEF Lists, Queues
<1>5. ListOf(links, "sent") = W["sent"] /\ W["sent"] \in Seq(Blocks)
  BY <1>3, <1>4, ListIs DEF Layout
<1>6. DueBlocks(n) \subseteq Rng(W["sent"])
  BY <1>2, <1>5, SMT DEF DueBlocks, Oldest, Rng
<1>7. DueBlocks(n) \in SUBSET Blocks /\ \A b \in DueBlocks(n) : Places[b] = "sent"
  BY <1>3, <1>4, <1>5, <1>6, RngInBlocks, PlacesAre, PlacesAt, SMT
<1>8. Places' = Places => Abstract!Resend(DueBlocks(n))
  BY <1>2, <1>7 DEF do_resends, Sent, Abstract!Resend
<1> QED BY <1>1, <1>7, <1>8, OutsideStep DEF Abstract!Next

\* There is a free block, unless _blockcount_free is 0.
LEMMA FreeCounted ==
    ASSUME NEW L, NEW C, NEW W, Layout(L, C, W)
    PROVE  /\ L.count \in Nat /\ (L.free = Nil <=> L.count = 0)
           /\ L.free = Nil => Rng(W["free"]) = {}
<1>0. "free" \in Lists /\ Nil \notin Blocks
  BY SMT DEF Lists, Nil, Blocks
<1>w. PICK w : w = W["free"]
  OBVIOUS
<1>1. /\ w \in Seq(Blocks) /\ Len(w) \in Nat /\ (w = <<>> <=> Len(w) = 0)
      /\ Linked(L.next, L.free, w)
  BY <1>0, <1>w, OfLayout, SMT DEF First
<1>2. L.count = Len(w)
  BY <1>w DEF Layout
<1>3. L.free = IF w = <<>> THEN Nil ELSE w[1]
  BY <1>1 DEF Linked
<1>4. Len(w) # 0 => w[1] \in Blocks
  BY <1>1, SMT
<1>5. L.free = Nil <=> w = <<>>
  BY <1>0, <1>1, <1>3, <1>4
<1>6. w = <<>> => Rng(w) = {}
  BY <1>1, RngInBlocks
<1> QED BY <1>w, <1>1, <1>2, <1>5, <1>6

\* A writer that needs a block finds one, and it has the room that was promised.
LEMMA NeedBlockStep == ASSUME LInv, NeedBlock PROVE Simulates
<1>0. BlockCount \in Nat \ {0} /\ BlockLen \in Nat \ {0} /\ Nil \notin Blocks
  BY LoggerAssumption, BlockCountAssumption, SMT DEF Nil, Blocks
<1>1. PICK W : Layout(links, Loose(current), W)
  BY DEF LInv, Linear
<1>2. current = Nil /\ Loose(current) = {} /\ writer.pc = "copy" /\ sem = "writer"
  BY DEF NeedBlock, Loose, LInv, WriteFits
<1>c. PICK c \in Nat : c = links.count /\ (links.free = Nil <=> c = 0)
  BY <1>1, FreeCounted
<1>3. writer.left \in 1 .. BlockCount * BlockLen /\ writer.left <= c * BlockLen + 0
  BY <1>c, <1>2 DEF LInv, WriteFits, Room
<1>4. links.free # Nil
  <2>1. CASE c = 0
    <3>1. c * BlockLen = 0
      BY <2>1, <1>0, SMT
    <3> QED BY <3>1, <1>3, SMT
  <2> QED BY <2>1, <1>c
<1>b. PICK b : b = links.free
  OBVIOUS
<1>v. PICK V : V = [W EXCEPT !["free"] = Cut(W["free"], 1)]
  OBVIOUS
<1>5. /\ b \in Blocks /\ b \in Rng(W["free"])
      /\ Layout(PopFree(links), Loose(current) \cup {b}, V)
      /\ Rng(Cut(W["free"], 1)) = Rng(W["free"]) \ {b}
  BY <1>1, <1>4, <1>b, <1>v, PopLayout
<1>6. /\ current' = b /\ links' = PopFree(links) /\ blockLen' = 0
      /\ seqno' = [seqno EXCEPT ![b] = nextSeq] /\ nextSeq' = nextSeq + 1
      /\ UNCHANGED <<sending, radio, errors, sem, writer>>
  BY <1>4, <1>b DEF NeedBlock, next_block
<1>7. Loose(current') = Loose(current) \cup {b}
  BY <1>0, <1>2, <1>5, <1>6 DEF Loose
<1>8. Layout(links', Loose(current'), V)
  BY <1>5, <1>6, <1>7
<1>9. Linear'
  BY <1>8 DEF Linear
<1>10. LoggerTypes'
  BY <1>0, <1>5, <1>6, SMT DEF LInv, LoggerTypes, Ends
<1>11. links'.count = c - 1
  <2>1. links \in Links
    BY <1>1 DEF Layout
  <2> QED BY <2>1, <1>6, <1>c, PopFreeIs, SMT
<1>12. Room' = c * BlockLen
  <2>1. Room' = (c - 1) * BlockLen + (BlockLen - 0)
    BY <1>0, <1>5, <1>6, <1>11 DEF Room
  <2>2. \A x, l \in Int : (x - 1) * l + (l - 0) = x * l
    BY SMT
  <2> QED BY <1>0, <2>1, <2>2, SMT
<1>13. WriteFits'
  <2>1. c * BlockLen + 0 = c * BlockLen
    BY <1>0, SMT
  <2> QED BY <2>1, <1>0, <1>2, <1>3, <1>5, <1>6, <1>12, SMT DEF WriteFits
<1>14. SpaceIsReal'
  BY <1>6 DEF LInv, SpaceIsReal
<1>15. Abstract!Open(b)
  <2>1. W \in [Lists -> Seq(Blocks)] /\ "free" \in Lists
    BY <1>1 DEF Layout, Lists
  <2>2. /\ Places \in [Blocks -> {"free", "current", "pending", "sent", "retry"}]
        /\ \A x \in Blocks : Places[x] = "current" <=> x = current
        /\ \A x \in Blocks : \A q \in Lists : Places[x] = q <=> x \in Rng(W[q])
    BY <1>1, PlacesAre, PlacesAt, SMT
  <2>3. /\ Places' \in [Blocks -> {"free", "current", "pending", "sent", "retry"}]
        /\ \A x \in Blocks : Places'[x] = "current" <=> x = b
        /\ \A x \in Blocks : \A q \in Lists : Places'[x] = q <=> x \in Rng(V[q])
    BY <1>6, <1>8, PlacesAre, PlacesAt, SMT
  <2>4. \A q \in Lists : Rng(V[q]) = Rng(W[q]) \/ q = "free"
    BY <2>1, <1>v
  <2>5. Rng(V["free"]) = Rng(W["free"]) \ {b}
    BY <2>1, <1>v, <1>5
  <2>6. ASSUME NEW x \in Blocks PROVE Places'[x] = IF x = b THEN "current" ELSE Places[x]
    <3>1. CASE x = b
      BY <3>1, <2>3
    <3>2. CASE x # b
      <4>1. Places[x] \in Lists /\ Places[x] # "current"
        BY <2>2, <1>0, <1>2 DEF Lists, Queues
      <4>2. x \in Rng(V[Places[x]])
        BY <4>1, <2>2, <2>4, <2>5, <3>2
      <4> QED BY <4>1, <4>2, <2>3, <3>2
    <3> QED BY <3>1, <3>2
  <2>7. Places' = [Places EXCEPT ![b] = "current"]
    BY <2>2, <2>3, <2>6, SMT
  <2>8. Places[b] = "free" /\ \A x \in Blocks : Places[x] # "current"
    BY <2>1, <2>2, <1>0, <1>2, <1>5, SMT
  <2> QED BY <2>7, <2>8, <1>6 DEF Abstract!Open, radio
<1> QED BY <1>5, <1>9, <1>10, <1>13, <1>14, <1>15 DEF Simulates, LInv, Abstract!Next

\* How much a memcpy() copies, and what is left to be copied.
LEMMA CopyFits ==
    ASSUME NEW c \in Nat, NEW l \in Nat \ {0}, NEW k \in 0 .. l, k < l, NEW x \in Nat \ {0},
           x <= c * l + (l - k), NEW n, n = IF x > l - k THEN l - k ELSE x
    PROVE  /\ n \in 1 .. l - k /\ k + n <= l
           /\ k + n # l => x = n
           /\ c = 0 => x = n
           /\ x # n => x - n >= 1 /\ x - n <= c * l
<1>1. PICK m \in Nat : m = c * l
  BY SMT
<1>2. c = 0 => m = 0
  BY <1>1, SMT
<1> QED BY <1>1, <1>2, SMT

\* A memcpy() that does not fill the block is the last one of the write.
LEMMA CopyInside ==
    ASSUME LInv, Copy, NEW n, n = IF writer.left > BlockLen - blockLen THEN BlockLen - blockLen ELSE writer.left,
           blockLen + n # BlockLen
    PROVE  Simulates
<1>0. BlockCount \in Nat \ {0} /\ BlockLen \in Nat \ {0} /\ Nil \notin Blocks
  BY LoggerAssumption, BlockCountAssumption, SMT DEF Nil, Blocks
<1>1. PICK W : Layout(links, Loose(current), W)
  BY DEF LInv, Linear
<1>2. current # Nil /\ writer.pc = "copy" /\ blockLen \in 0 .. BlockLen /\ blockLen < BlockLen
  BY DEF Copy, LInv, WriteFits, LoggerTypes
<1>c. PICK c \in Nat : c = links.count
  BY <1>1, FreeCounted
<1>3. /\ writer.left \in 1 .. BlockCount * BlockLen
      /\ writer.left <= c * BlockLen + (BlockLen - blockLen)
  BY <1>c, <1>2 DEF LInv, WriteFits, Room
<1>4. writer.left \in Nat \ {0}
  BY <1>0, <1>3, SMT
<1>5. n \in 1 .. BlockLen - blockLen /\ writer.left = n
  BY <1>0, <1>2, <1>3, <1>4, CopyFits, SMT
<1>6. /\ writer' = NoWrite /\ sem' = "free" /\ blockLen' = blockLen + n
      /\ UNCHANGED <<links, seqno, current, nextSeq, sending, errors, radio>>
  BY <1>5, SMT DEF Copy
<1>7. blockLen' \in 0 .. BlockLen /\ blockLen' < BlockLen
  BY <1>0, <1>2, <1>5, <1>6, SMT
<1>8. LoggerTypes' /\ Linear' /\ SpaceIsReal' /\ WriteFits'
  BY <1>2, <1>6, <1>7 DEF LInv, LoggerTypes, Linear, SpaceIsReal, WriteFits, NoWrite
<1>9. Places' = Places
  BY <1>6, PlacesAre
<1>10. UNCHANGED (Abstract!blockVars)
  BY <1>6, <1>9 DEF radio, Abstract!blockVars
<1> QED BY <1>8, <1>10 DEF Simulates, LInv

\* The current block has become the last of the pending ones.
Filled(W, M, V) ==
    /\ Layout(M, {}, V) /\ M.free = links.free /\ M.count = links.count
    /\ current \in Blocks
    /\ Rng(V["pending"]) = Rng(W["pending"]) \cup {current}
    /\ \A q \in Lists : q # "pending" => V[q] = W[q]

\* The block that is full goes to the end of the pending queue.
LEMMA FullLayout ==
    ASSUME NEW W, Layout(links, Loose(current), W), current # Nil
    PROVE  \E V : Filled(W, enqueue_block(links, "pending", current), V)
<1>m. PICK M : M = enqueue_block(links, "pending", current)
  OBVIOUS
<1>v. PICK V : V = [W EXCEPT !["pending"] = Append(W["pending"], current)]
  OBVIOUS
<1>0. "pending" \in Lists /\ "pending" \in Queues
  BY DEF Lists, Queues
<1>1. Loose(current) = {current}
  BY DEF Loose
<1>2. current \in Loose(current) /\ Loose(current) \subseteq Blocks /\ links \in Links
  BY <1>1 DEF Layout
<1>3. current \in Blocks
  BY <1>2
<1>4. Layout(M, Loose(current) \ {current}, V)
  BY <1>m, <1>v, <1>0, <1>2, EnqueueLayout
<1>5. Loose(current) \ {current} = {}
  BY <1>1
<1>6. M.free = links.free /\ M.count = links.count
  BY <1>m, <1>0, <1>2, <1>3, EnqueueIs, SMT
<1>7. W \in [Lists -> Seq(Blocks)]
  BY DEF Layout
<1>8. V["pending"] = Append(W["pending"], current) /\ \A q \in Lists : q # "pending" => V[q] = W[q]
  BY <1>v, <1>0, <1>7
<1>9. Rng(V["pending"]) = Rng(W["pending"]) \cup {current}
  BY <1>0, <1>3, <1>7, <1>8, RngAppend
<1>10. Filled(W, M, V)
  BY <1>3, <1>4, <1>5, <1>6, <1>8, <1>9 DEF Filled
<1> QED BY <1>10, <1>m

\* A block that is full becomes pending; the next one is taken, or there is none and
\* nothing is left to be written.
LEMMA CopyFull ==
    ASSUME LInv, Copy, NEW n, n = IF writer.left > BlockLen - blockLen THEN BlockLen - blockLen ELSE writer.left,
           blockLen + n = BlockLen
    PROVE  Simulates
<1>0. BlockCount \in Nat \ {0} /\ BlockLen \in Nat \ {0} /\ Nil \notin Blocks /\ "free" \in Lists /\ "pending" \in Lists
  BY LoggerAssumption, BlockCountAssumption, SMT DEF Nil, Blocks, Lists, Queues
<1>1. PICK W : Layout(links, Loose(current), W)
  BY DEF LInv, Linear
<1>2. /\ current # Nil /\ writer.pc = "copy" /\ sem = "writer" /\ blockLen \in 0 .. BlockLen /\ blockLen < BlockLen
      /\ writer \in [pc : {"idle", "ready", "copy"}, left : Nat]
  BY DEF Copy, LInv, WriteFits, LoggerTypes
<1>c. PICK c \in Nat : c = links.count /\ (links.free = Nil <=> c = 0) /\ (links.free = Nil => Rng(W["free"]) = {})
  BY <1>1, FreeCounted
<1>3. /\ writer.left \in 1 .. BlockCount * BlockLen
      /\ writer.left <= c * BlockLen + (BlockLen - blockLen)
  BY <1>c, <1>2 DEF LInv, WriteFits, Room
<1>4. writer.left \in Nat \ {0}
  BY <1>0, <1>3, SMT
<1>5. /\ n \in 1 .. BlockLen - blockLen
      /\ c = 0 => writer.left = n
      /\ writer.left # n => writer.left - n >= 1 /\ writer.left - n <= c * BlockLen
  BY <1>0, <1>2, <1>3, <1>4, CopyFits, SMT
<1>m. PICK M : M = enqueue_block(links, "pending", current)
  OBVIOUS
<1>v. PICK V : Filled(W, M, V)
  BY <1>1, <1>2, <1>m, FullLayout
<1>6. /\ Layout(M, {}, V) /\ M.free = links.free /\ M.count = links.count
      /\ current \in Blocks
      /\ Rng(V["pending"]) = Rng(W["pending"]) \cup {current}
      /\ \A q \in Lists : q # "pending" => V[q] = W[q]
  BY <1>v DEF Filled
<1>7. /\ writer' = IF writer.left = n THEN NoWrite ELSE [writer EXCEPT !.left = @ - n]
      /\ sem' = IF writer.left = n THEN "free" ELSE sem
      /\ blockLen' = IF links.free = Nil THEN BlockLen ELSE 0
      /\ next_block(M)
      /\ UNCHANGED <<sending, errors, radio>>
  BY <1>m DEF Copy
<1>8. /\ sem' \in {"free", "writer"} /\ writer' \in [pc : {"idle", "ready", "copy"}, left : Nat]
      /\ writer'.pc = "copy" <=> sem' = "writer"
      /\ writer'.pc # "idle" => writer'.left = writer.left - n /\ writer.left # n
  <2>1. CASE writer.left = n
    BY <2>1, <1>7 DEF NoWrite
  <2>2. CASE writer.left # n
    <3>1. writer' = [pc |-> "copy", left |-> writer.left - n] /\ sem' = "writer"
      BY <2>2, <1>2, <1>7
    <3>2. writer.left - n \in Nat
      BY <1>0, <1>2, <1>4, <1>5, <2>2, SMT
    <3> QED BY <3>1, <3>2, <2>2
  <2> QED BY <2>1, <2>2
<1>9. writer.left # n => writer.left - n \in 1 .. BlockCount * BlockLen
  BY <1>0, <1>2, <1>3, <1>4, <1>5, SMT
<1>10. SpaceIsReal'
  BY <1>7 DEF LInv, SpaceIsReal
<1>11. /\ Places \in [Blocks -> {"free", "current", "pending", "sent", "retry"}]
       /\ \A x \in Blocks : Places[x] = "current" <=> x = current
       /\ \A x \in Blocks : \A q \in Lists : Places[x] = q <=> x \in Rng(W[q])
  BY <1>1, PlacesAre, PlacesAt, SMT
<1>12. CASE links.free = Nil
  <2>1. /\ current' = Nil /\ links' = M /\ blockLen' = BlockLen
        /\ UNCHANGED <<seqno, nextSeq>>
    BY <1>6, <1>7, <1>12 DEF next_block
  <2>2. writer.left = n
    BY <1>5, <1>12, <1>c
  <2>3. Loose(current') = {}
    BY <2>1 DEF Loose
  <2>4. Layout(links', Loose(current'), V)
    BY <2>1, <2>3, <1>6
  <2>5. LoggerTypes' /\ Linear'
    BY <2>1, <2>4, <1>0, <1>8, SMT DEF LInv, LoggerTypes, Linear, Ends
  <2>6. WriteFits'
    BY <2>1, <2>2, <1>8 DEF WriteFits
  <2>7. /\ Places' \in [Blocks -> {"free", "current", "pending", "sent", "retry"}]
        /\ \A x \in Blocks : Places'[x] # "current"
        /\ \A x \in Blocks : \A q \in Lists : Places'[x] = q <=> x \in Rng(V[q])
    BY <1>0, <2>1, <2>4, PlacesAre, PlacesAt, SMT
  <2>8. ASSUME NEW x \in Blocks PROVE Places'[x] = IF x = current THEN "pending" ELSE Places[x]
    <3>1. CASE x = current
      BY <3>1, <2>7, <1>0, <1>6
    <3>2. CASE x # current
      <4>1. Places[x] \in Lists
        BY <3>2, <1>11 DEF Lists, Queues
      <4>2. x \in Rng(V[Places[x]])
        BY <4>1, <3>2, <1>6, <1>11, SMT
      <4> QED BY <4>1, <4>2, <2>7, <3>2
    <3> QED BY <3>1, <3>2
  <2>9. Places' = [Places EXCEPT ![current] = "pending"]
    BY <2>7, <2>8, <1>11
  <2>10. Places[current] = "current" /\ \A x \in Blocks : Places[x] # "free"
    BY <1>0, <1>6, <1>11, <1>c, <1>12
  <2>11. Abstract!Close(current)
    BY <2>1, <2>9, <2>10, <1>7 DEF Abstract!Close, radio
  <2> QED BY <2>5, <2>6, <2>11, <1>6, <1>10 DEF Simulates, LInv, Abstract!Next
<1>13. CASE links.free # Nil
  <2>b. PICK b : b = links.free
    OBVIOUS
  <2>u. PICK U : U = [V EXCEPT !["free"] = Cut(V["free"], 1)]
    OBVIOUS
  <2>1. /\ current' = b /\ links' = PopFree(M) /\ blockLen' = 0
        /\ seqno' = [seqno EXCEPT ![b] = nextSeq] /\ nextSeq' = nextSeq + 1
    BY <1>6, <1>7, <1>13, <2>b DEF next_block
  <2>2. /\ b \in Blocks /\ b \in Rng(V["free"])
        /\ Layout(PopFree(M), {} \cup {b}, U)
        /\ Rng(Cut(V["free"], 1)) = Rng(V["free"]) \ {b}
    BY <1>6, <1>13, <2>b, <2>u, PopLayout, ZenonT(30)
  <2>3. Loose(current') = {} \cup {b}
    BY <2>1, <2>2, <1>0 DEF Loose
  <2>4. Layout(links', Loose(current'), U)
    BY <2>1, <2>2, <2>3
  <2>5. LoggerTypes' /\ Linear'
    BY <2>1, <2>2, <2>4, <1>0, <1>8, SMT DEF LInv, LoggerTypes, Linear, Ends
  <2>6. links'.count = c - 1
    <3>1. M \in Links
      BY <1>6 DEF Layout
    <3> QED BY <3>1, <2>1, <1>6, <1>c, PopFreeIs, SMT
  <2>7. Room' = c * BlockLen
    <3>1. Room' = (c - 1) * BlockLen + (BlockLen - 0)
      BY <1>0, <2>1, <2>2, <2>6 DEF Room
    <3>2. \A x, l \in Int : (x - 1) * l + (l - 0) = x * l
      BY SMT
    <3> QED BY <1>0, <3>1, <3>2, SMT
  <2>8. WriteFits'
    BY <2>1, <2>2, <2>7, <1>0, <1>5, <1>8, <1>9, SMT DEF WriteFits
  <2>9. /\ Places' \in [Blocks -> {"free", "current", "pending", "sent", "retry"}]
        /\ \A x \in Blocks : Places'[x] = "current" <=> x = b
        /\ \A x \in Blocks : \A q \in Lists : Places'[x] = q <=> x \in Rng(U[q])
    BY <2>1, <2>4, PlacesAre, PlacesAt, SMT
  <2>10. /\ \A q \in Lists : q # "free" => U[q] = V[q]
         /\ Rng(U["free"]) = Rng(V["free"]) \ {b}
    <3>1. V \in [Lists -> Seq(Blocks)]
      BY <1>6 DEF Layout
    <3> QED BY <3>1, <2>2, <2>u, <1>0
  <2>11. b # current /\ V["free"] = W["free"] /\ Places[b] = "free" /\ Places[current] = "current"
    BY <2>2, <1>0, <1>6, <1>11
  <2>12. ASSUME NEW x \in Blocks
         PROVE  Places'[x] = IF x = b THEN "current" ELSE IF x = current THEN "pending" ELSE Places[x]
    <3>1. CASE x = b
      BY <3>1, <2>9
    <3>2. CASE x = current
      <4>1. x \in Rng(U["pending"])
        BY <3>2, <1>0, <1>6, <2>10
      <4> QED BY <4>1, <3>2, <1>0, <2>9, <2>11
    <3>3. CASE x # current /\ x # b
      <4>1. Places[x] \in Lists
        BY <3>3, <1>11 DEF Lists, Queues
      <4>2. x \in Rng(V[Places[x]])
        BY <4>1, <3>3, <1>6, <1>11, SMT
      <4>3. x \in Rng(U[Places[x]])
        BY <4>1, <4>2, <3>3, <2>10
      <4> QED BY <4>1, <4>3, <2>9, <3>3
    <3> QED BY <3>1, <3>2, <3>3
  <2>13. Places' = [Places EXCEPT ![current] = "pending", ![b] = "current"]
    BY <2>9, <2>11, <2>12, <1>11, SMT
  <2>14. Abstract!Turn(current, b)
    BY <2>1, <2>11, <2>13, <1>7 DEF Abstract!Turn, radio
  <2> QED BY <2>2, <2>5, <2>8, <2>14, <1>6, <1>10 DEF Simulates, LInv, Abstract!Next
<1> QED BY <1>12, <1>13

\* A memcpy() keeps the invariant.
LEMMA CopyStep == ASSUME LInv, Copy PROVE Simulates
<1>1. PICK n : n = IF writer.left > BlockLen - blockLen THEN BlockLen - blockLen ELSE writer.left
  OBVIOUS
<1> QED BY <1>1, CopyInside, CopyFull

\* The blocks of S go from the queues to the list p.
Moved(W, V, S, p) ==
    /\ S \in SUBSET Blocks /\ S # {}
    /\ \A b \in S : \E q \in Queues : b \in Rng(W[q])
    /\ \A q \in Lists : Rng(V[q]) = IF q = p THEN Rng(W[q]) \cup S ELSE Rng(W[q]) \ S

\* A step that moves blocks out of the queues keeps the invariant.
LEMMA MovedStep ==
    ASSUME LInv, NEW W, Layout(links, Loose(current), W), NEW V, Layout(links', Loose(current), V),
           NEW S, NEW p \in Lists, Moved(W, V, S, p), sem = "free",
           UNCHANGED <<seqno, current, blockLen, nextSeq, sem, writer, errors>>
    PROVE  /\ LInv' /\ S \in SUBSET Blocks
           /\ \A b \in Blocks : \A q \in Lists : b \in Rng(W[q]) => Places[b] = q
           /\ Places \in [Blocks -> {"free", "current", "pending", "sent", "retry"}]
           /\ Places' = [b \in Blocks |-> IF b \in S THEN p ELSE Places[b]]
<1>0. S \in SUBSET Blocks /\ Nil \notin Blocks /\ Queues \subseteq Lists
  BY SMT DEF Moved, Nil, Blocks, Lists
<1>1. LoggerTypes' /\ Linear' /\ SpaceIsReal'
  BY DEF LInv, LoggerTypes, Linear, SpaceIsReal
<1>2. ~AllFree
  <2>1. PICK b \in S : \E q \in Queues : b \in Rng(W[q])
    BY DEF Moved
  <2>2. PICK q \in Queues : b \in Rng(W[q])
    BY <2>1
  <2>3. q \in Lists /\ q # "free"
    BY DEF Lists, Queues
  <2>4. PICK w : w = W[q]
    OBVIOUS
  <2>5. /\ w \in Seq(Blocks) /\ Len(w) \in Nat /\ (w = <<>> <=> Len(w) = 0)
        /\ Linked(links.next, links.queue[q].oldest, w)
    BY <2>3, <2>4, OfLayout, SMT DEF First
  <2>6. w # <<>>
    BY <2>2, <2>4, <2>5, RngInBlocks
  <2>7. links.queue[q].oldest = w[1] /\ w[1] \in Blocks
    BY <2>5, <2>6, SMT DEF Linked
  <2> QED BY <2>7, <1>0 DEF AllFree
<1>3. writer.pc # "copy"
  BY DEF LInv, WriteFits
<1>4. WriteFits'
  BY <1>2, <1>3 DEF LInv, WriteFits
<1>5. /\ Places \in [Blocks -> {"free", "current", "pending", "sent", "retry"}]
      /\ \A x \in Blocks : Places[x] = "current" <=> x = current
      /\ \A x \in Blocks : \A q \in Lists : Places[x] = q <=> x \in Rng(W[q])
  BY PlacesAre, PlacesAt, SMT
<1>6. /\ Places' \in [Blocks -> {"free", "current", "pending", "sent", "retry"}]
      /\ \A x \in Blocks : Places'[x] = "current" <=> x = current
      /\ \A x \in Blocks : \A q \in Lists : Places'[x] = q <=> x \in Rng(V[q])
  BY PlacesAre, PlacesAt, SMT
<1>7. ASSUME NEW x \in Blocks PROVE Places'[x] = IF x \in S THEN p ELSE Places[x]
  <2>1. CASE x \in S
    BY <2>1, <1>6 DEF Moved
  <2>2. CASE x \notin S /\ x = current
    BY <2>2, <1>5, <1>6
  <2>3. CASE x \notin S /\ x # current
    <3>1. Places[x] \in Lists
      BY <2>3, <1>5 DEF Lists, Queues
    <3>2. PICK q \in Lists : q = Places[x]
      BY <3>1
    <3>3. x \in Rng(W[q]) /\ Rng(V[q]) = IF q = p THEN Rng(W[q]) \cup S ELSE Rng(W[q]) \ S
      BY <3>2, <1>5 DEF Moved
    <3>4. Places'[x] = q
      BY <3>3, <2>3, <1>6
    <3> QED BY <3>2, <3>4, <2>3
  <2> QED BY <2>1, <2>2, <2>3
<1>8. Places' = [b \in Blocks |-> IF b \in S THEN p ELSE Places[b]]
  BY <1>6, <1>7
<1> QED BY <1>0, <1>1, <1>4, <1>5, <1>8 DEF LInv

\* The blocks of S have gone from the queue q to the sent queue.
Shifted(W, V, q, S) ==
    /\ S \subseteq Rng(W[q]) /\ Rng(V["sent"]) = Rng(W["sent"]) \cup S
    /\ Rng(V[q]) = Rng(W[q]) \ S
    /\ \A p \in Lists : p # q /\ p # "sent" => V[p] = W[p]

\* The blocks that send_log_blocks_from_queue() moves, and those that stay.
LEMMA SentIs ==
    ASSUME NEW L, NEW C, NEW W, Layout(L, C, W), NEW q \in Queues, q # "sent",
           NEW n \in 0 .. Len(W[q]), NEW V, SentBy(W, q, n, V), NEW D, Layout(D, C, V)
    PROVE  Shifted(W, V, q, {W[q][i] : i \in 1 .. n})
<1>s. PICK S : S = {W[q][i] : i \in 1 .. n}
  OBVIOUS
<1>0. q \in Lists /\ "sent" \in Lists
  BY DEF Lists, Queues
<1>w. PICK w : w = W[q]
  OBVIOUS
<1>v. PICK v : v = V[q]
  OBVIOUS
<1>1. /\ w \in Seq(Blocks) /\ Len(w) \in Nat /\ Distinct(w)
      /\ v \in Seq(Blocks) /\ Len(v) \in Nat /\ n \in 0 .. Len(w)
  BY <1>0, <1>w, <1>v, OfLayout
<1>2. Len(v) = Len(w) - n /\ \A j \in 1 .. Len(w) - n : v[j] = w[j + n]
  BY <1>w, <1>v DEF SentBy
<1>3. S = {w[i] : i \in 1 .. n}
  BY <1>w, <1>s
<1>4. S \subseteq Rng(w)
  <2>1. \A i \in 1 .. n : i \in 1 .. Len(w)
    BY <1>1, SMT
  <2> QED BY <2>1, <1>3 DEF Rng
<1>5. Rng(v) \subseteq Rng(w) \ S
  <2> SUFFICES ASSUME NEW j \in 1 .. Len(v) PROVE v[j] \in Rng(w) \ S
    BY DEF Rng
  <2>1. j + n \in 1 .. Len(w) /\ j + n > n /\ v[j] = w[j + n]
    BY <1>1, <1>2, SMT
  <2>2. \A i \in 1 .. n : i \in 1 .. Len(w) /\ i # j + n
    BY <1>1, <2>1, SMT
  <2>3. \A i \in 1 .. n : w[i] # w[j + n]
    BY <1>1, <2>1, <2>2 DEF Distinct
  <2> QED BY <2>1, <2>3, <1>3 DEF Rng
<1>6. Rng(w) \ S \subseteq Rng(v)
  <2> SUFFICES ASSUME NEW i \in 1 .. Len(w), w[i] \notin S PROVE w[i] \in Rng(v)
    BY DEF Rng
  <2>1. i \notin 1 .. n
    BY <1>3
  <2>2. i - n \in 1 .. Len(w) - n /\ (i - n) + n = i
    BY <2>1, <1>1, SMT
  <2>3. v[i - n] = w[i] /\ i - n \in 1 .. Len(v)
    BY <2>2, <1>2
  <2> QED BY <2>3 DEF Rng
<1>7. /\ Rng(V["sent"]) = Rng(W["sent"]) \cup {W[q][i] : i \in 1 .. n}
      /\ \A p \in Lists : p # q /\ p # "sent" => V[p] = W[p]
  BY DEF SentBy
<1> QED BY <1>s, <1>w, <1>v, <1>4, <1>5, <1>6, <1>7 DEF Shifted

\* push_log_blocks() sends blocks of the retry queue, then of the pending queue.
LEMMA PushStep == ASSUME LInv, push_log_blocks PROVE Simulates
<1>0. /\ "sent" \in Lists /\ "retry" \in Lists /\ "pending" \in Lists /\ "free" \in Lists
      /\ "retry" \in Queues /\ "pending" \in Queues /\ "sent" \in Queues
      /\ Lists = {"pending", "sent", "retry", "free"}
  BY DEF Lists, Queues
<1>w. PICK W : Layout(links, Loose(current), W)
  BY DEF LInv, Linear
<1>1. PICK n \in CanSend(links, "retry") :
       LET L == SendFrom(links, "retry", n)
           left == ListOf(L, "retry")
       IN  \E k \in IF left = <<>> THEN CanSend(L, "pending") ELSE {0} :
           LET S == Oldest(links, "retry", n) \cup Oldest(L, "pending", k) IN
           /\ S # {} /\ Sent({seqno[b] : b \in S})
           /\ links' = SendFrom(L, "pending", k)
           /\ due' = due \ S
  BY DEF push_log_blocks
<1>l. PICK L : L = SendFrom(links, "retry", n)
  OBVIOUS
<1>2. PICK k \in IF ListOf(L, "retry") = <<>> THEN CanSend(L, "pending") ELSE {0} :
           LET S == Oldest(links, "retry", n) \cup Oldest(L, "pending", k) IN
           /\ S # {} /\ Sent({seqno[b] : b \in S})
           /\ links' = SendFrom(L, "pending", k)
           /\ due' = due \ S
  BY <1>1, <1>l
<1>a. PICK A : A = Oldest(links, "retry", n)
  OBVIOUS
<1>b. PICK B : B = Oldest(L, "pending", k)
  OBVIOUS
<1>s. PICK S : S = A \cup B
  OBVIOUS
<1>3. S # {} /\ Sent({seqno[b] : b \in S}) /\ links' = SendFrom(L, "pending", k)
  BY <1>2, <1>a, <1>b, <1>s
<1>4. \A M, q : Len(ListOf(M, q)) \in Nat => CanSend(M, q) \subseteq 0 .. Len(ListOf(M, q))
  BY LoggerAssumption, SMT DEF CanSend
<1>5. ListOf(links, "retry") = W["retry"] /\ W["retry"] \in Seq(Blocks) /\ Len(W["retry"]) \in Nat
  BY <1>0, <1>w, ListIs, OfLayout, SMT
<1>6. n \in 0 .. Len(W["retry"])
  BY <1>4, <1>5
<1>u. PICK U : Layout(L, Loose(current), U) /\ SentBy(W, "retry", n, U)
  BY <1>0, <1>w, <1>l, <1>6, SendLayout
<1>7. ListOf(L, "pending") = U["pending"] /\ U["pending"] \in Seq(Blocks) /\ Len(U["pending"]) \in Nat
  BY <1>0, <1>u, ListIs, OfLayout, SMT
<1>8. k \in 0 .. Len(U["pending"])
  BY <1>2, <1>4, <1>7, SMT
<1>v. PICK V : Layout(links', Loose(current), V) /\ SentBy(U, "pending", k, V)
  BY <1>0, <1>u, <1>3, <1>8, SendLayout
<1>9. A = {W["retry"][i] : i \in 1 .. n} /\ B = {U["pending"][i] : i \in 1 .. k}
  BY <1>a, <1>b, <1>5, <1>7 DEF Oldest
<1>10. /\ A \subseteq Rng(W["retry"]) /\ Rng(U["sent"]) = Rng(W["sent"]) \cup A
       /\ Rng(U["retry"]) = Rng(W["retry"]) \ A
       /\ U["pending"] = W["pending"] /\ U["free"] = W["free"]
  <2>1. Shifted(W, U, "retry", {W["retry"][i] : i \in 1 .. n})
    BY <1>0, <1>w, <1>u, <1>6, SentIs, SMT
  <2> QED BY <2>1, <1>0, <1>9 DEF Shifted
<1>11. /\ B \subseteq Rng(U["pending"]) /\ Rng(V["sent"]) = Rng(U["sent"]) \cup B
       /\ Rng(V["pending"]) = Rng(U["pending"]) \ B
       /\ V["retry"] = U["retry"] /\ V["free"] = U["free"]
  <2>1. Shifted(U, V, "pending", {U["pending"][i] : i \in 1 .. k})
    BY <1>0, <1>u, <1>v, <1>8, SentIs, SMT
  <2> QED BY <2>1, <1>0, <1>9 DEF Shifted
<1>12. \A p, q \in Lists : p # q => Rng(W[p]) \cap Rng(W[q]) = {}
  BY <1>w DEF Layout, Apart
<1>13. \A q \in Lists : Rng(W[q]) \subseteq Blocks
  BY <1>w, RngInBlocks DEF Layout
<1>14. Moved(W, V, S, "sent")
  <2>1. S \in SUBSET Blocks /\ \A b \in S : \E q \in Queues : b \in Rng(W[q])
    BY <1>0, <1>s, <1>10, <1>11, <1>13
  <2>2. Rng(V["sent"]) = Rng(W["sent"]) \cup S
    BY <1>s, <1>10, <1>11
  <2>3. Rng(V["retry"]) = Rng(W["retry"]) \ S
    <3>1. Rng(W["retry"]) \cap Rng(W["pending"]) = {}
      BY <1>0, <1>12
    <3> QED BY <3>1, <1>s, <1>10, <1>11
  <2>4. Rng(V["pending"]) = Rng(W["pending"]) \ S
    <3>1. Rng(W["retry"]) \cap Rng(W["pending"]) = {}
      BY <1>0, <1>12
    <3> QED BY <3>1, <1>s, <1>10, <1>11
  <2>5. Rng(V["free"]) = Rng(W["free"]) \ S
    <3>1. Rng(W["retry"]) \cap Rng(W["free"]) = {} /\ Rng(W["pending"]) \cap Rng(W["free"]) = {}
      BY <1>0, <1>12
    <3> QED BY <3>1, <1>s, <1>10, <1>11
  <2> QED BY <2>1, <2>2, <2>3, <2>4, <2>5, <1>0, <1>3 DEF Moved
<1>15. /\ LInv' /\ S \in SUBSET Blocks
       /\ \A b \in Blocks : \A q \in Lists : b \in Rng(W[q]) => Places[b] = q
       /\ Places' = [b \in Blocks |-> IF b \in S THEN "sent" ELSE Places[b]]
  BY <1>0, <1>w, <1>v, <1>14, MovedStep, SMT DEF push_log_blocks
<1>16. \A b \in S : Places[b] \in {"pending", "retry"}
  BY <1>0, <1>s, <1>10, <1>11, <1>15
<1>17. Abstract!Transmit(S)
  BY <1>3, <1>15, <1>16 DEF Abstract!Transmit, push_log_blocks, Sent
<1> QED BY <1>15, <1>17 DEF Simulates, Abstract!Next

\* The first block with a number is a block of the queue.
LEMMA FirstIs ==
    ASSUME NEW W, Layout(links, Loose(current), W), NEW q \in Queues, NEW s, NEW i \in FirstWith(links, q, s)
    PROVE  /\ i \in 1 .. Len(W[q]) /\ ListOf(links, q)[i] = W[q][i] /\ seqno[W[q][i]] = s
           /\ W[q][i] \in Blocks /\ W[q][i] \in Rng(W[q]) /\ W[q][i] \notin Loose(current)
           /\ Rng(Cut(W[q], i)) = Rng(W[q]) \ {W[q][i]}
<1>0. q \in Lists
  BY DEF Lists
<1>w. PICK w : w = W[q]
  OBVIOUS
<1>1. ListOf(links, q) = w
  BY <1>w, ListIs
<1>2. i \in 1 .. Len(w) /\ seqno[w[i]] = s
  BY <1>1 DEF FirstWith
<1>3. w \in Seq(Blocks) /\ Distinct(w) /\ Loose(current) \cap Rng(w) = {}
  BY <1>0, <1>w, OfLayout, SMT
<1>4. w[i] \in Rng(w) /\ w[i] \in Blocks
  BY <1>2, <1>3, RngInBlocks
<1>5. Rng(Cut(w, i)) = Rng(w) \ {w[i]}
  BY <1>2, <1>3, CutIs
<1> QED BY <1>w, <1>1, <1>2, <1>3, <1>4, <1>5

\* An acknowledged block goes to the free stack,
LEMMA AckMoves ==
    ASSUME NEW W, Layout(links, Loose(current), W), NEW q \in Queues, NEW s, NEW i \in FirstWith(links, q, s),
           links' = PushFree(dequeue(links, q, i), ListOf(links, q)[i])
    PROVE  \E V : Layout(links', Loose(current), V) /\ Moved(W, V, {W[q][i]}, "free")
<1>0. q \in Lists /\ q # "free" /\ "free" \in Lists
  BY DEF Lists, Queues
<1>b. PICK b : b = W[q][i]
  OBVIOUS
<1>1. /\ i \in 1 .. Len(W[q]) /\ ListOf(links, q)[i] = b /\ b \in Blocks /\ b \in Rng(W[q]) 
      /\ b \notin Loose(current) /\ Rng(Cut(W[q], i)) = Rng(W[q]) \ {b}
  BY <1>b, FirstIs, SMT
<1>u. PICK U : U = [W EXCEPT ![q] = Cut(W[q], i)]
  OBVIOUS
<1>m. PICK M : M = dequeue(links, q, i)
  OBVIOUS
<1>c. PICK C : C = Loose(current) \cup {b}
  OBVIOUS
<1>2. Layout(M, C, U)
  BY <1>u, <1>m, <1>b, <1>c, <1>1, DequeueLayout
<1>v. PICK V : V = [U EXCEPT !["free"] = Push(U["free"], b)]
  OBVIOUS
<1>3. b \in C /\ links' = PushFree(M, b)
  BY <1>1, <1>m, <1>c
<1>4. /\ Layout(links', C \ {b}, V)
      /\ Rng(Push(U["free"], b)) = Rng(U["free"]) \cup {b}
  <2>1. b \in C
    BY <1>3
  <2>2. /\ Layout(PushFree(M, b), C \ {b}, [U EXCEPT !["free"] = Push(U["free"], b)])
        /\ Rng(Push(U["free"], b)) = Rng(U["free"]) \cup {b}
    BY ONLY <2>1, <1>2, PushLayout
  <2> QED BY <2>2, <1>3, <1>v
<1>5. C \ {b} = Loose(current)
  BY <1>1, <1>c
<1>6. W \in [Lists -> Seq(Blocks)] /\ U \in [Lists -> Seq(Blocks)]
  BY <1>2 DEF Layout
<1>7. /\ U[q] = Cut(W[q], i) /\ \A p \in Lists : p # q => U[p] = W[p]
      /\ V["free"] = Push(U["free"], b) /\ \A p \in Lists : p # "free" => V[p] = U[p]
  BY <1>0, <1>6, <1>u, <1>v
<1>8. \A p \in Lists : p # q => b \notin Rng(W[p])
  BY <1>0, <1>1 DEF Layout, Apart
<1>9. \A p \in Lists : Rng(V[p]) = IF p = "free" THEN Rng(W[p]) \cup {b} ELSE Rng(W[p]) \ {b}
  BY <1>0, <1>1, <1>4, <1>7, <1>8
<1>10. Moved(W, V, {b}, "free")
  BY <1>1, <1>9 DEF Moved
<1> QED BY <1>b, <1>4, <1>5, <1>10

\* and one that is asked for to the retry queue.
LEMMA RetryMoves ==
    ASSUME NEW W, Layout(links, Loose(current), W), NEW s, NEW i \in FirstWith(links, "sent", s),
           links' = enqueue_block(dequeue(links, "sent", i), "retry", ListOf(links, "sent")[i])
    PROVE  \E V : Layout(links', Loose(current), V) /\ Moved(W, V, {W["sent"][i]}, "retry")
<1>q. PICK q \in Queues : q = "sent"
  BY DEF Queues
<1>0. q \in Lists /\ q # "retry" /\ "retry" \in Lists /\ "retry" \in Queues
  BY <1>q DEF Lists, Queues
<1>b. PICK b : b = W[q][i]
  OBVIOUS
<1>1. /\ i \in 1 .. Len(W[q]) /\ ListOf(links, q)[i] = b /\ b \in Blocks /\ b \in Rng(W[q]) 
      /\ b \notin Loose(current) /\ Rng(Cut(W[q], i)) = Rng(W[q]) \ {b}
  BY <1>q, <1>b, FirstIs, SMT
<1>u. PICK U : U = [W EXCEPT ![q] = Cut(W[q], i)]
  OBVIOUS
<1>m. PICK M : M = dequeue(links, q, i)
  OBVIOUS
<1>c. PICK C : C = Loose(current) \cup {b}
  OBVIOUS
<1>2. Layout(M, C, U)
  BY <1>u, <1>m, <1>b, <1>c, <1>1, DequeueLayout
<1>v. PICK V : V = [U EXCEPT !["retry"] = Append(U["retry"], b)]
  OBVIOUS
<1>3. b \in C /\ links' = enqueue_block(M, "retry", b)
  BY <1>q, <1>1, <1>m, <1>c
<1>4. Layout(links', C \ {b}, V)
  <2>1. b \in C /\ "retry" \in Queues
    BY <1>3, <1>0
  <2>2. Layout(enqueue_block(M, "retry", b), C \ {b}, [U EXCEPT !["retry"] = Append(U["retry"], b)])
    BY ONLY <2>1, <1>2, EnqueueLayout
  <2> QED BY <2>2, <1>3, <1>v
<1>5. C \ {b} = Loose(current)
  BY <1>1, <1>c
<1>6. W \in [Lists -> Seq(Blocks)] /\ U \in [Lists -> Seq(Blocks)]
  BY <1>2 DEF Layout
<1>7. /\ U[q] = Cut(W[q], i) /\ \A p \in Lists : p # q => U[p] = W[p]
      /\ V["retry"] = Append(U["retry"], b) /\ \A p \in Lists : p # "retry" => V[p] = U[p]
  BY <1>0, <1>6, <1>u, <1>v
<1>8. \A p \in Lists : p # q => b \notin Rng(W[p])
  BY <1>0, <1>1 DEF Layout, Apart
<1>9. Rng(V["retry"]) = Rng(U["retry"]) \cup {b}
  BY <1>0, <1>1, <1>6, <1>7, RngAppend
<1>10. \A p \in Lists : Rng(V[p]) = IF p = "retry" THEN Rng(W[p]) \cup {b} ELSE Rng(W[p]) \ {b}
  BY <1>0, <1>1, <1>7, <1>8, <1>9
<1>11. Moved(W, V, {b}, "retry")
  BY <1>1, <1>10 DEF Moved
<1> QED BY <1>q, <1>b, <1>4, <1>5, <1>11

\* handle_ack() frees one block, the one that has the number.
LEMMA AckStep == ASSUME LInv, NEW s, handle_ack(s) PROVE Simulates
<1>0. "free" \in Lists /\ Queues \subseteq Lists
  BY DEF Lists
<1>w. PICK W : Layout(links, Loose(current), W)
  BY DEF LInv, Linear
<1>1. PICK q \in Queues : q \in {"sent", "retry"} /\ AckIn(s, q)
  BY DEF handle_ack, Queues
<1>2. PICK i \in FirstWith(links, q, s) : links' = PushFree(dequeue(links, q, i), ListOf(links, q)[i])
  BY <1>1 DEF AckIn
<1>b. PICK b : b = W[q][i]
  OBVIOUS
<1>3. b \in Blocks /\ b \in Rng(W[q]) /\ seqno[b] = s
  BY <1>w, <1>b, FirstIs, SMT
<1>v. PICK V : Layout(links', Loose(current), V) /\ Moved(W, V, {b}, "free")
  BY <1>w, <1>b, <1>2, AckMoves
<1>4. sem = "free" /\ UNCHANGED <<seqno, current, blockLen, nextSeq, sem, writer, errors>>
  BY DEF handle_ack, Handled
<1>5. /\ LInv'
      /\ \A x \in Blocks : \A p \in Lists : x \in Rng(W[p]) => Places[x] = p
      /\ Places \in [Blocks -> {"free", "current", "pending", "sent", "retry"}]
      /\ Places' = [x \in Blocks |-> IF x \in {b} THEN "free" ELSE Places[x]]
  BY <1>0, <1>w, <1>v, <1>4, MovedStep, SMT
<1>6. Places[b] \in {"sent", "retry"}
  BY <1>0, <1>1, <1>3, <1>5
<1>7. Places' = [Places EXCEPT ![b] = "free"]
  BY <1>5
<1>8. Abstract!Arrives(Abstract!Ack(seqno[b]), toVehicle, toVehicle')
  BY <1>3 DEF handle_ack, Handled, Arrives, Abstract!Arrives
<1>9. Abstract!HandleAck(b)
  BY <1>6, <1>7, <1>8 DEF Abstract!HandleAck, handle_ack
<1> QED BY <1>3, <1>5, <1>9 DEF Simulates, Abstract!Next

\* handle_retry() puts one block into the retry queue.
LEMMA RetryStep == ASSUME LInv, NEW s, handle_retry(s) PROVE Simulates
<1>0. "retry" \in Lists /\ "sent" \in Lists /\ "sent" \in Queues
  BY DEF Lists, Queues
<1>w. PICK W : Layout(links, Loose(current), W)
  BY DEF LInv, Linear
<1>2. PICK i \in FirstWith(links, "sent", s) :
        links' = enqueue_block(dequeue(links, "sent", i), "retry", ListOf(links, "sent")[i])
  BY DEF handle_retry
<1>b. PICK b : b = W["sent"][i]
  OBVIOUS
<1>3. b \in Blocks /\ b \in Rng(W["sent"]) /\ seqno[b] = s
  BY <1>0, <1>w, <1>b, FirstIs, SMT
<1>v. PICK V : Layout(links', Loose(current), V) /\ Moved(W, V, {b}, "retry")
  BY <1>w, <1>b, <1>2, RetryMoves
<1>4. sem = "free" /\ UNCHANGED <<seqno, current, blockLen, nextSeq, sem, writer, errors>>
  BY DEF handle_retry, Handled
<1>5. /\ LInv'
      /\ \A x \in Blocks : \A p \in Lists : x \in Rng(W[p]) => Places[x] = p
      /\ Places \in [Blocks -> {"free", "current", "pending", "sent", "retry"}]
      /\ Places' = [x \in Blocks |-> IF x \in {b} THEN "retry" ELSE Places[x]]
  BY <1>0, <1>w, <1>v, <1>4, MovedStep, SMT
<1>6. Places[b] = "sent"
  BY <1>0, <1>3, <1>5
<1>7. Places' = [Places EXCEPT ![b] = "retry"]
  BY <1>5
<1>8. Abstract!Arrives(Abstract!Nack(seqno[b]), toVehicle, toVehicle')
  BY <1>3 DEF handle_retry, Handled, Arrives, Abstract!Arrives
<1>9. Abstract!HandleNack(b)
  BY <1>6, <1>7, <1>8 DEF Abstract!HandleNack, handle_retry
<1> QED BY <1>3, <1>5, <1>9 DEF Simulates, Abstract!Next

\* start_new_log() begins the life of the blocks anew.
LEMMA StartStep == ASSUME LInv, start_new_log PROVE Simulates
<1>0. BlockCount \in Nat \ {0} /\ BlockLen \in Nat \ {0} /\ MaxSeq \in Nat /\ Nil \notin Blocks /\ "free" \in Lists
  BY LoggerAssumption, BlockCountAssumption, SMT DEF Nil, Blocks, Lists
<1>1. /\ links' = free_all_blocks /\ current' = Nil /\ blockLen' = 0 /\ nextSeq' = 0
      /\ seqno' = [b \in Blocks |-> Junk] /\ UNCHANGED <<sem, writer, errors>> /\ sem = "free"
  BY DEF start_new_log, Handled
<1>2. PICK W : Layout(free_all_blocks, {}, W) /\ \A b \in Blocks : b \in Rng(W["free"])
  BY FreeAllLayout
<1>3. Loose(current') = {}
  BY <1>1 DEF Loose
<1>4. Layout(links', Loose(current'), W)
  BY <1>1, <1>2, <1>3
<1>5. seqno' \in [Blocks -> Nat]
  BY <1>0, <1>1 DEF Junk
<1>6. LoggerTypes' /\ Linear' /\ SpaceIsReal'
  BY <1>0, <1>1, <1>4, <1>5, SMT DEF LInv, LoggerTypes, Linear, SpaceIsReal, Ends
<1>7. AllFree'
  BY <1>1 DEF AllFree, free_all_blocks, Empty
<1>8. WriteFits'
  BY <1>1, <1>7 DEF LInv, WriteFits
<1>9. Places' = [b \in Blocks |-> "free"]
  BY <1>0, <1>2, <1>4, PlacesAre, PlacesAt, SMT
<1>10. Abstract!Arrives(Abstract!StartLog, toVehicle, toVehicle')
  BY DEF start_new_log, Handled, Arrives, Abstract!Arrives
<1>11. Abstract!HandleStart
  BY <1>1, <1>5, <1>9, <1>10 DEF Abstract!HandleStart, start_new_log
<1> QED BY <1>6, <1>8, <1>11 DEF Simulates, LInv, Abstract!Next

\* Every step keeps the invariant, and is a step of LogBlocks or leaves it alone.
LEMMA LoggerStep == ASSUME LInv, [LoggerNext]_loggerVars PROVE Simulates
<1>1. CASE UNCHANGED loggerVars
  <2>1. UNCHANGED <<links, seqno, current, blockLen, nextSeq, sem, writer, errors>>
    BY <1>1 DEF loggerVars, blocks
  <2>2. Places' = Places => UNCHANGED (Abstract!blockVars)
    BY <1>1 DEF loggerVars, blocks, radio, Abstract!blockVars
  <2> QED BY <2>1, <2>2, OutsideStep
<1>2. CASE LoggerNext
  BY <1>2, WritesOKStep, DropWriteStep, StartWriteStep, NeedBlockStep, CopyStep, PushStep,
     ResendStep, TickStep, TimeoutStep, StartStep, StopStep, LostStep, UselessStep,
     StartOrStopStep, AckStep, RetryStep, ReceiveStep, AskStep
  DEF LoggerNext, Writing
<1> QED BY <1>1, <1>2

\* The inductive invariant, for any number of blocks of any size, and any sizes of the
\* log messages that are written.
THEOREM LoggerInvariant == LoggerSpec => []LInv
<1>1. LoggerInit => LInv
  BY Initially
<1>2. LInv /\ [LoggerNext]_loggerVars => LInv'
  BY LoggerStep DEF Simulates
<1> QED BY <1>1, <1>2, PTL DEF LoggerSpec

\* The free stack and the queues are always sound: every block is in exactly one
\* place, the youngest block of a queue is its last, and _blockcount_free counts the
\* free blocks.
THEOREM ListsAlwaysSound == LoggerSpec => []ListsSound
<1>1. LInv => ListsSound
  BY LayoutSound DEF LInv, Linear
<1> QED BY <1>1, LoggerInvariant, PTL

\* A write that found room in bufferspace_available() never raises
\* logger_bad_current_block, however sending and the client's answers interleave with it.
THEOREM SpaceAlwaysReal == LoggerSpec => []SpaceIsReal
<1>1. LInv => SpaceIsReal
  BY DEF LInv
<1> QED BY <1>1, LoggerInvariant, PTL

\* The linked lists implement the life of a block that LogBlocks describes.
THEOREM LoggerImplements == LoggerSpec => ImplementsLogBlocks
<1>1. LoggerInit => Abstract!Init
  BY Initially
<1>2. LInv /\ [LoggerNext]_loggerVars => [Abstract!Next]_(Abstract!blockVars)
  BY LoggerStep DEF Simulates
<1> QED BY <1>1, <1>2, LoggerInvariant, PTL DEF LoggerSpec, ImplementsLogBlocks, Abstract!Spec

\* What is proved of LogBlocks, for the blocks as the lists place them.
Life == INSTANCE LogBlocksProofs WITH loc <- Places

\* The steps of LogBlocks are the same, taken from its module or from that of its proofs.
LEMMA EquivNext == [Abstract!Next]_(Abstract!blockVars) <=> [Life!Next]_(Life!blockVars)
BY DEF Abstract!Next, Life!Next, Abstract!blockVars, Life!blockVars,
  Abstract!Ignore, Abstract!Stop, Abstract!HandleStart, Abstract!Receive, Abstract!Request,
  Abstract!Resend, Abstract!Transmit, Abstract!Open, Abstract!Close, Abstract!HandleAck,
  Abstract!HandleNack, Abstract!Turn, Abstract!Ack, Abstract!Nack, Abstract!StartLog, Abstract!StopLog,
  Abstract!Arrives,
  Life!Ignore, Life!Stop, Life!HandleStart, Life!Receive, Life!Request,
  Life!Resend, Life!Transmit, Life!Open, Life!Close, Life!HandleAck,
  Life!HandleNack, Life!Turn, Life!Ack, Life!Nack, Life!StartLog, Life!StopLog, Life!Arrives

\* So are its initial states,
LEMMA EquivInit == Abstract!Init <=> Life!Init
BY DEF Abstract!Init, Life!Init

\* and what it means that nothing is lost.
LEMMA EquivLost == Abstract!NothingLost <=> Life!NothingLost
BY DEF Abstract!NothingLost, Life!NothingLost, Abstract!Held, Life!Held

\* The inductive invariant of LogBlocks, for the blocks as the lists place them.
LEMMA LifeInd == Life!IInv /\ [Life!Next]_(Life!blockVars) => Life!IInv'
BY Life!Inductive

\* No block of the log is given up before the client has it, by the linked lists too.
THEOREM LoggerLosesNothing == LoggerSpec => []LogNothingLost
<1>1. LoggerInit => Life!IInv
  BY Initially, EquivInit, Life!Initial
<1>2. LInv /\ [LoggerNext]_loggerVars /\ Life!IInv => Life!IInv'
  BY LoggerStep, EquivNext, LifeInd DEF Simulates
<1>3. Life!IInv => LogNothingLost
  BY EquivLost DEF Life!IInv, LogNothingLost
<1> QED BY <1>1, <1>2, <1>3, LoggerInvariant, PTL DEF LoggerSpec
=============================================================================
