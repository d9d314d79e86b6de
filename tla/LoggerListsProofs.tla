------------------------- MODULE LoggerListsProofs --------------------------
(***************************************************************************)
(* Proofs about the linked lists of AP_Logger_MAVLink, for any number of   *)
(* blocks.  Links that lay out the lists W (Layout) are taken by every     *)
(* operation to links that lay out the lists one expects: a block at the   *)
(* end of its queue, a block less, the oldest ones moved.                  *)
(***************************************************************************)
EXTENDS LoggerLists, WellFoundedInduction, FiniteSetTheorems, TLAPS

\* A leaf is proved by Zenon unless it names SMT, which does the arithmetic.
USE Zenon

\* The empty sequence is the sequence of length 0.
LEMMA EmptySeq ==
  ASSUME NEW S
  PROVE  /\ << >> \in Seq(S)
         /\ Len(<< >>) = 0
         /\ \A seq \in Seq(S) : (seq # << >>) => (Len(seq) \in Nat \ {0})
  BY SMT

\* Every nonempty set of natural numbers has a least element.
LEMMA Least ==
  ASSUME NEW T \in SUBSET Nat, T # {}
  PROVE  \E x \in T : \A y \in T : x <= y
<1> DEFINE R == {ss \in Nat \X Nat : ss[1] < ss[2]}
<1>1. IsWellFoundedOn(R, Nat)
  BY NatLessThanWellFounded DEF OpToRel
<1>2. \E x \in T : \A y \in T : ~ (<<y, x>> \in R)
  <2> HIDE DEF R
  <2> QED BY <1>1, WFMin
<1>3. PICK x \in T : \A y \in T : ~ (<<y, x>> \in R)
  BY <1>2
<1>4. ASSUME NEW y \in T PROVE x <= y
  <2>1. ~ (<<y, x>> \in R)
    BY <1>3
  <2>2. x \in Nat /\ y \in Nat
    OBVIOUS
  <2>3. ~ (y < x)
    BY <2>1, <2>2
  <2> QED BY <2>2, <2>3, SMT
<1> QED BY <1>4

\* Induction over a set: the library's induction theorems take an operator, this one
\* a set, which the provers can instantiate.
LEMMA NatSetInduction ==
  ASSUME NEW S, 0 \in S, \A n \in Nat : n \in S => n + 1 \in S
  PROVE  \A n \in Nat : n \in S
<1> SUFFICES ASSUME Nat \ S # {} PROVE FALSE
  OBVIOUS
<1>1. PICK x \in Nat \ S : \A y \in Nat \ S : x <= y
  BY Least
<1>2. x # 0 /\ x \in Nat
  OBVIOUS
<1>3. x - 1 \in Nat
  BY <1>2, SMT
<1>4. x - 1 \in S
  BY <1>1, <1>3, SMT
<1>5. (x - 1) + 1 \in S
  BY <1>3, <1>4
<1> QED BY <1>2, <1>5, SMT
-----------------------------------------------------------------------------
\* What a link may point to, and the links.
Ends == Blocks \cup {Nil}
Nexts == [Blocks -> Ends]

\* One step of the recursion of Chain().
FromStep(next, n, g) == [x \in Ends |-> IF n = 0 \/ x = Nil THEN <<>> ELSE <<x>> \o g[next[x]]]
IsFrom(next, m, f) == f = [n \in 0 .. m |-> FromStep(next, n, f[n - 1])]

\* The recursion of Chain() defines a function, whatever the links are.
LEMMA FromExists ==
    ASSUME NEW next
    PROVE  \A m \in Nat : \E f : IsFrom(next, m, f)
<1> DEFINE S == {m \in Nat : \E f : IsFrom(next, m, f)}
<1>1. 0 \in S
  <2> DEFINE f == [n \in 0 .. 0 |-> [x \in Ends |-> <<>>]]
  <2>1. IsFrom(next, 0, f)
    BY SMT DEF IsFrom, FromStep
  <2> QED BY <2>1
<1>2. ASSUME NEW m \in Nat, m \in S PROVE m + 1 \in S
  <2>1. PICK f : IsFrom(next, m, f)
    BY <1>2
  <2> DEFINE g == [n \in 0 .. m + 1 |-> IF n = m + 1 THEN FromStep(next, n, f[m]) ELSE f[n]]
  <2>2. IsFrom(next, m + 1, g)
    <3>1. ASSUME NEW n \in 0 .. m + 1 PROVE g[n] = FromStep(next, n, g[n - 1])
      <4>1. CASE n = m + 1
        <5>1. g[n - 1] = f[m]
          BY <4>1, SMT
        <5> QED BY <4>1, <5>1
      <4>2. CASE n \in 1 .. m
        <5>1. g[n] = f[n] /\ g[n - 1] = f[n - 1]
          BY <4>2, SMT
        <5> QED BY <4>2, <5>1, <2>1, SMT DEF IsFrom
      <4>3. CASE n = 0
        <5>1. g[n] = FromStep(next, 0, f[0 - 1])
          BY <4>3, <2>1, SMT DEF IsFrom
        <5> QED BY <4>3, <5>1 DEF FromStep
      <4> QED BY <4>1, <4>2, <4>3, SMT
    <3>2. g = [n \in 0 .. m + 1 |-> FromStep(next, n, g[n - 1])]
      <4> HIDE DEF g
      <4>1. g = [n \in 0 .. m + 1 |-> g[n]]
        BY DEF g
      <4> QED BY <3>1, <4>1
    <3> QED BY <3>2 DEF IsFrom
  <2> QED BY <2>2, SMT
<1> HIDE DEF S
<1>3. \A m \in Nat : m \in S
  BY <1>1, <1>2, NatSetInduction
<1> QED BY <1>3 DEF S

\* Chain() is what that function returns.
LEMMA ChainFrom ==
    ASSUME NEW next, NEW b
    PROVE  \E f : IsFrom(next, BlockCount + 1, f) /\ Chain(next, b) = f[BlockCount + 1][b]
<1> DEFINE f == CHOOSE f : f = [n \in 0 .. BlockCount + 1 |->
            [x \in Blocks \cup {Nil} |->
                IF n = 0 \/ x = Nil THEN <<>> ELSE <<x>> \o f[n - 1][next[x]]]]
           g == CHOOSE g : IsFrom(next, BlockCount + 1, g)
<1>1. Chain(next, b) = f[BlockCount + 1][b]
  BY DEF Chain
<1>2. f = g
  BY DEF IsFrom, FromStep, Ends
<1>3. BlockCount + 1 \in Nat
  BY BlockCountAssumption, SMT
<1>4. IsFrom(next, BlockCount + 1, g)
  BY <1>3, FromExists
<1> QED BY <1>1, <1>2, <1>4

\* The list w is linked, from its first block on.
Linked(next, b, w) ==
    /\ w \in Seq(Blocks)
    /\ b = IF w = <<>> THEN Nil ELSE w[1]
    /\ \A i \in 1 .. Len(w) : next[w[i]] = IF i = Len(w) THEN Nil ELSE w[i + 1]

\* No block occurs twice.
Distinct(w) == \A i, j \in 1 .. Len(w) : w[i] = w[j] => i = j

\* Following the links from the first block of a well linked list gives the list,
\* when there are steps enough.
LEMMA FromIs ==
    ASSUME NEW next \in Nexts, NEW m \in Nat, NEW f, IsFrom(next, m, f)
    PROVE  \A n \in 0 .. m : \A w, b : Linked(next, b, w) /\ Len(w) <= n => f[n][b] = w
<1> DEFINE S == {n \in Nat : n <= m => \A w, b : Linked(next, b, w) /\ Len(w) <= n => f[n][b] = w}
<1>0. \A w : w \in Seq(Blocks) => Len(w) \in Nat
  BY SMT
<1>1. 0 \in S
  <2> SUFFICES ASSUME NEW w, NEW b, Linked(next, b, w), Len(w) <= 0 PROVE f[0][b] = w
    OBVIOUS
  <2>1. w = <<>> /\ b = Nil
    BY <1>0, EmptySeq, SMT DEF Linked
  <2>2. f[0] = FromStep(next, 0, f[0 - 1])
    BY SMT DEF IsFrom
  <2> QED BY <2>1, <2>2 DEF FromStep, Ends
<1>2. ASSUME NEW n \in Nat, n \in S PROVE n + 1 \in S
  <2> SUFFICES ASSUME n + 1 <= m, NEW w, NEW b, Linked(next, b, w), Len(w) <= n + 1
               PROVE  f[n + 1][b] = w
    BY SMT
  <2>0. \A v, c : Linked(next, c, v) /\ Len(v) <= n => f[n][c] = v
    BY <1>2, SMT
  <2> HIDE DEF S
  <2>1. f[n + 1] = FromStep(next, n + 1, f[n])
    BY SMT DEF IsFrom
  <2>2. CASE w = <<>>
    BY <2>1, <2>2 DEF FromStep, Ends, Linked
  <2>3. CASE w # <<>>
    <3>1. b = w[1] /\ b \in Blocks /\ w \in Seq(Blocks) /\ Len(w) \in Nat \ {0}
      BY <2>3, EmptySeq, SMT DEF Linked
    <3>2. Linked(next, next[b], Tail(w)) /\ Len(Tail(w)) <= n
      <4>1. Tail(w) \in Seq(Blocks) /\ Len(Tail(w)) = Len(w) - 1
        BY <2>3, <3>1, SMT
      <4>2. \A i \in 1 .. Len(w) - 1 : Tail(w)[i] = w[i + 1]
        BY <2>3, <3>1, SMT
      <4>3. \A i \in 1 .. Len(w) : next[w[i]] = IF i = Len(w) THEN Nil ELSE w[i + 1]
        BY DEF Linked
      <4>4. next[b] = IF 1 = Len(w) THEN Nil ELSE w[1 + 1]
        <5>1. 1 \in 1 .. Len(w)
          BY <3>1, SMT
        <5> QED BY <3>1, <4>3, <5>1
      <4>5. Tail(w) = <<>> <=> Len(w) = 1
        BY <3>1, <4>1, EmptySeq, SMT
      <4>6. Len(w) # 1 => Tail(w)[1] = w[1 + 1]
        <5>0. Len(w) \in Nat \ {0}
          BY <3>1
        <5>1. \A k \in Nat \ {0} : k # 1 => 1 \in 1 .. k - 1
          BY SMT
        <5> QED BY <4>2, <5>0, <5>1
      <4>7. next[b] = IF Tail(w) = <<>> THEN Nil ELSE Tail(w)[1]
        BY <4>4, <4>5, <4>6
      <4>8. ASSUME NEW i \in 1 .. Len(w) - 1
            PROVE  next[Tail(w)[i]] = IF i = Len(w) - 1 THEN Nil ELSE Tail(w)[i + 1]
        <5>1. i \in Int /\ i + 1 \in 1 .. Len(w) /\ Tail(w)[i] = w[i + 1]
          BY <3>1, <4>2, SMT
        <5>2. next[w[i + 1]] = IF i + 1 = Len(w) THEN Nil ELSE w[i + 1 + 1]
          BY <4>3, <5>1
        <5>3. i # Len(w) - 1 => Tail(w)[i + 1] = w[i + 1 + 1]
          BY <3>1, <4>2, SMT
        <5> QED BY <3>1, <5>1, <5>2, <5>3, SMT
      <4>9. Len(Tail(w)) <= n
        BY <3>1, <4>1, SMT
      <4> QED BY <4>1, <4>7, <4>8, <4>9 DEF Linked
    <3>3. f[n][next[b]] = Tail(w)
      BY <2>0, <3>2
    <3>4. f[n + 1][b] = <<b>> \o Tail(w)
      <4>1. b \in Ends /\ b # Nil /\ n + 1 # 0
        BY <3>1, BlockCountAssumption, SMT DEF Ends, Blocks, Nil
      <4> QED BY <2>1, <4>1, <3>3 DEF FromStep
    <3>5. <<b>> \o Tail(w) = w
      BY <2>3, <3>1, SMT
    <3> QED BY <3>4, <3>5
  <2> QED BY <2>2, <2>3
<1> HIDE DEF S
<1>3. \A n \in Nat : n \in S
  BY <1>1, <1>2, NatSetInduction
<1> QED BY <1>3, SMT DEF S

\* A list in which no block occurs twice has at most _blockcount blocks.
LEMMA DistinctFits ==
    ASSUME NEW w \in Seq(Blocks), Distinct(w)
    PROVE  Len(w) <= BlockCount
<1>1. BlockCount \in Nat
  BY BlockCountAssumption
<1>2. IsFiniteSet(Blocks) /\ Cardinality(Blocks) = BlockCount
  BY <1>1, BlockCountAssumption, FS_Interval, SMT DEF Blocks
<1>3. Len(w) \in Nat /\ IsFiniteSet(1 .. Len(w)) /\ Cardinality(1 .. Len(w)) = Len(w)
  <2>1. Len(w) \in Nat
    BY SMT
  <2> QED BY <2>1, FS_Interval, SMT
<1>4. w \in Injection(1 .. Len(w), Blocks)
  BY SMT DEF Distinct, Injection, IsInjective
<1> QED BY <1>1, <1>2, <1>3, <1>4, FS_Injection, SMT

\* Chain() finds a well linked list: its bound on the number of steps is enough.
LEMMA ChainIs ==
    ASSUME NEW next \in Nexts, NEW w, NEW b, Linked(next, b, w), Distinct(w)
    PROVE  Chain(next, b) = w
<1>1. PICK f : IsFrom(next, BlockCount + 1, f) /\ Chain(next, b) = f[BlockCount + 1][b]
  BY ChainFrom
<1>2. w \in Seq(Blocks) /\ Len(w) <= BlockCount
  BY DistinctFits DEF Linked
<1>3. Len(w) <= BlockCount + 1 /\ BlockCount + 1 \in Nat /\ Len(w) \in Nat
  BY <1>2, BlockCountAssumption, SMT
<1> QED BY <1>1, <1>3, FromIs, SMT
-----------------------------------------------------------------------------
\* The three queues and the free stack; L.queue[q] and L.free say where they begin.
Lists == Queues \cup {"free"}
Rng(w) == {w[i] : i \in 1 .. Len(w)}
First(L, q) == IF q = "free" THEN L.free ELSE L.queue[q].oldest
Final(w) == IF w = <<>> THEN Nil ELSE w[Len(w)]
Links == [next : Nexts, queue : [Queues -> [oldest : Ends, youngest : Ends]],
          free : Ends, count : Nat]

\* Every block is loose (one of C) or in one list, once.
Apart(C, W) ==
    /\ \A q \in Lists : Distinct(W[q]) /\ C \cap Rng(W[q]) = {}
    /\ \A p, q \in Lists : p # q => Rng(W[p]) \cap Rng(W[q]) = {}
    /\ \A b \in Blocks : b \in C \/ \E q \in Lists : b \in Rng(W[q])

\* The lists L are those of W, and the blocks of C are loose.
Layout(L, C, W) ==
    /\ L \in Links /\ C \subseteq Blocks /\ W \in [Lists -> Seq(Blocks)]
    /\ \A q \in Lists : Linked(L.next, First(L, q), W[q])
    /\ \A q \in Queues : L.queue[q].youngest = Final(W[q])
    /\ L.count = Len(W["free"])
    /\ \A b \in C : L.next[b] = Nil
    /\ Apart(C, W)

\* The blocks of a list; the empty list is the one that has none.
LEMMA RngInBlocks ==
    ASSUME NEW w \in Seq(Blocks)
    PROVE  /\ Rng(w) \subseteq Blocks /\ Len(w) \in Nat
           /\ \A i \in 1 .. Len(w) : w[i] \in Rng(w) /\ w[i] \in Blocks
           /\ w = <<>> <=> Len(w) = 0
           /\ w = <<>> <=> Rng(w) = {}
<1>1. Len(w) \in Nat /\ \A i \in 1 .. Len(w) : w[i] \in Blocks
  BY SMT
<1>2. w = <<>> <=> Len(w) = 0
  BY EmptySeq
<1>3. Len(w) # 0 => 1 \in 1 .. Len(w)
  BY <1>1, SMT
<1>4. w = <<>> <=> Rng(w) = {}
  <2>1. CASE Len(w) = 0
    <3>1. 1 .. Len(w) = {}
      BY <2>1, SMT
    <3> QED BY <2>1, <3>1, <1>2 DEF Rng
  <2>2. CASE Len(w) # 0
    BY <2>2, <1>2, <1>3 DEF Rng
  <2> QED BY <2>1, <2>2
<1> QED BY <1>1, <1>2, <1>4 DEF Rng

\* In a layout, following the links of a queue or of the free stack gives its list.
LEMMA ListIs ==
    ASSUME NEW L, NEW C, NEW W, Layout(L, C, W)
    PROVE  /\ \A q \in Queues : ListOf(L, q) = W[q]
           /\ FreeStack(L) = W["free"]
<1>1. L.next \in Nexts
  BY DEF Layout, Links
<1>2. ASSUME NEW q \in Lists PROVE Chain(L.next, First(L, q)) = W[q]
  BY <1>1, ChainIs DEF Layout, Apart
<1>3. ASSUME NEW q \in Queues PROVE ListOf(L, q) = W[q]
  <2>1. q \in Lists /\ First(L, q) = L.queue[q].oldest
    BY DEF Lists, Queues, First
  <2> QED BY <1>2, <2>1 DEF ListOf
<1>4. FreeStack(L) = W["free"]
  <2>1. "free" \in Lists /\ First(L, "free") = L.free
    BY DEF Lists, First
  <2> QED BY <1>2, <2>1 DEF FreeStack
<1> QED BY <1>3, <1>4

\* Of the lists L, that of q becomes v, made of its blocks and of loose ones.
Relinks(L, C, w, q, L2, C2, v) ==
    /\ L2 \in Links /\ C2 \subseteq Blocks /\ v \in Seq(Blocks)
    /\ \A p \in Lists : p # q => First(L2, p) = First(L, p)
    /\ \A p \in Queues : p # q => L2.queue[p].youngest = L.queue[p].youngest
    /\ q # "free" => L2.count = L.count /\ L2.queue[q].youngest = Final(v)
    /\ q = "free" => L2.count = Len(v)
    /\ Linked(L2.next, First(L2, q), v) /\ Distinct(v)
    /\ Rng(v) \cup C2 = Rng(w) \cup C /\ Rng(v) \cap C2 = {}
    /\ \A b \in C2 : L2.next[b] = Nil
    /\ \A b \in Blocks : b \in Rng(w) \cup C \/ L2.next[b] = L.next[b]

\* Relinking one list and leaving the others alone keeps the layout.
LEMMA Relink ==
    ASSUME NEW L, NEW C, NEW W, Layout(L, C, W), NEW q \in Lists,
           NEW L2, NEW C2, NEW v, Relinks(L, C, W[q], q, L2, C2, v)
    PROVE  Layout(L2, C2, [W EXCEPT ![q] = v])
<1> USE DEF Relinks
<1> DEFINE V == [W EXCEPT ![q] = v]
<1>1. W \in [Lists -> Seq(Blocks)]
  BY DEF Layout
<1>2. V \in [Lists -> Seq(Blocks)] /\ V[q] = v /\ \A p \in Lists : p # q => V[p] = W[p]
  BY <1>1
<1> HIDE DEF V
<1>3. \A p \in Lists : p # q => Rng(W[p]) \cap (Rng(W[q]) \cup C) = {}
  BY DEF Layout, Apart
<1>4. Apart(C2, V)
  <2>1. \A p \in Lists : Distinct(V[p]) /\ C2 \cap Rng(V[p]) = {}
    BY <1>2, <1>3 DEF Layout, Apart
  <2>2. \A p, r \in Lists : p # r => Rng(V[p]) \cap Rng(V[r]) = {}
    <3> SUFFICES ASSUME NEW p \in Lists, NEW r \in Lists, p # r
                 PROVE  Rng(V[p]) \cap Rng(V[r]) = {}
      OBVIOUS
    <3>1. CASE p = q BY <3>1, <1>2, <1>3
    <3>2. CASE r = q BY <3>2, <1>2, <1>3
    <3>3. CASE p # q /\ r # q BY <3>3, <1>2 DEF Layout, Apart
    <3> QED BY <3>1, <3>2, <3>3
  <2>3. \A b \in Blocks : b \in C2 \/ \E p \in Lists : b \in Rng(V[p])
    <3> SUFFICES ASSUME NEW b \in Blocks, b \notin C2 PROVE \E p \in Lists : b \in Rng(V[p])
      OBVIOUS
    <3>1. CASE b \in Rng(W[q]) \cup C BY <3>1, <1>2
    <3>2. CASE b \notin Rng(W[q]) \cup C
      <4>1. PICK p \in Lists : b \in Rng(W[p])
        BY <3>2 DEF Layout, Apart
      <4> QED BY <3>2, <4>1, <1>2
    <3> QED BY <3>1, <3>2
  <2> QED BY <2>1, <2>2, <2>3 DEF Apart
<1>5. ASSUME NEW p \in Lists PROVE Linked(L2.next, First(L2, p), V[p])
  <2>1. CASE p = q BY <2>1, <1>2
  <2>2. CASE p # q
    <3>1. Linked(L.next, First(L, p), W[p]) /\ First(L2, p) = First(L, p) /\ V[p] = W[p]
      BY <2>2, <1>2 DEF Layout
    <3>2. \A i \in 1 .. Len(W[p]) : L2.next[W[p][i]] = L.next[W[p][i]]
      BY <2>2, <1>1, <1>3, RngInBlocks
    <3> QED BY <3>1, <3>2, SMT DEF Linked
  <2> QED BY <2>1, <2>2
<1>6. \A p \in Queues : p \in Lists /\ p # "free"
  BY DEF Lists, Queues
<1>7. \A p \in Queues : L2.queue[p].youngest = Final(V[p])
  BY <1>2, <1>6 DEF Layout
<1>8. L2.count = Len(V["free"])
  <2>1. "free" \in Lists
    BY DEF Lists
  <2>2. CASE q = "free" BY <2>2, <1>2
  <2>3. CASE q # "free" BY <2>1, <2>3, <1>2 DEF Layout
  <2> QED BY <2>2, <2>3
<1>9. Layout(L2, C2, V)
  BY <1>2, <1>4, <1>5, <1>7, <1>8 DEF Layout
<1> QED BY <1>9 DEF V

\* enqueue_block(), field by field.
LEMMA EnqueueIs ==
    ASSUME NEW L \in Links, NEW q \in Queues, NEW b \in Blocks, NEW y, y = L.queue[q].youngest,
           NEW L2, L2 = enqueue_block(L, q, b)
    PROVE  L2 =
             [next  |-> IF y # Nil THEN [L.next EXCEPT ![y] = b] ELSE L.next,
              queue |-> [L.queue EXCEPT ![q] = [oldest |-> IF y # Nil THEN L.queue[q].oldest ELSE b,
                                                youngest |-> b]],
              free |-> L.free, count |-> L.count]
BY DEF enqueue_block, Links

\* dequeue_seqno(), field by field: for the oldest block, and for another one.
LEMMA DequeueIs ==
    ASSUME NEW L \in Links, NEW q \in Queues, NEW w \in Seq(Blocks), w = ListOf(L, q),
           NEW i \in 1 .. Len(w), NEW y, y = L.queue[q].youngest, NEW L2, L2 = dequeue(L, q, i)
    PROVE  /\ i = 1 => L2 =
             [next  |-> [L.next EXCEPT ![w[i]] = Nil],
              queue |-> [L.queue EXCEPT ![q] =
                            IF y = L.queue[q].oldest THEN Empty
                            ELSE [oldest |-> L.next[w[i]], youngest |-> y]],
              free |-> L.free, count |-> L.count]
           /\ i # 1 => L2 =
             [next  |-> [L.next EXCEPT ![w[i - 1]] = L.next[w[i]], ![w[i]] = Nil],
              queue |-> [L.queue EXCEPT ![q] =
                            [oldest |-> L.queue[q].oldest, youngest |-> IF y = w[i] THEN w[i - 1] ELSE y]],
              free |-> L.free, count |-> L.count]
<1>0. L.queue[q] \in [oldest : Ends, youngest : Ends]
  BY DEF Links
<1>1. CASE i = 1
  <2> DEFINE r == IF y = L.queue[q].oldest THEN Empty
                  ELSE [oldest |-> L.next[w[i]], youngest |-> y]
  <2>1. L2 = [L EXCEPT !.queue[q] = IF y = L.queue[q].oldest THEN Empty
                                    ELSE [L.queue[q] EXCEPT !.oldest = L.next[w[i]]],
                       !.next[w[i]] = Nil]
    BY <1>1 DEF dequeue
  <2>2. L.queue[q].oldest # y => [L.queue[q] EXCEPT !.oldest = L.next[w[i]]] = r
    BY <1>0, SMT
  <2>3. L2 = [L EXCEPT !.queue[q] = r, !.next[w[i]] = Nil]
    BY <2>1, <2>2
  <2> HIDE DEF r
  <2>4. L2 = [next |-> [L.next EXCEPT ![w[i]] = Nil], queue |-> [L.queue EXCEPT ![q] = r],
              free |-> L.free, count |-> L.count]
    BY <2>3 DEF Links
  <2> QED BY <1>1, <2>4 DEF r
<1>2. CASE i # 1
  <2> DEFINE r == [oldest |-> L.queue[q].oldest, youngest |-> IF y = w[i] THEN w[i - 1] ELSE y]
  <2>1. L2 = [L EXCEPT !.queue[q].youngest = IF y = w[i] THEN w[i - 1] ELSE y,
                       !.next = [L.next EXCEPT ![w[i - 1]] = L.next[w[i]], ![w[i]] = Nil]]
    BY <1>2 DEF dequeue
  <2>2. [L.queue[q] EXCEPT !.youngest = IF y = w[i] THEN w[i - 1] ELSE y] = r
    BY <1>0, SMT
  <2>3. L2 = [L EXCEPT !.queue[q] = r,
                       !.next = [L.next EXCEPT ![w[i - 1]] = L.next[w[i]], ![w[i]] = Nil]]
    BY <2>1, <2>2
  <2> HIDE DEF r
  <2>4. L2 = [next |-> [L.next EXCEPT ![w[i - 1]] = L.next[w[i]], ![w[i]] = Nil],
              queue |-> [L.queue EXCEPT ![q] = r], free |-> L.free, count |-> L.count]
    BY <2>3 DEF Links
  <2> QED BY <1>2, <2>4 DEF r
<1> QED BY <1>1, <1>2

\* What free_seqno_from_queue() does to the free stack, field by field.
LEMMA PushFreeIs ==
    ASSUME NEW L \in Links, NEW b \in Blocks, NEW L2, L2 = PushFree(L, b)
    PROVE  L2 = [next |-> [L.next EXCEPT ![b] = L.free], queue |-> L.queue,
                             free |-> b, count |-> L.count + 1]
BY DEF PushFree, Links

\* What next_block() does to the free stack, field by field.
LEMMA PopFreeIs ==
    ASSUME NEW L \in Links, NEW L2, L2 = PopFree(L)
    PROVE  L2 = [next |-> [L.next EXCEPT ![L.free] = Nil], queue |-> L.queue,
                         free |-> L.next[L.free], count |-> L.count - 1]
BY DEF PopFree, Links

\* enqueue_block() puts a loose block at the end of its queue.
LEMMA EnqueueLayout ==
    ASSUME NEW L, NEW C, NEW W, Layout(L, C, W), NEW q \in Queues, NEW b \in C
    PROVE  Layout(enqueue_block(L, q, b), C \ {b}, [W EXCEPT ![q] = Append(W[q], b)])
<1> DEFINE w == W[q]
           v == Append(w, b)
           y == L.queue[q].youngest
           L2 == enqueue_block(L, q, b)
<1>0. q \in Lists /\ q # "free" /\ Nil \notin Blocks
  BY SMT DEF Lists, Queues, Nil, Blocks
<1>1. w \in Seq(Blocks) /\ b \in Blocks /\ L \in Links /\ C \subseteq Blocks
  BY <1>0 DEF Layout
<1>2. /\ L.next \in Nexts /\ L.next[b] = Nil /\ b \notin Rng(w) /\ Distinct(w)
      /\ y = Final(w) /\ Linked(L.next, L.queue[q].oldest, w)
  BY <1>0, <1>1 DEF Layout, Links, Apart, First
<1>3. /\ v \in Seq(Blocks) /\ Len(v) = Len(w) + 1 /\ v[Len(w) + 1] = b
      /\ Len(w) \in Nat /\ \A i \in 1 .. Len(w) : v[i] = w[i]
  BY <1>1, SMT
<1>4. /\ L2.next = IF y # Nil THEN [L.next EXCEPT ![y] = b] ELSE L.next
      /\ L2.queue[q].oldest = IF y # Nil THEN L.queue[q].oldest ELSE b
      /\ L2.queue[q].youngest = b
      /\ \A p \in Queues : p # q => L2.queue[p] = L.queue[p]
      /\ L2.free = L.free /\ L2.count = L.count
      /\ L2 \in Links
  <2> DEFINE N == IF y # Nil THEN [L.next EXCEPT ![y] = b] ELSE L.next
             Q == [L.queue EXCEPT ![q] = [oldest |-> IF y # Nil THEN L.queue[q].oldest ELSE b,
                                          youngest |-> b]]
  <2>1. L2 = [next |-> N, queue |-> Q, free |-> L.free, count |-> L.count]
    BY <1>1, EnqueueIs, SMT
  <2>2. Q \in [Queues -> [oldest : Ends, youngest : Ends]] /\ N \in Nexts
    BY <1>1 DEF Links, Nexts, Ends
  <2> QED BY <1>1, <2>1, <2>2, SMT DEF Links
<1> HIDE DEF L2, v
<1>5. Final(v) = b
  BY <1>3, EmptySeq, SMT DEF Final
<1>6. Rng(v) = Rng(w) \cup {b}
  BY <1>3, SMT DEF Rng
<1>7. Distinct(v)
  <2> SUFFICES ASSUME NEW i \in 1 .. Len(v), NEW j \in 1 .. Len(v), v[i] = v[j]
               PROVE  i = j
    BY DEF Distinct
  <2>1. CASE i \in 1 .. Len(w) /\ j \in 1 .. Len(w)
    BY <2>1, <1>2, <1>3 DEF Distinct
  <2>2. CASE i \in 1 .. Len(w) /\ j = Len(w) + 1
    BY <2>2, <1>2, <1>3 DEF Rng
  <2>3. CASE j \in 1 .. Len(w) /\ i = Len(w) + 1
    BY <2>3, <1>2, <1>3 DEF Rng
  <2>4. CASE i = Len(w) + 1 /\ j = Len(w) + 1
    BY <2>4
  <2> QED BY <1>3, <2>1, <2>2, <2>3, <2>4, SMT
<1>8. Linked(L2.next, L2.queue[q].oldest, v) /\ \A x \in Blocks : x # y => L2.next[x] = L.next[x]
  <2>1. CASE w = <<>>
    <3>1. y = Nil /\ Len(w) = 0 /\ v # <<>>
      BY <2>1, <1>2, <1>3, EmptySeq, SMTT(20) DEF Final
    <3>2. L2.next = L.next /\ L2.queue[q].oldest = b
      BY <3>1, <1>4
    <3>3. v[1] = b /\ Len(v) = 1
      BY <3>1, <1>3, SMT
    <3> QED BY <3>1, <3>2, <3>3, <1>2, <1>3, SMT DEF Linked
  <2>2. CASE w # <<>>
    <3>1. /\ Len(w) \in 1 .. Len(w) /\ y = w[Len(w)] /\ y \in Blocks /\ y # Nil /\ v # <<>>
          /\ 1 \in 1 .. Len(w) /\ v[1] = w[1]
      BY <2>2, <1>0, <1>1, <1>2, <1>3, EmptySeq, SMT DEF Final
    <3>2. L2.next = [L.next EXCEPT ![y] = b] /\ L2.queue[q].oldest = L.queue[q].oldest
      BY <3>1, <1>4
    <3>3. L2.next[y] = b /\ \A x \in Blocks : x # y => L2.next[x] = L.next[x]
      BY <3>1, <3>2, <1>2 DEF Nexts
    <3>4. ASSUME NEW i \in 1 .. Len(v)
          PROVE  L2.next[v[i]] = IF i = Len(v) THEN Nil ELSE v[i + 1]
      <4>1. CASE i = Len(w) + 1
        <5>1. y # b
          BY <3>1, <1>2 DEF Rng
        <5> QED BY <4>1, <5>1, <1>1, <1>2, <1>3, <3>3
      <4>2. CASE i = Len(w)
        BY <4>2, <1>3, <3>1, <3>3, SMT
      <4>3. CASE i \in 1 .. Len(w) - 1
        <5>1. i \in 1 .. Len(w) /\ i + 1 \in 1 .. Len(w) /\ i # Len(w) /\ i # Len(v)
          BY <4>3, <1>3, SMT
        <5>2. w[i] # y
          BY <5>1, <3>1, <1>2 DEF Distinct
        <5>4. w[i] \in Blocks
          BY <5>1, <1>1, SMT
        <5>3. L.next[w[i]] = w[i + 1]
          BY <5>1, <1>2 DEF Linked
        <5> QED BY <5>1, <5>2, <5>3, <5>4, <3>3, <1>3
      <4> QED BY <4>1, <4>2, <4>3, <1>3, SMT
    <3> QED BY <3>1, <3>2, <3>3, <3>4, <1>2, <1>3, SMT DEF Linked
  <2> QED BY <2>1, <2>2
<1>9. y \in Rng(w) \cup {Nil}
  BY <1>2, <1>3, EmptySeq, SMT DEF Final, Rng
<1>10. \A x \in C \ {b} : L2.next[x] = Nil
  <2>1. \A x \in C : x \in Blocks /\ x \notin Rng(w) /\ L.next[x] = Nil
    BY <1>0, <1>1 DEF Layout, Apart
  <2> QED BY <2>1, <1>0, <1>8, <1>9
<1>11. \A p \in Lists : p # q => First(L2, p) = First(L, p)
  BY <1>4 DEF First, Lists
<1>12. First(L2, q) = L2.queue[q].oldest
  BY <1>0 DEF First
<1>13. Rng(v) \cup (C \ {b}) = Rng(w) \cup C /\ Rng(v) \cap (C \ {b}) = {}
  <2>1. C \cap Rng(w) = {}
    BY <1>0 DEF Layout, Apart
  <2> QED BY <2>1, <1>6
<1>14. \A x \in Blocks : x \in Rng(W[q]) \cup C \/ L2.next[x] = L.next[x]
  BY <1>0, <1>8, <1>9
<1>15. Relinks(L, C, w, q, L2, C \ {b}, v)
  BY <1>0, <1>1, <1>3, <1>4, <1>5, <1>7, <1>8, <1>10, <1>11, <1>12, <1>13, <1>14 DEF Relinks
<1> QED
  <2> HIDE DEF y
  <2> QED BY <1>0, <1>15, Relink DEF L2, v

\* w without its i-th block.
Cut(w, i) == [j \in 1 .. Len(w) - 1 |-> IF j < i THEN w[j] ELSE w[j + 1]]

\* A list without one of its blocks.
LEMMA CutIs ==
    ASSUME NEW w \in Seq(Blocks), Distinct(w), NEW i \in 1 .. Len(w), NEW v, v = Cut(w, i)
    PROVE  /\ v \in Seq(Blocks) /\ Len(v) = Len(w) - 1 /\ Len(v) \in Nat
           /\ \A j \in 1 .. Len(w) - 1 : v[j] = IF j < i THEN w[j] ELSE w[j + 1]
           /\ Distinct(v) /\ Rng(v) = Rng(w) \ {w[i]}
<1>1. Len(w) \in Nat /\ Len(w) - 1 \in Nat
  <2>1. Len(w) \in Nat
    BY SMT
  <2> QED BY <2>1, SMT
<1>2. \A j \in 1 .. Len(w) - 1 : v[j] = IF j < i THEN w[j] ELSE w[j + 1]
  BY DEF Cut
<1>3. v \in [1 .. Len(w) - 1 -> Blocks]
  <2>1. \A j \in 1 .. Len(w) - 1 : j \in 1 .. Len(w) /\ j + 1 \in 1 .. Len(w)
    BY <1>1, SMT
  <2>2. \A j \in 1 .. Len(w) : w[j] \in Blocks
    BY SMT
  <2> QED BY <2>1, <2>2 DEF Cut
<1>4. v \in Seq(Blocks) /\ Len(v) = Len(w) - 1
  BY <1>1, <1>3, SMT
<1>5. Distinct(v)
  <2> SUFFICES ASSUME NEW j \in 1 .. Len(w) - 1, NEW k \in 1 .. Len(w) - 1, v[j] = v[k]
               PROVE  j = k
    BY <1>4 DEF Distinct
  <2>1. /\ j \in 1 .. Len(w) /\ j + 1 \in 1 .. Len(w)
        /\ k \in 1 .. Len(w) /\ k + 1 \in 1 .. Len(w)
    BY <1>1, SMT
  <2> QED BY <1>1, <1>2, <2>1, SMT DEF Distinct
<1>6. ASSUME NEW x \in Rng(v) PROVE x \in Rng(w) \ {w[i]}
  <2>1. PICK j \in 1 .. Len(w) - 1 : v[j] = x
    BY <1>4 DEF Rng
  <2>2. PICK k \in 1 .. Len(w) : k = IF j < i THEN j ELSE j + 1
    BY <1>1, SMT
  <2>3. x = w[k] /\ k # i
    BY <1>1, <1>2, <2>1, <2>2, SMT
  <2> QED BY <2>3 DEF Rng, Distinct
<1>7. ASSUME NEW x \in Rng(w), x # w[i] PROVE x \in Rng(v)
  <2>1. PICK k \in 1 .. Len(w) : w[k] = x
    BY DEF Rng
  <2>2. k # i
    BY <1>7, <2>1
  <2>3. PICK j \in 1 .. Len(w) - 1 : k = IF j < i THEN j ELSE j + 1
    <3>1. CASE k < i BY <3>1, <1>1, SMT
    <3>2. CASE k > i
      <4>1. k - 1 \in 1 .. Len(w) - 1 /\ ~(k - 1 < i) /\ k = (k - 1) + 1
        BY <3>2, <1>1, SMT
      <4> QED BY <4>1
    <3> QED BY <2>2, <3>1, <3>2, SMT
  <2>4. v[j] = x
    BY <1>2, <2>1, <2>3
  <2> QED BY <1>4, <2>4 DEF Rng
<1> QED BY <1>1, <1>2, <1>4, <1>5, <1>6, <1>7

\* Taking a block out of a linked list leaves a linked list.
LEMMA Unlink ==
    ASSUME NEW next \in Nexts, NEW first, NEW w, Linked(next, first, w), Distinct(w),
           NEW i \in 1 .. Len(w), NEW next2,
           \A j \in 1 .. Len(w) : j # i /\ j # i - 1 => next2[w[j]] = next[w[j]],
           i > 1 => next2[w[i - 1]] = next[w[i]]
    PROVE  Linked(next2, IF i = 1 THEN next[w[1]] ELSE first, Cut(w, i))
<1>v. PICK v : v = Cut(w, i)
  OBVIOUS
<1>1. /\ w \in Seq(Blocks) /\ Len(w) \in Nat \ {0} /\ w # <<>>
      /\ first = w[1]
      /\ \A j \in 1 .. Len(w) : next[w[j]] = IF j = Len(w) THEN Nil ELSE w[j + 1]
  <2>1. w \in Seq(Blocks)
    BY DEF Linked
  <2>2. Len(w) \in Nat \ {0}
    BY <2>1, SMT
  <2> QED BY <2>1, <2>2, EmptySeq DEF Linked
<1>2. /\ v \in Seq(Blocks) /\ Len(v) = Len(w) - 1
      /\ \A j \in 1 .. Len(w) - 1 : v[j] = IF j < i THEN w[j] ELSE w[j + 1]
  BY <1>1, <1>v, CutIs, SMT
<1>3. v = <<>> <=> Len(w) = 1
  <2>1. v # <<>> => Len(v) \in Nat \ {0}
    BY <1>2, EmptySeq
  <2>2. v = <<>> => Len(v) = 0
    BY EmptySeq
  <2> QED BY <1>1, <1>2, <2>1, <2>2, SMT
<1>4. ASSUME NEW j \in 1 .. Len(w) - 1
      PROVE  next2[v[j]] = IF j = Len(w) - 1 THEN Nil ELSE v[j + 1]
  <2>1. /\ j \in 1 .. Len(w) /\ j + 1 \in 1 .. Len(w) /\ j \in Int /\ i \in Int
    BY <1>1, SMT
  <2>2. j # Len(w) - 1 => v[j + 1] = IF j + 1 < i THEN w[j + 1] ELSE w[j + 1 + 1]
    BY <1>1, <1>2, SMT
  <2>3. CASE j < i - 1
    <3>1. v[j] = w[j] /\ next2[w[j]] = next[w[j]] /\ j # Len(w) - 1 /\ j # Len(w)
      BY <2>1, <2>3, <1>1, <1>2, SMT
    <3> QED BY <3>1, <2>1, <2>2, <2>3, <1>1, SMT
  <2>4. CASE j = i - 1
    <3>1. v[j] = w[j] /\ next2[w[j]] = next[w[i]] /\ i = j + 1
      BY <2>1, <2>4, <1>1, <1>2, SMT
    <3>2. next[w[i]] = IF i = Len(w) THEN Nil ELSE w[i + 1]
      BY <1>1
    <3> QED BY <3>1, <3>2, <2>1, <2>2, <2>4, <1>1, SMT
  <2>5. CASE j >= i
    <3>1. v[j] = w[j + 1] /\ next2[w[j + 1]] = next[w[j + 1]]
      BY <2>1, <2>5, <1>1, <1>2, SMT
    <3>2. next[w[j + 1]] = IF j + 1 = Len(w) THEN Nil ELSE w[j + 1 + 1]
      BY <2>1, <1>1
    <3> QED BY <3>1, <3>2, <2>1, <2>2, <2>5, <1>1, SMT
  <2> QED BY <2>1, <2>3, <2>4, <2>5, SMT
<1>5. (IF i = 1 THEN next[w[1]] ELSE first) = IF v = <<>> THEN Nil ELSE v[1]
  <2>1. next[w[1]] = IF 1 = Len(w) THEN Nil ELSE w[1 + 1]
    <3>1. 1 \in 1 .. Len(w)
      BY <1>1, SMT
    <3> QED BY <1>1, <3>1
  <2>2. Len(w) # 1 => v[1] = IF 1 < i THEN w[1] ELSE w[1 + 1]
    <3>1. \A k \in Nat \ {0} : k # 1 => 1 \in 1 .. k - 1
      BY SMT
    <3> QED BY <1>1, <1>2, <3>1
  <2>3. i # 1 => 1 < i /\ Len(w) # 1
    BY <1>1, SMT
  <2> QED BY <1>1, <1>3, <2>1, <2>2, <2>3, SMT
<1>6. Linked(next2, IF i = 1 THEN next[w[1]] ELSE first, v)
  BY <1>2, <1>4, <1>5 DEF Linked
<1> QED BY <1>v, <1>6

\* What holds of one list of a layout.
LEMMA OfLayout ==
    ASSUME NEW L, NEW C, NEW W, Layout(L, C, W), NEW q \in Lists, NEW w, w = W[q]
    PROVE  /\ L \in Links /\ L.next \in Nexts /\ C \subseteq Blocks
           /\ w \in Seq(Blocks) /\ Len(w) \in Nat /\ Distinct(w) /\ C \cap Rng(w) = {}
           /\ Linked(L.next, First(L, q), w) /\ (w = <<>> <=> Len(w) = 0)
           /\ \A i \in 1 .. Len(w) : w[i] \in Blocks /\ w[i] \in Rng(w)
           /\ \A b \in C : L.next[b] = Nil
           /\ Nil \notin Blocks /\ Rng(w) \subseteq Blocks
<1>1. w \in Seq(Blocks) /\ L \in Links
  BY DEF Layout
<1>2. Nil \notin Blocks
  BY SMT DEF Nil, Blocks
<1> QED BY <1>1, <1>2, RngInBlocks DEF Layout, Links, Apart

\* dequeue_seqno() takes the block out of its queue, wherever it is, and leaves it loose.
LEMMA DequeueLayout ==
    ASSUME NEW L, NEW C, NEW W, Layout(L, C, W), NEW q \in Queues, NEW i \in 1 .. Len(W[q])
    PROVE  Layout(dequeue(L, q, i), C \cup {W[q][i]}, [W EXCEPT ![q] = Cut(W[q], i)])
<1>w. PICK w : w = W[q]
  OBVIOUS
<1>y. PICK y : y = L.queue[q].youngest
  OBVIOUS
<1>0. q \in Lists /\ q # "free" /\ i \in 1 .. Len(w)
  BY <1>w DEF Lists, Queues
<1>1. /\ L \in Links /\ L.next \in Nexts /\ C \subseteq Blocks
      /\ w \in Seq(Blocks) /\ Len(w) \in Nat \ {0} /\ Distinct(w) /\ C \cap Rng(w) = {}
      /\ Linked(L.next, First(L, q), w)
      /\ \A j \in 1 .. Len(w) : w[j] \in Blocks /\ w[j] \in Rng(w)
      /\ \A b \in C : L.next[b] = Nil
      /\ Nil \notin Blocks /\ Rng(w) \subseteq Blocks
  <2>1. Len(w) \in Nat
    BY <1>w, <1>0, OfLayout
  <2>2. Len(w) # 0
    BY <2>1, <1>0, SMT
  <2> QED BY <2>1, <2>2, <1>w, <1>0, OfLayout, SMT
<1>2. y = w[Len(w)] /\ L.queue[q].oldest = w[1] /\ First(L, q) = L.queue[q].oldest
  <2>1. w # <<>>
    BY <1>1, EmptySeq
  <2> QED BY <1>w, <1>y, <1>0, <1>1, <2>1 DEF Layout, Final, First, Linked
<1>3. PICK v : v = Cut(w, i)
  OBVIOUS
<1>4. /\ v \in Seq(Blocks) /\ Len(v) = Len(w) - 1 /\ Len(v) \in Nat
      /\ \A j \in 1 .. Len(w) - 1 : v[j] = IF j < i THEN w[j] ELSE w[j + 1]
      /\ Distinct(v) /\ Rng(v) = Rng(w) \ {w[i]}
  <2>1. w \in Seq(Blocks) /\ Distinct(w)
    BY <1>1
  <2> QED BY <2>1, <1>0, <1>3, CutIs, SMTT(60)
<1>5. PICK L2 : L2 = dequeue(L, q, i)
  OBVIOUS
<1>6. w = ListOf(L, q)
  BY <1>w, ListIs
<1>7. /\ i = 1 => L2 =
             [next  |-> [L.next EXCEPT ![w[i]] = Nil],
              queue |-> [L.queue EXCEPT ![q] =
                            IF y = L.queue[q].oldest THEN Empty
                            ELSE [oldest |-> L.next[w[i]], youngest |-> y]],
              free |-> L.free, count |-> L.count]
      /\ i # 1 => L2 =
             [next  |-> [L.next EXCEPT ![w[i - 1]] = L.next[w[i]], ![w[i]] = Nil],
              queue |-> [L.queue EXCEPT ![q] =
                            [oldest |-> L.queue[q].oldest, youngest |-> IF y = w[i] THEN w[i - 1] ELSE y]],
              free |-> L.free, count |-> L.count]
  BY <1>0, <1>y, <1>1, <1>5, <1>6, DequeueIs, SMT
<1>8. PICK o : o = IF i = 1 THEN L.next[w[1]] ELSE w[1]
  OBVIOUS
<1>9. y = w[i] <=> i = Len(w)
  BY <1>0, <1>1, <1>2, SMT DEF Distinct
<1>10. o = (IF v = <<>> THEN Nil ELSE v[1]) /\ (v = <<>> => i = 1)
  <2>1. v = <<>> <=> Len(w) = 1
    BY <1>1, <1>4, EmptySeq, SMT
  <2>2. L.next[w[1]] = IF 1 = Len(w) THEN Nil ELSE w[1 + 1]
    <3>1. 1 \in 1 .. Len(w)
      BY <1>1, SMT
    <3> QED BY <1>1, <3>1 DEF Linked
  <2>3. Len(w) # 1 => v[1] = IF 1 < i THEN w[1] ELSE w[1 + 1]
    <3>1. \A k \in Nat \ {0} : k # 1 => 1 \in 1 .. k - 1
      BY SMT
    <3> QED BY <1>1, <1>4, <3>1
  <2>4. i # 1 => 1 < i /\ Len(w) # 1
    BY <1>0, <1>1, SMT
  <2>5. i = 1 => ~(1 < i)
    BY <1>0, SMT
  <2> QED BY <1>8, <2>1, <2>2, <2>3, <2>4, <2>5
<1>11. /\ L2.next[w[i]] = Nil /\ (i > 1 => L2.next[w[i - 1]] = L.next[w[i]])
       /\ \A b \in Blocks : b # w[i] /\ (i > 1 => b # w[i - 1]) => L2.next[b] = L.next[b]
       /\ L2.next \in Nexts
  <2>1. CASE i = 1
    BY <2>1, <1>0, <1>1, <1>7, SMT DEF Nexts, Ends
  <2>2. CASE i # 1
    <3>1. i - 1 \in 1 .. Len(w) /\ i > 1 /\ i - 1 # i
      BY <2>2, <1>0, <1>1, SMT
    <3>2. w[i - 1] # w[i] /\ w[i - 1] \in Blocks /\ w[i] \in Blocks
      BY <3>1, <1>0, <1>1 DEF Distinct
    <3>3. L2.next = [L.next EXCEPT ![w[i - 1]] = L.next[w[i]], ![w[i]] = Nil]
      BY <2>2, <1>7, SMT
    <3> QED BY <3>1, <3>2, <3>3, <1>1, SMT DEF Nexts, Ends
  <2> QED BY <2>1, <2>2
<1>12. L2.queue[q] = [oldest |-> o, youngest |-> Final(v)]
       /\ (\A p \in Queues : p # q => L2.queue[p] = L.queue[p])
       /\ L2.free = L.free /\ L2.count = L.count /\ L.queue \in [Queues -> [oldest : Ends, youngest : Ends]]
  <2>0. L.queue \in [Queues -> [oldest : Ends, youngest : Ends]]
    BY <1>1 DEF Links
  <2>1. CASE i = 1
    <3>1. L2.queue = [L.queue EXCEPT ![q] = IF y = L.queue[q].oldest THEN Empty
                            ELSE [oldest |-> L.next[w[i]], youngest |-> y]]
      BY <2>1, <1>7, SMT
    <3>2. Final(v) = IF Len(w) = 1 THEN Nil ELSE y
      <4>1. v = <<>> <=> Len(w) = 1
        BY <1>1, <1>4, EmptySeq, SMT
      <4>2. Len(w) # 1 => v[Len(w) - 1] = w[Len(w)]
        <5>1. \A k \in Nat \ {0} : k # 1 => k - 1 \in 1 .. k - 1 /\ ~(k - 1 < 1) /\ (k - 1) + 1 = k
          BY SMT
        <5> QED BY <5>1, <1>1, <1>4, <2>1
      <4> QED BY <4>1, <4>2, <1>2, <1>4 DEF Final
    <3>3. y = L.queue[q].oldest <=> Len(w) = 1
      BY <1>2, <1>9, <2>1
    <3>4. Len(w) = 1 => o = Nil
      BY <1>1, <1>4, <1>10, EmptySeq, SMT
    <3> QED BY <2>0, <2>1, <3>1, <3>2, <3>3, <3>4, <1>7, <1>8, SMT DEF Empty
  <2>2. CASE i # 1
    <3>1. L2.queue = [L.queue EXCEPT ![q] =
                            [oldest |-> L.queue[q].oldest, youngest |-> IF y = w[i] THEN w[i - 1] ELSE y]]
      BY <2>2, <1>7, SMT
    <3>2. Final(v) = IF y = w[i] THEN w[i - 1] ELSE y
      <4>1. v # <<>>
        BY <2>2, <1>10
      <4>2. Len(w) - 1 \in 1 .. Len(w) - 1
        BY <1>0, <1>1, <2>2, SMT
      <4>3. v[Len(w) - 1] = IF Len(w) - 1 < i THEN w[Len(w) - 1] ELSE w[(Len(w) - 1) + 1]
        BY <4>2, <1>4
      <4>4. (Len(w) - 1) + 1 = Len(w) /\ (Len(w) - 1 < i <=> i = Len(w))
        BY <1>0, <1>1, SMT
      <4> QED BY <4>1, <4>3, <4>4, <1>2, <1>4, <1>9 DEF Final
    <3> QED BY <2>0, <2>2, <3>1, <3>2, <1>2, <1>7, <1>8, SMT
  <2> QED BY <2>1, <2>2
<1>13. Linked(L2.next, o, v)
  <2>1. \A j \in 1 .. Len(w) : j # i /\ j # i - 1 => L2.next[w[j]] = L.next[w[j]]
    <3> SUFFICES ASSUME NEW j \in 1 .. Len(w), j # i, j # i - 1 PROVE L2.next[w[j]] = L.next[w[j]]
      OBVIOUS
    <3>1. w[j] # w[i] /\ w[j] \in Blocks
      BY <1>0, <1>1 DEF Distinct
    <3>2. i > 1 => w[j] # w[i - 1]
      <4>1. i > 1 => i - 1 \in 1 .. Len(w)
        BY <1>0, <1>1, SMT
      <4> QED BY <4>1, <1>1 DEF Distinct
    <3> QED BY <3>1, <3>2, <1>11
  <2>2. Linked(L2.next, IF i = 1 THEN L.next[w[1]] ELSE First(L, q), v)
    BY <2>1, <1>0, <1>1, <1>3, <1>11, Unlink
  <2> QED BY <2>2, <1>2, <1>8
<1>14. L2 \in Links
  <2>1. v = <<>> \/ (v[1] \in Blocks /\ v[Len(v)] \in Blocks)
    <3>1. v # <<>> => 1 \in 1 .. Len(v) /\ Len(v) \in 1 .. Len(v)
      BY <1>4, EmptySeq, SMT
    <3> QED BY <1>4, <3>1, SMT
  <2>2. o \in Ends /\ Final(v) \in Ends
    BY <1>10, <2>1 DEF Final, Ends
  <2>3. L2.queue \in [Queues -> [oldest : Ends, youngest : Ends]]
    <3>1. L2.queue = [L.queue EXCEPT ![q] = [oldest |-> o, youngest |-> Final(v)]]
      <4>1. CASE i = 1 BY <4>1, <1>7, <1>12, SMT
      <4>2. CASE i # 1 BY <4>2, <1>7, <1>12, SMT
      <4> QED BY <4>1, <4>2
    <3> QED BY <1>12, <2>2, <3>1, SMT
  <2>4. L2 = [next |-> L2.next, queue |-> L2.queue, free |-> L.free, count |-> L.count]
    BY <1>7, SMT
  <2>5. L.free \in Ends /\ L.count \in Nat
    BY <1>1 DEF Links
  <2> QED BY <1>11, <2>3, <2>4, <2>5, SMT DEF Links
<1>15. \A p \in Lists : p # q => First(L2, p) = First(L, p)
  BY <1>12 DEF First, Lists
<1>16. First(L2, q) = o /\ L2.queue[q].youngest = Final(v)
  BY <1>0, <1>12, SMT DEF First
<1>17. \A b \in C \cup {w[i]} : L2.next[b] = Nil
  <2> SUFFICES ASSUME NEW b \in C, b # w[i] PROVE L2.next[b] = Nil
    BY <1>11
  <2>1. i > 1 => w[i - 1] \in Rng(w)
    <3>1. i > 1 => i - 1 \in 1 .. Len(w)
      BY <1>0, <1>1, SMT
    <3> QED BY <3>1, <1>1
  <2> QED BY <2>1, <1>1, <1>11
<1>18. \A b \in Blocks : b \in Rng(w) \cup C \/ L2.next[b] = L.next[b]
  <2>1. i > 1 => w[i - 1] \in Rng(w)
    <3>1. i > 1 => i - 1 \in 1 .. Len(w)
      BY <1>0, <1>1, SMT
    <3> QED BY <3>1, <1>1
  <2> QED BY <2>1, <1>0, <1>1, <1>11
<1>19. /\ Rng(v) \cup (C \cup {w[i]}) = Rng(w) \cup C /\ Rng(v) \cap (C \cup {w[i]}) = {}
       /\ C \cup {w[i]} \subseteq Blocks
  BY <1>0, <1>1, <1>4, SMT
<1>20. Relinks(L, C, w, q, L2, C \cup {w[i]}, v)
  BY <1>0, <1>4, <1>12, <1>13, <1>14, <1>15, <1>16, <1>17, <1>18, <1>19 DEF Relinks
<1> QED BY <1>w, <1>0, <1>3, <1>5, <1>20, Relink

\* next_block() takes the block on top of the free stack; then _blockcount_free was not 0.
LEMMA PopLayout ==
    ASSUME NEW L, NEW C, NEW W, Layout(L, C, W), L.free # Nil
    PROVE  /\ L.free \in Blocks /\ L.free \in Rng(W["free"]) /\ L.count > 0
           /\ Layout(PopFree(L), C \cup {L.free}, [W EXCEPT !["free"] = Cut(W["free"], 1)])
           /\ Rng(Cut(W["free"], 1)) = Rng(W["free"]) \ {L.free}
<1>w. PICK w : w = W["free"]
  OBVIOUS
<1>0. "free" \in Lists
  BY DEF Lists
<1>1. /\ L \in Links /\ L.next \in Nexts /\ C \subseteq Blocks
      /\ w \in Seq(Blocks) /\ Len(w) \in Nat /\ Distinct(w) /\ C \cap Rng(w) = {}
      /\ Linked(L.next, L.free, w)
      /\ \A j \in 1 .. Len(w) : w[j] \in Blocks /\ w[j] \in Rng(w)
      /\ \A b \in C : L.next[b] = Nil
      /\ Nil \notin Blocks /\ Rng(w) \subseteq Blocks
  BY <1>w, <1>0, OfLayout, SMT DEF First
<1>2. w # <<>> /\ L.free = w[1] /\ Len(w) # 0
  BY <1>1, EmptySeq DEF Linked
<1>3. 1 \in 1 .. Len(w) /\ w[1] \in Blocks /\ w[1] \in Rng(w)
  BY <1>1, <1>2, SMT
<1>4. PICK v : v = Cut(w, 1)
  OBVIOUS
<1>5. v \in Seq(Blocks) /\ Len(v) = Len(w) - 1 /\ Distinct(v) /\ Rng(v) = Rng(w) \ {w[1]} /\ Len(v) \in Nat
  BY <1>1, <1>3, <1>4, CutIs, SMT
<1>6. PICK L2 : L2 = PopFree(L)
  OBVIOUS
<1>7. L2 = [next |-> [L.next EXCEPT ![w[1]] = Nil], queue |-> L.queue,
            free |-> L.next[w[1]], count |-> L.count - 1]
  BY <1>1, <1>2, <1>6, PopFreeIs
<1>8. L.count = Len(w)
  BY <1>w DEF Layout
<1>9. L2 \in Links /\ L2.count = Len(v)
  <2>1. [L.next EXCEPT ![w[1]] = Nil] \in Nexts /\ L.next[w[1]] \in Ends
    BY <1>1, <1>3 DEF Nexts, Ends
  <2>2. L.count - 1 \in Nat
    BY <1>5, <1>8
  <2> QED BY <1>1, <1>5, <1>7, <1>8, <2>1, <2>2 DEF Links
<1>10. L2.next[w[1]] = Nil /\ \A b \in Blocks : b # w[1] => L2.next[b] = L.next[b]
  BY <1>1, <1>3, <1>7 DEF Nexts
<1>11. Linked(L2.next, L2.free, v)
  <2>1. PICK i \in 1 .. Len(w) : i = 1
    BY <1>3
  <2>2. \A j \in 1 .. Len(w) : j # i /\ j # i - 1 => L2.next[w[j]] = L.next[w[j]]
    BY <2>1, <1>1, <1>3, <1>10 DEF Distinct
  <2>3. ~(i > 1) /\ v = Cut(w, i)
    BY <2>1, <1>4, SMT
  <2>4. Linked(L2.next, IF i = 1 THEN L.next[w[1]] ELSE L.free, v)
    BY <2>2, <2>3, <1>1, Unlink
  <2> QED BY <2>1, <2>4, <1>7
<1>12. \A p \in Lists : p # "free" => First(L2, p) = First(L, p)
  BY <1>7 DEF First
<1>13. First(L2, "free") = L2.free /\ L2.queue = L.queue
  BY <1>7 DEF First
<1>14. \A b \in C \cup {w[1]} : L2.next[b] = Nil
  BY <1>1, <1>10
<1>15. \A b \in Blocks : b \in Rng(w) \cup C \/ L2.next[b] = L.next[b]
  BY <1>3, <1>10
<1>16. /\ Rng(v) \cup (C \cup {w[1]}) = Rng(w) \cup C /\ Rng(v) \cap (C \cup {w[1]}) = {}
       /\ C \cup {w[1]} \subseteq Blocks
  BY <1>1, <1>3, <1>5
<1>17. Relinks(L, C, w, "free", L2, C \cup {w[1]}, v)
  BY <1>5, <1>9, <1>11, <1>12, <1>13, <1>14, <1>15, <1>16 DEF Relinks
<1>18. Layout(L2, C \cup {w[1]}, [W EXCEPT !["free"] = v])
  BY <1>w, <1>0, <1>17, Relink
<1>19. L.count > 0
  BY <1>1, <1>2, <1>8, SMT
<1> QED BY <1>w, <1>2, <1>3, <1>4, <1>5, <1>6, <1>18, <1>19

\* w with a block in front.
Push(w, b) == [j \in 1 .. Len(w) + 1 |-> IF j = 1 THEN b ELSE w[j - 1]]

\* free_seqno_from_queue() puts a loose block on top of the free stack.
LEMMA PushLayout ==
    ASSUME NEW L, NEW C, NEW W, Layout(L, C, W), NEW b \in C
    PROVE  /\ Layout(PushFree(L, b), C \ {b}, [W EXCEPT !["free"] = Push(W["free"], b)])
           /\ Rng(Push(W["free"], b)) = Rng(W["free"]) \cup {b}
<1>w. PICK w : w = W["free"]
  OBVIOUS
<1>0. "free" \in Lists
  BY DEF Lists
<1>1. /\ L \in Links /\ L.next \in Nexts /\ C \subseteq Blocks
      /\ w \in Seq(Blocks) /\ Len(w) \in Nat /\ Distinct(w) /\ C \cap Rng(w) = {}
      /\ Linked(L.next, L.free, w) /\ (w = <<>> <=> Len(w) = 0)
      /\ \A j \in 1 .. Len(w) : w[j] \in Blocks /\ w[j] \in Rng(w)
      /\ \A x \in C : L.next[x] = Nil
      /\ Nil \notin Blocks /\ Rng(w) \subseteq Blocks
  BY <1>w, <1>0, OfLayout, SMT DEF First
<1>2. b \in Blocks /\ b \notin Rng(w)
  BY <1>1
<1>3. PICK v : v = Push(w, b)
  OBVIOUS
<1>4. v \in [1 .. Len(w) + 1 -> Blocks]
  <2>1. \A j \in 1 .. Len(w) + 1 : j # 1 => j - 1 \in 1 .. Len(w)
    BY <1>1, SMT
  <2> QED BY <1>1, <1>2, <1>3, <2>1 DEF Push
<1>5. v \in Seq(Blocks) /\ Len(v) = Len(w) + 1 /\ Len(v) \in Nat \ {0}
  BY <1>1, <1>4, SMT
<1>6. v[1] = b /\ \A j \in 1 .. Len(w) : v[j + 1] = w[j]
  <2>1. 1 \in 1 .. Len(w) + 1 /\ \A j \in 1 .. Len(w) : j + 1 \in 1 .. Len(w) + 1 /\ j + 1 # 1 /\ (j + 1) - 1 = j
    BY <1>1, SMT
  <2> QED BY <1>3, <2>1 DEF Push
<1>7. \A k \in 1 .. Len(v) : k = 1 \/ \E j \in 1 .. Len(w) : k = j + 1
  <2> SUFFICES ASSUME NEW k \in 1 .. Len(v), k # 1 PROVE \E j \in 1 .. Len(w) : k = j + 1
    OBVIOUS
  <2>1. k - 1 \in 1 .. Len(w) /\ k = (k - 1) + 1
    BY <1>1, <1>5, SMT
  <2> QED BY <2>1
<1>8. Rng(v) = Rng(w) \cup {b}
  <2>1. 1 \in 1 .. Len(v) /\ \A j \in 1 .. Len(w) : j + 1 \in 1 .. Len(v)
    BY <1>1, <1>5, SMT
  <2>2. ASSUME NEW x \in Rng(v) PROVE x \in Rng(w) \cup {b}
    <3>1. PICK k \in 1 .. Len(v) : x = v[k]
      BY DEF Rng
    <3>2. CASE k = 1
      BY <3>1, <3>2, <1>6
    <3>3. CASE k # 1
      <4>1. PICK j \in 1 .. Len(w) : k = j + 1
        BY <1>7, <3>3
      <4> QED BY <3>1, <4>1, <1>6 DEF Rng
    <3> QED BY <3>2, <3>3
  <2>3. b \in Rng(v)
    BY <2>1, <1>6 DEF Rng
  <2>4. ASSUME NEW x \in Rng(w) PROVE x \in Rng(v)
    <3>1. PICK j \in 1 .. Len(w) : x = w[j]
      BY DEF Rng
    <3> QED BY <3>1, <2>1, <1>6 DEF Rng
  <2> QED BY <2>2, <2>3, <2>4
<1>9. Distinct(v)
  <2> SUFFICES ASSUME NEW j \in 1 .. Len(v), NEW k \in 1 .. Len(v), v[j] = v[k] PROVE j = k
    BY DEF Distinct
  <2>1. CASE j = 1 /\ k = 1 BY <2>1
  <2>2. CASE j = 1 /\ k # 1 BY <2>2, <1>1, <1>2, <1>6, <1>7, SMT
  <2>3. CASE j # 1 /\ k = 1 BY <2>3, <1>1, <1>2, <1>6, <1>7, SMT
  <2>4. CASE j # 1 /\ k # 1 BY <2>4, <1>1, <1>6, <1>7, SMT DEF Distinct
  <2> QED BY <2>1, <2>2, <2>3, <2>4
<1>10. PICK L2 : L2 = PushFree(L, b)
  OBVIOUS
<1>11. L2 = [next |-> [L.next EXCEPT ![b] = L.free], queue |-> L.queue,
             free |-> b, count |-> L.count + 1]
  BY <1>1, <1>2, <1>10, PushFreeIs
<1>12. L2 \in Links /\ L2.count = Len(v)
  <2>1. L.count = Len(w)
    BY <1>w DEF Layout
  <2>2. [L.next EXCEPT ![b] = L.free] \in Nexts
    BY <1>1, <1>2 DEF Links, Nexts, Ends
  <2>3. b \in Ends /\ L.count + 1 \in Nat /\ L.queue \in [Queues -> [oldest : Ends, youngest : Ends]]
    BY <1>1, <1>2, <2>1, SMT DEF Links, Ends
  <2> QED BY <1>5, <1>11, <2>1, <2>2, <2>3 DEF Links
<1>13. L2.next[b] = L.free /\ \A x \in Blocks : x # b => L2.next[x] = L.next[x]
  BY <1>1, <1>2, <1>11 DEF Nexts
<1>14. Linked(L2.next, b, v)
  <2>1. v # <<>>
    BY <1>5, EmptySeq
  <2>2. ASSUME NEW k \in 1 .. Len(v)
        PROVE  L2.next[v[k]] = IF k = Len(v) THEN Nil ELSE v[k + 1]
    <3>1. CASE k = 1
      <4>1. L.free = IF Len(w) = 0 THEN Nil ELSE w[1]
        BY <1>1 DEF Linked
      <4>2. Len(w) # 0 => v[1 + 1] = w[1]
        <5>1. Len(w) # 0 => 1 \in 1 .. Len(w)
          BY <1>1, SMT
        <5> QED BY <5>1, <1>6
      <4>3. 1 = Len(v) <=> Len(w) = 0
        BY <1>1, <1>5, SMT
      <4> QED BY <3>1, <4>1, <4>2, <4>3, <1>6, <1>13
    <3>2. CASE k # 1
      <4>1. PICK j \in 1 .. Len(w) : k = j + 1
        BY <3>2, <1>7
      <4>2. v[k] = w[j] /\ w[j] # b /\ w[j] \in Blocks
        BY <4>1, <1>1, <1>2, <1>6
      <4>3. L.next[w[j]] = IF j = Len(w) THEN Nil ELSE w[j + 1]
        BY <1>1 DEF Linked
      <4>4. k = Len(v) <=> j = Len(w)
        BY <4>1, <1>1, <1>5, SMT
      <4>5. j # Len(w) => v[k + 1] = w[j + 1]
        <5>1. j # Len(w) => j + 1 \in 1 .. Len(w)
          BY <1>1, SMT
        <5> QED BY <5>1, <4>1, <1>6
      <4> QED BY <4>2, <4>3, <4>4, <4>5, <1>13
    <3> QED BY <3>1, <3>2
  <2> QED BY <2>1, <2>2, <1>5, <1>6 DEF Linked
<1>15. \A p \in Lists : p # "free" => First(L2, p) = First(L, p)
  BY <1>11 DEF First
<1>16. First(L2, "free") = b /\ L2.queue = L.queue
  BY <1>11 DEF First
<1>17. \A x \in C \ {b} : L2.next[x] = Nil
  BY <1>1, <1>13
<1>18. \A x \in Blocks : x \in Rng(w) \cup C \/ L2.next[x] = L.next[x]
  BY <1>13
<1>19. /\ Rng(v) \cup (C \ {b}) = Rng(w) \cup C /\ Rng(v) \cap (C \ {b}) = {}
       /\ C \ {b} \subseteq Blocks
  BY <1>1, <1>8
<1>20. Relinks(L, C, w, "free", L2, C \ {b}, v)
  BY <1>5, <1>9, <1>12, <1>14, <1>15, <1>16, <1>17, <1>18, <1>19 DEF Relinks
<1>21. Layout(L2, C \ {b}, [W EXCEPT !["free"] = v])
  BY <1>w, <1>0, <1>20, Relink
<1> QED BY <1>w, <1>3, <1>8, <1>10, <1>21

\* free_all_blocks() leaves all blocks on the free stack.
LEMMA FreeAllLayout ==
    \E W : /\ Layout(free_all_blocks, {}, W)
           /\ \A b \in Blocks : b \in Rng(W["free"])
<1> DEFINE w == [j \in 1 .. BlockCount |-> BlockCount + 1 - j]
           W == [q \in Lists |-> IF q = "free" THEN w ELSE <<>>]
           L == free_all_blocks
<1>0. BlockCount \in Nat \ {0} /\ Nil = 0 /\ Nil \notin Blocks
  BY BlockCountAssumption, SMT DEF Nil, Blocks
<1>1. w \in [1 .. BlockCount -> Blocks]
  BY <1>0, SMT DEF Blocks
<1>2. w \in Seq(Blocks) /\ Len(w) = BlockCount
  BY <1>0, <1>1, SMT
<1>3. \A j \in 1 .. BlockCount : w[j] = BlockCount + 1 - j
  OBVIOUS
<1>4. <<>> \in Seq(Blocks) /\ Len(<<>>) = 0 /\ Rng(<<>>) = {} /\ Distinct(<<>>)
  <2>1. <<>> \in Seq(Blocks) /\ Len(<<>>) = 0
    BY SMT
  <2>2. 1 .. Len(<<>>) = {}
    BY <2>1, SMT
  <2> QED BY <2>1, <2>2 DEF Rng, Distinct
<1> HIDE DEF w
<1>5. W \in [Lists -> Seq(Blocks)] /\ W["free"] = w /\ \A q \in Lists : q # "free" => W[q] = <<>>
  BY <1>2, <1>4 DEF Lists
<1>6. L = [next |-> [b \in Blocks |-> b - 1], queue |-> [q \in Queues |-> Empty],
           free |-> BlockCount, count |-> BlockCount]
  BY DEF free_all_blocks
<1>7. L \in Links
  <2>1. [b \in Blocks |-> b - 1] \in Nexts /\ BlockCount \in Ends
    BY <1>0, SMT DEF Nexts, Ends, Blocks
  <2>2. Empty \in [oldest : Ends, youngest : Ends]
    BY DEF Empty, Ends
  <2> QED BY <1>0, <1>6, <2>1, <2>2 DEF Links
<1> HIDE DEF W, L
<1>8. Linked(L.next, L.free, w)
  <2>1. ASSUME NEW i \in 1 .. Len(w)
        PROVE  L.next[w[i]] = IF i = Len(w) THEN Nil ELSE w[i + 1]
    <3>1. i \in 1 .. BlockCount /\ w[i] = BlockCount + 1 - i /\ w[i] \in Blocks
      BY <1>1, <1>2, <1>3
    <3>2. L.next[w[i]] = BlockCount - i
      BY <1>0, <1>6, <3>1, SMT
    <3>3. i # BlockCount => i + 1 \in 1 .. BlockCount /\ w[i + 1] = BlockCount + 1 - (i + 1)
      BY <1>0, <1>3, <3>1, SMT
    <3> QED BY <1>0, <1>2, <3>1, <3>2, <3>3, SMT
  <2>2. w # <<>> /\ L.free = w[1]
    <3>1. 1 \in 1 .. BlockCount
      BY <1>0, SMT
    <3>2. w[1] = BlockCount
      BY <1>0, <1>3, <3>1, SMT
    <3> QED BY <1>0, <1>2, <1>6, <3>2, EmptySeq
  <2> QED BY <1>2, <2>1, <2>2 DEF Linked
<1>9. ASSUME NEW q \in Queues
      PROVE  /\ q \in Lists /\ q # "free" /\ L.queue[q].youngest = Nil /\ L.queue[q].oldest = Nil
  BY <1>6 DEF Lists, Queues, Empty
<1>10. \A q \in Lists : Linked(L.next, First(L, q), W[q])
  <2>1. Linked(L.next, First(L, "free"), W["free"])
    BY <1>5, <1>8 DEF First
  <2>2. ASSUME NEW q \in Queues PROVE Linked(L.next, First(L, q), W[q])
    <3>1. First(L, q) = Nil /\ W[q] = <<>>
      BY <1>5, <1>9 DEF First
    <3>2. 1 .. Len(<<>>) = {}
      BY <1>4, SMT
    <3> QED BY <1>4, <3>1, <3>2 DEF Linked
  <2> QED BY <2>1, <2>2 DEF Lists
<1>11. \A b \in Blocks : b \in Rng(W["free"])
  <2> SUFFICES ASSUME NEW b \in Blocks PROVE b \in Rng(w)
    BY <1>5
  <2>1. BlockCount + 1 - b \in 1 .. BlockCount /\ BlockCount + 1 - (BlockCount + 1 - b) = b
    BY <1>0, SMT DEF Blocks
  <2> QED BY <1>2, <1>3, <2>1 DEF Rng
<1>12. Distinct(w)
  <2>1. \A i, j \in 1 .. BlockCount : BlockCount + 1 - i = BlockCount + 1 - j => i = j
    BY <1>0, SMT
  <2> QED BY <1>2, <1>3, <2>1, SMT DEF Distinct
<1>13. Apart({}, W)
  <2>1. "free" \in Lists
    BY DEF Lists
  <2> QED BY <1>4, <1>5, <1>11, <1>12, <2>1 DEF Apart
<1>14. L.count = Len(W["free"]) /\ \A q \in Queues : L.queue[q].youngest = Final(W[q])
  BY <1>2, <1>5, <1>6, <1>9 DEF Final
<1>15. Layout(L, {}, W)
  BY <1>5, <1>7, <1>10, <1>13, <1>14 DEF Layout
<1> QED BY <1>11, <1>15 DEF L

\* One step of the recursion of SendFrom().
MoveStep(M, q) == enqueue_block(dequeue(M, q, 1), "sent", M.queue[q].oldest)
IsMove(L, q, m, f) == f = [k \in 0 .. m |-> IF k = 0 THEN L ELSE MoveStep(f[k - 1], q)]

\* The recursion of SendFrom() defines a function.
LEMMA MoveExists ==
    ASSUME NEW L, NEW q
    PROVE  \A m \in Nat : \E f : IsMove(L, q, m, f)
<1> DEFINE S == {m \in Nat : \E f : IsMove(L, q, m, f)}
<1>1. 0 \in S
  <2> DEFINE f == [k \in 0 .. 0 |-> L]
  <2>1. IsMove(L, q, 0, f)
    BY SMT DEF IsMove
  <2> QED BY <2>1
<1>2. ASSUME NEW m \in Nat, m \in S PROVE m + 1 \in S
  <2>1. PICK f : IsMove(L, q, m, f)
    BY <1>2
  <2> DEFINE g == [k \in 0 .. m + 1 |-> IF k = m + 1 THEN MoveStep(f[m], q) ELSE f[k]]
  <2>2. ASSUME NEW k \in 0 .. m + 1 PROVE g[k] = IF k = 0 THEN L ELSE MoveStep(g[k - 1], q)
    <3>1. CASE k = m + 1
      <4>1. g[k - 1] = f[m]
        BY <3>1, SMT
      <4> QED BY <3>1, <4>1, SMT
    <3>2. CASE k \in 1 .. m
      <4>1. g[k] = f[k] /\ g[k - 1] = f[k - 1]
        BY <3>2, SMT
      <4> QED BY <3>2, <4>1, <2>1, SMT DEF IsMove
    <3>3. CASE k = 0
      BY <3>3, <2>1, SMT DEF IsMove
    <3> QED BY <3>1, <3>2, <3>3, SMT
  <2>3. g = [k \in 0 .. m + 1 |-> g[k]]
    OBVIOUS
  <2> HIDE DEF g
  <2>4. IsMove(L, q, m + 1, g)
    BY <2>2, <2>3 DEF IsMove
  <2> QED BY <2>4, SMT
<1> HIDE DEF S
<1>3. \A m \in Nat : m \in S
  BY <1>1, <1>2, NatSetInduction
<1> QED BY <1>3 DEF S

\* SendFrom() is what that function returns.
LEMMA SendFromIs ==
    ASSUME NEW L, NEW q, NEW n \in Nat
    PROVE  \E f : IsMove(L, q, n, f) /\ SendFrom(L, q, n) = f[n]
<1> DEFINE f == CHOOSE f : f = [k \in 0 .. n |->
            IF k = 0 THEN L ELSE LET M == f[k - 1]   b == M.queue[q].oldest
                                 IN  enqueue_block(dequeue(M, q, 1), "sent", b)]
           g == CHOOSE g : IsMove(L, q, n, g)
<1>1. SendFrom(L, q, n) = f[n]
  BY DEF SendFrom
<1>2. f = g
  BY DEF IsMove, MoveStep
<1>3. IsMove(L, q, n, g)
  BY MoveExists
<1> QED BY <1>1, <1>2, <1>3

\* n blocks of the queue q have been sent.
SentBy(W, q, n, V) ==
    /\ Len(V[q]) = Len(W[q]) - n
    /\ \A j \in 1 .. Len(W[q]) - n : V[q][j] = W[q][j + n]
    /\ Rng(V["sent"]) = Rng(W["sent"]) \cup {W[q][i] : i \in 1 .. n}
    /\ \A p \in Lists : p # q /\ p # "sent" => V[p] = W[p]

\* The blocks of a list that one is appended to.
LEMMA RngAppend ==
    ASSUME NEW w \in Seq(Blocks), NEW b \in Blocks
    PROVE  Rng(Append(w, b)) = Rng(w) \cup {b}
<1>1. /\ Len(Append(w, b)) = Len(w) + 1 /\ Append(w, b)[Len(w) + 1] = b /\ Len(w) \in Nat
      /\ \A i \in 1 .. Len(w) : Append(w, b)[i] = w[i]
  BY SMT
<1> QED BY <1>1, SMT DEF Rng

\* Sending the oldest block of a queue moves it to the end of the sent queue.
LEMMA MoveLayout ==
    ASSUME NEW M, NEW C, NEW V, Layout(M, C, V), NEW q \in Queues, q # "sent", V[q] # <<>>
    PROVE  \E U : /\ Layout(MoveStep(M, q), C, U) /\ U[q] = Cut(V[q], 1)
                  /\ Rng(U["sent"]) = Rng(V["sent"]) \cup {V[q][1]}
                  /\ \A p \in Lists : p # q /\ p # "sent" => U[p] = V[p]
<1>0. q \in Lists /\ q # "free" /\ "sent" \in Lists /\ "sent" \in Queues
  BY DEF Lists, Queues
<1>w. PICK w : w = V[q]
  OBVIOUS
<1>1. /\ w \in Seq(Blocks) /\ Len(w) \in Nat /\ C \cap Rng(w) = {} /\ C \subseteq Blocks
      /\ (w = <<>> <=> Len(w) = 0)
      /\ Linked(M.next, First(M, q), w)
      /\ \A i \in 1 .. Len(w) : w[i] \in Blocks /\ w[i] \in Rng(w)
  BY <1>0, <1>w, OfLayout, SMT
<1>2. 1 \in 1 .. Len(w) /\ w # <<>>
  BY <1>1, <1>w, SMT
<1>b. PICK b : b = w[1]
  OBVIOUS
<1>3. b \in Blocks /\ b \notin C /\ M.queue[q].oldest = b
  BY <1>0, <1>1, <1>2, <1>b DEF Linked, First
<1>4. PICK D : D = dequeue(M, q, 1)
  OBVIOUS
<1>5. PICK T : T = [V EXCEPT ![q] = Cut(w, 1)]
  OBVIOUS
<1>6. Layout(D, C \cup {b}, T)
  BY <1>w, <1>b, <1>2, <1>4, <1>5, DequeueLayout
<1>7. V \in [Lists -> Seq(Blocks)]
  BY DEF Layout
<1>8. T[q] = Cut(w, 1) /\ \A p \in Lists : p # q => T[p] = V[p]
  BY <1>0, <1>5, <1>7
<1>9. PICK U : U = [T EXCEPT !["sent"] = Append(T["sent"], b)]
  OBVIOUS
<1>10. Layout(enqueue_block(D, "sent", b), (C \cup {b}) \ {b}, U)
  BY <1>0, <1>6, <1>9, EnqueueLayout
<1>11. (C \cup {b}) \ {b} = C
  BY <1>3
<1>12. MoveStep(M, q) = enqueue_block(D, "sent", b)
  BY <1>3, <1>4 DEF MoveStep
<1>13. T \in [Lists -> Seq(Blocks)]
  BY <1>6 DEF Layout
<1>14. U["sent"] = Append(T["sent"], b) /\ \A p \in Lists : p # "sent" => U[p] = T[p]
  BY <1>0, <1>9, <1>13
<1>15. Rng(U["sent"]) = Rng(V["sent"]) \cup {b}
  BY <1>0, <1>3, <1>8, <1>13, <1>14, RngAppend, SMT
<1> QED BY <1>w, <1>b, <1>0, <1>8, <1>10, <1>11, <1>12, <1>14, <1>15, ZenonT(30)

\* send_log_blocks_from_queue() moves the oldest blocks of a queue, in order.
LEMMA SendLayout ==
    ASSUME NEW L, NEW C, NEW W, Layout(L, C, W), NEW q \in Queues, q # "sent",
           NEW n \in 0 .. Len(W[q])
    PROVE  \E V : Layout(SendFrom(L, q, n), C, V) /\ SentBy(W, q, n, V)
<1>0. q \in Lists /\ q # "free" /\ "sent" \in Lists
  BY DEF Lists, Queues
<1>w. PICK w : w = W[q]
  OBVIOUS
<1>1. w \in Seq(Blocks) /\ Len(w) \in Nat
  BY <1>0, <1>w, OfLayout
<1>2. n \in Nat /\ n <= Len(w)
  BY <1>w, <1>1, SMT
<1>3. PICK f : IsMove(L, q, n, f) /\ SendFrom(L, q, n) = f[n]
  BY <1>2, SendFromIs
<1> DEFINE S == {k \in Nat : k <= n => \E V : Layout(f[k], C, V) /\ SentBy(W, q, k, V)}
<1>4. 0 \in S
  <2>1. f[0] = L
    BY <1>2, <1>3, SMT DEF IsMove
  <2>2. SentBy(W, q, 0, W)
    <3>1. {w[i] : i \in 1 .. 0} = {}
      BY SMT
    <3>2. Len(w) - 0 = Len(w) /\ \A j \in 1 .. Len(w) : j + 0 = j
      BY <1>1, SMT
    <3> QED BY <1>w, <3>1, <3>2 DEF SentBy
  <2> QED BY <2>1, <2>2
<1>5. ASSUME NEW k \in Nat, k \in S PROVE k + 1 \in S
  <2> SUFFICES ASSUME k + 1 <= n
               PROVE  \E V : Layout(f[k + 1], C, V) /\ SentBy(W, q, k + 1, V)
    BY SMT
  <2>1. PICK V : Layout(f[k], C, V) /\ SentBy(W, q, k, V)
    BY <1>2, <1>5, SMT
  <2> HIDE DEF S
  <2>2. f[k + 1] = MoveStep(f[k], q)
    BY <1>2, <1>3, SMT DEF IsMove
  <2>v. PICK v : v = V[q]
    OBVIOUS
  <2>3. /\ v \in Seq(Blocks) /\ Len(v) \in Nat /\ Distinct(v) /\ (v = <<>> <=> Len(v) = 0)
    BY <2>1, <2>v, <1>0, OfLayout, SMT
  <2>4. Len(v) = Len(w) - k /\ \A j \in 1 .. Len(w) - k : v[j] = w[j + k]
    BY <2>1, <2>v, <1>w DEF SentBy
  <2>5. v # <<>> /\ 1 \in 1 .. Len(v) /\ 1 \in 1 .. Len(w) - k
    BY <2>3, <2>4, <1>1, <1>2, SMT
  <2>6. PICK U : /\ Layout(f[k + 1], C, U) /\ U[q] = Cut(v, 1)
                 /\ Rng(U["sent"]) = Rng(V["sent"]) \cup {v[1]}
                 /\ \A p \in Lists : p # q /\ p # "sent" => U[p] = V[p]
    BY <2>1, <2>2, <2>v, <2>5, MoveLayout, SMT
  <2>u. PICK u : u = Cut(v, 1)
    OBVIOUS
  <2>7. /\ Len(u) = Len(v) - 1
        /\ \A j \in 1 .. Len(v) - 1 : u[j] = IF j < 1 THEN v[j] ELSE v[j + 1]
    <3>1. PICK i \in 1 .. Len(v) : i = 1
      BY <2>5
    <3>2. u = Cut(v, i)
      BY <2>u, <3>1
    <3>3. /\ Len(u) = Len(v) - 1
          /\ \A j \in 1 .. Len(v) - 1 : u[j] = IF j < i THEN v[j] ELSE v[j + 1]
      <4>1. v \in Seq(Blocks) /\ Distinct(v)
        BY <2>3
      <4> QED BY <4>1, <3>2, CutIs, SMTT(60)
    <3> QED BY <3>1, <3>3
  <2>8. Len(u) = Len(w) - (k + 1)
    BY <2>4, <2>7, <1>1, SMT
  <2>9. ASSUME NEW j \in 1 .. Len(w) - (k + 1) PROVE u[j] = w[j + (k + 1)]
    <3>1. j \in 1 .. Len(v) - 1 /\ ~(j < 1) /\ j + 1 \in 1 .. Len(w) - k /\ (j + 1) + k = j + (k + 1)
      BY <2>4, <1>1, SMT
    <3> QED BY <2>4, <2>7, <3>1
  <2>10. v[1] = w[k + 1]
    <3>1. v[1] = w[1 + k] /\ 1 + k = k + 1
      BY <2>4, <2>5, SMT
    <3> QED BY <3>1
  <2>11. {w[i] : i \in 1 .. k + 1} = {w[i] : i \in 1 .. k} \cup {w[k + 1]}
    <3>1. 1 .. k + 1 = (1 .. k) \cup {k + 1}
      BY SMT
    <3> QED BY <3>1
  <2>12. Rng(U["sent"]) = Rng(W["sent"]) \cup {w[i] : i \in 1 .. k + 1}
    BY <2>1, <2>6, <2>10, <2>11, <1>w, SMT DEF SentBy
  <2>13. \A p \in Lists : p # q /\ p # "sent" => U[p] = W[p]
    BY <2>1, <2>6 DEF SentBy
  <2>14. SentBy(W, q, k + 1, U)
    BY <2>6, <2>u, <2>8, <2>9, <2>12, <2>13, <1>w, SMT DEF SentBy
  <2> QED BY <2>6, <2>14
<1> HIDE DEF S
<1>6. \A k \in Nat : k \in S
  BY <1>4, <1>5, NatSetInduction
<1>7. n \in S
  BY <1>2, <1>6
<1> QED BY <1>2, <1>3, <1>7, SMT DEF S
-----------------------------------------------------------------------------
\* The current block, when there is one, is in no list.
Loose(c) == IF c = Nil THEN {} ELSE {c}

\* Places, as a function of the lists and the current block.
PlacesOf(L, c) ==
    LET In == [q \in Queues |-> {ListOf(L, q)[i] : i \in 1 .. Len(ListOf(L, q))}] IN
    [b \in Blocks |-> IF b = c THEN "current"
                      ELSE IF \E q \in Queues : b \in In[q]
                           THEN CHOOSE q \in Queues : b \in In[q]
                           ELSE "free"]

\* In a layout, a block is where Places says it is, and nowhere else.
LEMMA PlacesAt ==
    ASSUME NEW L, NEW c, NEW W, Layout(L, Loose(c), W), NEW P, P = PlacesOf(L, c)
    PROVE  /\ P \in [Blocks -> {"free", "current", "pending", "sent", "retry"}]
           /\ \A b \in Blocks : P[b] = "current" <=> b = c
           /\ \A b \in Blocks : \A q \in Lists : P[b] = q <=> b \in Rng(W[q])
<1> DEFINE In == [q \in Queues |-> {ListOf(L, q)[i] : i \in 1 .. Len(ListOf(L, q))}]
<1>1. P = [b \in Blocks |-> IF b = c THEN "current"
                      ELSE IF \E q \in Queues : b \in In[q]
                           THEN CHOOSE q \in Queues : b \in In[q]
                           ELSE "free"]
  BY DEF PlacesOf
<1>2. \A q \in Queues : In[q] = Rng(W[q])
  BY ListIs, SMT DEF Rng
<1> HIDE DEF In
<1>3. /\ \A q \in Lists : Rng(W[q]) \subseteq Blocks /\ Loose(c) \cap Rng(W[q]) = {}
      /\ \A p, q \in Lists : p # q => Rng(W[p]) \cap Rng(W[q]) = {}
      /\ \A b \in Blocks : b \in Loose(c) \/ \E q \in Lists : b \in Rng(W[q])
      /\ Loose(c) \subseteq Blocks
  <2>1. \A q \in Lists : Rng(W[q]) \subseteq Blocks
    BY OfLayout
  <2> QED BY <2>1 DEF Layout, Apart
<1>4. \A b \in Blocks : b = c <=> b \in Loose(c)
  BY SMT DEF Loose, Blocks, Nil
<1>5. ASSUME NEW b \in Blocks
      PROVE  /\ b = c => P[b] = "current" /\ \A q \in Lists : b \notin Rng(W[q])
             /\ b # c => \E q \in Lists : P[b] = q /\ b \in Rng(W[q]) /\ \A p \in Lists : b \in Rng(W[p]) => p = q
  <2>1. CASE b = c
    BY <2>1, <1>1, <1>3, <1>4
  <2>2. CASE b # c
    <3>1. PICK q \in Lists : b \in Rng(W[q]) /\ \A p \in Lists : b \in Rng(W[p]) => p = q
      BY <2>2, <1>3, <1>4
    <3>2. P[b] = q
      <4>1. CASE q = "free"
        <5>1. \A p \in Queues : b \notin In[p]
          BY <4>1, <3>1, <1>2 DEF Lists, Queues
        <5> QED BY <4>1, <5>1, <2>2, <1>1
      <4>2. CASE q \in Queues
        <5>1. \A p \in Queues : b \in In[p] <=> p = q
          BY <4>2, <3>1, <1>2 DEF Lists, Queues
        <5>2. P[b] = CHOOSE p \in Queues : b \in In[p]
          BY <4>2, <5>1, <2>2, <1>1
        <5>3. (CHOOSE p \in Queues : b \in In[p]) = q
          BY <4>2, <5>1
        <5> QED BY <5>2, <5>3
      <4> QED BY <4>1, <4>2 DEF Lists
    <3> QED BY <2>2, <3>1, <3>2
  <2> QED BY <2>1, <2>2
<1>6. "current" \notin Lists /\ Lists = {"free", "pending", "sent", "retry"}
  BY DEF Lists, Queues
<1>7. P \in [Blocks -> {"free", "current", "pending", "sent", "retry"}]
  <2>1. \A b \in Blocks : P[b] \in {"free", "current", "pending", "sent", "retry"}
    BY <1>5, <1>6
  <2>2. P = [b \in Blocks |-> P[b]]
    BY <1>1
  <2> QED BY <2>1, <2>2
<1>8. \A b \in Blocks : P[b] = "current" <=> b = c
  BY <1>5, <1>6
<1>9. ASSUME NEW b \in Blocks, NEW q \in Lists PROVE P[b] = q <=> b \in Rng(W[q])
  BY <1>5, <1>6
<1> QED BY <1>7, <1>8, <1>9
-----------------------------------------------------------------------------
\* Two lists that share no block, one after the other.
LEMMA Concat ==
    ASSUME NEW u \in Seq(Blocks), NEW v \in Seq(Blocks), Distinct(u), Distinct(v),
           Rng(u) \cap Rng(v) = {}, NEW w, w = u \o v
    PROVE  w \in Seq(Blocks) /\ Distinct(w) /\ Rng(w) = Rng(u) \cup Rng(v)
<1>1. Len(u) \in Nat /\ Len(v) \in Nat
  BY SMT
<1>2. w \in Seq(Blocks) /\ Len(w) = Len(u) + Len(v)
  BY <1>1, SMT
<1>3. \A i \in 1 .. Len(w) : w[i] = IF i <= Len(u) THEN u[i] ELSE v[i - Len(u)]
  BY <1>1, SMT
<1>4. \A i \in 1 .. Len(w) : ~(i <= Len(u)) => i - Len(u) \in 1 .. Len(v)
  BY <1>1, <1>2, SMT
<1>5. \A i \in 1 .. Len(w) : i <= Len(u) => i \in 1 .. Len(u)
  BY <1>1, <1>2, SMT
<1>6. Rng(w) = Rng(u) \cup Rng(v)
  <2>1. ASSUME NEW x \in Rng(w) PROVE x \in Rng(u) \cup Rng(v)
    BY <1>3, <1>4, <1>5 DEF Rng
  <2>2. ASSUME NEW x \in Rng(u) PROVE x \in Rng(w)
    <3>1. PICK i \in 1 .. Len(u) : x = u[i]
      BY DEF Rng
    <3>2. i \in 1 .. Len(w) /\ i <= Len(u)
      BY <1>1, <1>2, SMT
    <3> QED BY <1>3, <3>1, <3>2 DEF Rng
  <2>3. ASSUME NEW x \in Rng(v) PROVE x \in Rng(w)
    <3>1. PICK i \in 1 .. Len(v) : x = v[i]
      BY DEF Rng
    <3>2. i + Len(u) \in 1 .. Len(w) /\ ~(i + Len(u) <= Len(u)) /\ (i + Len(u)) - Len(u) = i
      BY <1>1, <1>2, SMT
    <3> QED BY <1>3, <3>1, <3>2 DEF Rng
  <2> QED BY <2>1, <2>2, <2>3
<1>7. Distinct(w)
  <2> SUFFICES ASSUME NEW i \in 1 .. Len(w), NEW j \in 1 .. Len(w), w[i] = w[j] PROVE i = j
    BY DEF Distinct
  <2>1. CASE i <= Len(u) /\ j <= Len(u)
    BY <2>1, <1>3, <1>5 DEF Distinct
  <2>2. CASE i <= Len(u) /\ ~(j <= Len(u))
    BY <2>2, <1>3, <1>4, <1>5 DEF Rng
  <2>3. CASE ~(i <= Len(u)) /\ j <= Len(u)
    BY <2>3, <1>3, <1>4, <1>5 DEF Rng
  <2>4. CASE ~(i <= Len(u)) /\ ~(j <= Len(u))
    <3>1. i - Len(u) = j - Len(u)
      BY <2>4, <1>3, <1>4, SMT DEF Distinct
    <3> QED BY <3>1, <1>1, <1>2, SMT
  <2> QED BY <2>1, <2>2, <2>3, <2>4
<1> QED BY <1>2, <1>6, <1>7
=============================================================================
