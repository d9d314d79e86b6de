----------------------------- MODULE PlanProofs -----------------------------
(***************************************************************************)
(* Proofs about plans: the upload of a fence, for any ground stations,     *)
(* links, items, size of the storage and number of uploads, and the        *)
(* running of a mission, for any mission and any limits of the searches.   *)
(***************************************************************************)
EXTENDS FenceUpload, Mission, SequenceTheorems, FiniteSetTheorems, WellFoundedInduction, TLAPS

\* A leaf is proved by Zenon unless it names SMT, which does the arithmetic.
USE Zenon

(* Induction                                                               *)

\* A set of numbers has a least one.
LEMMA Least ==
  ASSUME NEW T \in SUBSET Nat, T # {}
  PROVE  \E x \in T : \A y \in T : x <= y
<1> DEFINE R == {ss \in Nat \X Nat : ss[1] < ss[2]}
<1>1. IsWellFoundedOn(R, Nat)
  BY NatLessThanWellFounded DEF OpToRel
<1>2. \E x \in T : \A y \in T : ~ (<<y, x>> \in R)
  <2> HIDE DEF R
  <2> QED BY <1>1, WFMin
<1>3. PICK x \in T : \A y \in T : ~ (<<y, x>> \in R)
  BY <1>2
<1>4. ASSUME NEW y \in T PROVE x <= y
  <2>1. ~ (<<y, x>> \in R)
    BY <1>3
  <2>2. x \in Nat /\ y \in Nat
    OBVIOUS
  <2>3. ~ (y < x)
    BY <2>1, <2>2
  <2> QED BY <2>2, <2>3, SMT
<1> QED BY <1>4

\* Induction over a set: the library's induction theorems take an operator, this one
\* a set, which the provers can instantiate.
LEMMA NatSetInduction ==
  ASSUME NEW S, 0 \in S, \A n \in Nat : n \in S => n + 1 \in S
  PROVE  \A n \in Nat : n \in S
<1> SUFFICES ASSUME Nat \ S # {} PROVE FALSE
  OBVIOUS
<1>1. PICK x \in Nat \ S : \A y \in Nat \ S : x <= y
  BY Least
<1>2. x # 0 /\ x \in Nat
  OBVIOUS
<1>3. x - 1 \in Nat
  BY <1>2, SMT
<1>4. x - 1 \in S
  BY <1>1, <1>3, SMT
<1>5. (x - 1) + 1 \in S
  BY <1>3, <1>4
<1> QED BY <1>2, <1>5, SMT
-----------------------------------------------------------------------------
(* Loops that count down                                                   *)

\* A loop over the states D stops in those of Z with out, and goes on with nxt
\* otherwise.  What it computes is a function of the state it begins with.
IsLoop(D, Z, out, nxt, f) == f = [x \in D |-> IF x \in Z THEN out[x] ELSE f[nxt[x]]]

\* It takes m[x] turns at most.
CountsDown(D, Z, nxt, m) ==
    m \in [D -> Nat] /\ \A x \in D : x \notin Z => nxt[x] \in D /\ m[nxt[x]] < m[x]

\* There is a function that does what the loop does.
LEMMA LoopExists ==
    ASSUME NEW D, NEW Z, NEW out, NEW nxt, NEW m, CountsDown(D, Z, nxt, m),
           NEW B \in Nat, \A x \in D : m[x] <= B
    PROVE  \E f : IsLoop(D, Z, out, nxt, f)
<1> DEFINE Dn(n) == {x \in D : m[x] <= n}
           S == {n \in Nat : \E f : IsLoop(Dn(n), Z, out, nxt, f)}
<1>1. 0 \in S
  <2> DEFINE f == [x \in Dn(0) |-> out[x]]
  <2>1. \A x \in Dn(0) : x \in Z
    BY SMT DEF CountsDown
  <2>2. IsLoop(Dn(0), Z, out, nxt, f)
    BY <2>1 DEF IsLoop
  <2> QED BY <2>2
<1>2. ASSUME NEW n \in Nat, n \in S PROVE n + 1 \in S
  <2>1. PICK f : IsLoop(Dn(n), Z, out, nxt, f)
    BY <1>2
  <2> DEFINE g == [x \in Dn(n + 1) |-> IF x \in Z THEN out[x] ELSE f[nxt[x]]]
  <2>2. \A y \in Dn(n) : y \in Dn(n + 1)
    BY SMT DEF CountsDown
  <2>3. \A y \in Dn(n) : g[y] = f[y]
    BY <2>1, <2>2 DEF IsLoop
  <2>4. ASSUME NEW x \in Dn(n + 1), x \notin Z PROVE nxt[x] \in Dn(n)
    BY <2>4, SMT DEF CountsDown
  <2>5. \A x \in Dn(n + 1) : g[x] = IF x \in Z THEN out[x] ELSE g[nxt[x]]
    BY <2>3, <2>4
  <2>6. g = [x \in Dn(n + 1) |-> IF x \in Z THEN out[x] ELSE g[nxt[x]]]
    <3> HIDE DEF Dn
    <3>1. g = [x \in Dn(n + 1) |-> g[x]]
      OBVIOUS
    <3> HIDE DEF g
    <3> QED BY <2>5, <3>1
  <2>7. IsLoop(Dn(n + 1), Z, out, nxt, g)
    BY <2>6 DEF IsLoop
  <2>8. n + 1 \in Nat
    BY SMT
  <2> QED BY <2>7, <2>8
<1> HIDE DEF S
<1>3. B \in S
  BY <1>1, <1>2, NatSetInduction
<1>4. Dn(B) = D
  OBVIOUS
<1> QED BY <1>3, <1>4 DEF S

\* What holds when it stops, and of a state if of the next one, holds of all states.
LEMMA LoopInduction ==
    ASSUME NEW D, NEW Z, NEW nxt, NEW m, CountsDown(D, Z, nxt, m), NEW P,
           \A x \in D : x \in Z => x \in P,
           \A x \in D : x \notin Z /\ nxt[x] \in P => x \in P
    PROVE  D \subseteq P
<1> DEFINE S == {n \in Nat : \A x \in D : m[x] <= n => x \in P}
<1>1. 0 \in S
  BY SMT DEF CountsDown
<1>2. ASSUME NEW n \in Nat, n \in S PROVE n + 1 \in S
  <2>1. ASSUME NEW x \in D, m[x] <= n + 1, x \notin Z PROVE x \in P
    <3>1. nxt[x] \in D /\ m[nxt[x]] <= n
      BY <2>1, SMT DEF CountsDown
    <3> QED BY <1>2, <2>1, <3>1
  <2> QED BY <2>1, SMT
<1> HIDE DEF S
<1>3. \A n \in Nat : n \in S
  BY <1>1, <1>2, NatSetInduction
<1>4. ASSUME NEW x \in D PROVE x \in P
  <2>1. m[x] \in Nat /\ m[x] \in S
    BY <1>3 DEF CountsDown
  <2> QED BY <2>1, SMT DEF S
<1> QED BY <1>4
-----------------------------------------------------------------------------
(* FenceUpload: the inductive invariant                                    *)

\* Counting.
LEMMA NatFacts ==
  /\ 0 \in Nat
  /\ \A n \in Nat : /\ n + 1 \in Nat /\ (n + 1) - 1 = n /\ n + 1 # 0 /\ ~(n + 1 <= 0)
                    /\ n - 0 = n
                    /\ n - 1 \in Nat => (n - 1) + 1 = n
  /\ \A m, n \in Nat : (m + 1 <= n + 1 => m <= n) /\ (m <= n /\ n <= m => m = n)
BY SMT

IndexType == [attempted : BOOLEAN, indexed : BOOLEAN, memory : BOOLEAN, count : Nat]
ResultType == [to : Stations, what : Results]

\* What has been received of the upload in progress: the items sent so far are in
\* their places of the list; a full upload has sent all the items before the next
\* one, and a partial one has them in its mask and changes the fence that is stored.
ReceivedOK ==
    receiving =>
        /\ new_items \in [1 .. new_items_count -> Items \cup {Garbage}]
        /\ request_i <= request_last
        /\ \A i \in DOMAIN sent : /\ i \in Nat /\ i < new_items_count
                                  /\ sent[i] \in Items /\ new_items[i + 1] = sent[i]
        /\ updated_mask = NoMask => /\ request_last = new_items_count - 1
                                    /\ DOMAIN sent = 0 .. request_i - 1
        /\ updated_mask # NoMask => updated_mask = DOMAIN sent /\ base = stored

\* The inductive invariant.
IInv == TypeOK /\ ResourcesFreed /\ AsksForNext /\ ReceivedOK
-----------------------------------------------------------------------------
(* What a step does to the invariant, by what it does to the upload         *)

\* One turn of scan_eeprom(): when it ends, and with what.
ReadAt(items, junk, x) == ReadType(items, x.at, junk)
ScanEnds(items, junk, x) == x.at > StorageSize \/ ReadAt(items, junk, x).type \notin ItemTypes
ScanOut(items, junk, x) ==
    [ok |-> ~(x.at > StorageSize) /\ ReadAt(items, junk, x) = EndMarker,
     fences |-> x.fences, items |-> x.items]
ScanStart == [at |-> 4, fences |-> 0, items |-> 0]

\* What is read has a number of vertices, and takes a byte or more.
LEMMA ReadTyped ==
    ASSUME NEW items \in Seq(Items), NEW junk \in Junk, NEW x \in Scans
    PROVE  /\ ReadAt(items, junk, x).n \in Nat
           /\ Skip(x, ReadAt(items, junk, x)) \in Scans
           /\ Skip(x, ReadAt(items, junk, x)).at > x.at
<1>1. PICK b : b = ReadAt(items, junk, x)
  OBVIOUS
<1>2. b.n \in Nat
  <2>1. \A j \in Junk : j.n \in Nat
    <3>1. EndMarker.n \in Nat /\ NoType.n \in Nat /\ [type |-> "circle", n |-> 0].n \in Nat
      BY NatFacts DEF EndMarker, NoType
    <3>2. \A k \in JunkCounts : [type |-> "inclusion", n |-> k].n \in Nat
      BY FenceAssumption
    <3> QED BY <3>1, <3>2 DEF Junk
  <2>2. \A k \in DOMAIN items : items[k].n \in Nat
    BY FenceAssumption, SMT
  <2>3. EndMarker \in Junk
    BY DEF Junk
  <2>4. \/ b = junk \/ b = EndMarker
        \/ \E k \in DOMAIN items : b = items[k]
    BY <1>1 DEF ReadAt, ReadType, TypedAt
  <2> QED BY <2>1, <2>2, <2>3, <2>4
<1>3. ScanBytes(b) \in Nat /\ ScanBytes(b) > 0 /\ ScanItems(b) \in Nat
  BY <1>2, SMT DEF ScanBytes, ScanItems
<1>4. /\ x.at + ScanBytes(b) \in Nat /\ x.at + ScanBytes(b) > x.at
      /\ x.fences + 1 \in Nat /\ x.items + ScanItems(b) \in Nat
  BY <1>3, SMT DEF Scans
<1>5. Skip(x, b) \in Scans /\ Skip(x, b).at > x.at
  BY <1>4 DEF Skip, Scans
<1> QED BY <1>1, <1>2, <1>5

\* scan_eeprom() is a loop that counts down the bytes that are left.
ScanLeft(x) == IF x.at > StorageSize THEN 0 ELSE (StorageSize + 1) - x.at
LEMMA ScanCountsDown ==
    ASSUME NEW items \in Seq(Items), NEW junk \in Junk
    PROVE  /\ CountsDown(Scans, {x \in Scans : ScanEnds(items, junk, x)},
                         [x \in Scans |-> Skip(x, ReadAt(items, junk, x))],
                         [x \in Scans |-> ScanLeft(x)])
           /\ \A x \in Scans : ScanLeft(x) <= StorageSize + 1
<1> DEFINE Z == {x \in Scans : ScanEnds(items, junk, x)}
           nxt == [x \in Scans |-> Skip(x, ReadAt(items, junk, x))]
           m == [x \in Scans |-> ScanLeft(x)]
<1>1. \A x \in Scans : ScanLeft(x) \in Nat /\ ScanLeft(x) <= StorageSize + 1
  BY FenceAssumption, SMT DEF Scans, ScanLeft
<1>2. ASSUME NEW x \in Scans, x \notin Z PROVE nxt[x] \in Scans /\ m[nxt[x]] < m[x]
  <2>1. PICK y : y = Skip(x, ReadAt(items, junk, x))
    OBVIOUS
  <2>2. y \in Scans /\ y.at > x.at /\ ~(x.at > StorageSize)
    BY <1>2, <2>1, ReadTyped DEF ScanEnds
  <2>3. ScanLeft(y) < ScanLeft(x)
    BY <2>2, FenceAssumption, SMT DEF Scans, ScanLeft
  <2> QED BY <2>1, <2>2, <2>3
<1>3. m \in [Scans -> Nat]
  BY <1>1
<1> HIDE DEF m, nxt, Z
<1>4. CountsDown(Scans, Z, nxt, m)
  BY <1>2, <1>3 DEF CountsDown
<1> QED BY <1>1, <1>4 DEF m, nxt, Z

\* So it computes a function of where it begins.
LEMMA Scanning ==
    ASSUME NEW items \in Seq(Items), NEW junk \in Junk
    PROVE  \E f :
              /\ scan_eeprom(items, junk) = f[ScanStart]
              /\ \A x \in Scans : f[x] = IF ScanEnds(items, junk, x) THEN ScanOut(items, junk, x)
                                         ELSE f[Skip(x, ReadAt(items, junk, x))]
<1> DEFINE Z == {x \in Scans : ScanEnds(items, junk, x)}
           out == [x \in Scans |-> ScanOut(items, junk, x)]
           nxt == [x \in Scans |-> Skip(x, ReadAt(items, junk, x))]
           m == [x \in Scans |-> ScanLeft(x)]
           Outcome(x, ok) == [ok |-> ok, fences |-> x.fences, items |-> x.items]
           Turn(x, f) ==
              LET b == ReadType(items, x.at, junk)
              IN  IF x.at > StorageSize THEN Outcome(x, FALSE)
                  ELSE IF b = EndMarker THEN Outcome(x, TRUE)
                  ELSE IF b.type \notin ItemTypes THEN Outcome(x, FALSE)
                  ELSE f[Skip(x, b)]
           Body(f) == [x \in Scans |-> Turn(x, f)]
<1>1. CountsDown(Scans, Z, nxt, m) /\ \A x \in Scans : m[x] <= StorageSize + 1
  BY ScanCountsDown
<1>2. PICK g : IsLoop(Scans, Z, out, nxt, g)
  <2> HIDE DEF m, nxt, Z, out
  <2>1. StorageSize + 1 \in Nat
    BY FenceAssumption, SMT
  <2> QED BY <1>1, <2>1, LoopExists
<1>3. ASSUME NEW f, NEW x
      PROVE  Turn(x, f) = IF ScanEnds(items, junk, x) THEN ScanOut(items, junk, x)
                          ELSE f[Skip(x, ReadAt(items, junk, x))]
  <2>1. EndMarker.type \notin ItemTypes
    BY DEF EndMarker, ItemTypes
  <2>2. PICK b : b = ReadType(items, x.at, junk)
    OBVIOUS
  <2>3. CASE x.at > StorageSize
    BY <2>3 DEF ScanEnds, ScanOut
  <2>4. CASE ~(x.at > StorageSize) /\ b = EndMarker
    BY <2>1, <2>2, <2>4 DEF ScanEnds, ScanOut, ReadAt
  <2>5. CASE ~(x.at > StorageSize) /\ b # EndMarker
    BY <2>2, <2>5 DEF ScanEnds, ScanOut, ReadAt
  <2> QED BY <2>3, <2>4, <2>5
<1>4. g = Body(g)
  <2>1. g = [x \in Scans |-> IF ScanEnds(items, junk, x) THEN ScanOut(items, junk, x)
                             ELSE g[Skip(x, ReadAt(items, junk, x))]]
    BY <1>2 DEF IsLoop
  <2> HIDE DEF Turn
  <2> QED BY <1>3, <2>1
<1>5. PICK f : f = CHOOSE h : h = Body(h)
  OBVIOUS
<1>6. f = Body(f)
  <2> HIDE DEF Body
  <2> QED BY <1>4, <1>5
<1>7. scan_eeprom(items, junk) = f[ScanStart]
  BY <1>5, ZenonT(30) DEF scan_eeprom, ScanStart
<1>8. \A x \in Scans : f[x] = Turn(x, f)
  <2> HIDE DEF Turn
  <2> QED BY <1>6
<1> HIDE DEF Turn
<1> QED BY <1>3, <1>7, <1>8

\* It counts, and says if it has come to the end marker.
LEMMA ScanTyped ==
    ASSUME NEW items \in Seq(Items), NEW junk \in Junk
    PROVE  scan_eeprom(items, junk) \in [ok : BOOLEAN, fences : Nat, items : Nat]
<1> DEFINE Z == {x \in Scans : ScanEnds(items, junk, x)}
           nxt == [x \in Scans |-> Skip(x, ReadAt(items, junk, x))]
           m == [x \in Scans |-> ScanLeft(x)]
           R == [ok : BOOLEAN, fences : Nat, items : Nat]
<1>1. PICK f : /\ scan_eeprom(items, junk) = f[ScanStart]
               /\ \A x \in Scans : f[x] = IF ScanEnds(items, junk, x) THEN ScanOut(items, junk, x)
                                          ELSE f[Skip(x, ReadAt(items, junk, x))]
  BY Scanning
<1> DEFINE P == {x \in Scans : f[x] \in R}
<1>2. ASSUME NEW x \in Scans, x \in Z PROVE x \in P
  <2>1. f[x] = ScanOut(items, junk, x) /\ x.fences \in Nat /\ x.items \in Nat
    BY <1>1, <1>2 DEF Scans
  <2>2. ScanOut(items, junk, x) \in R
    BY <2>1 DEF ScanOut
  <2> QED BY <2>1, <2>2
<1>3. \A x \in Scans : x \notin Z /\ nxt[x] \in P => x \in P
  BY <1>1
<1>4. CountsDown(Scans, Z, nxt, m)
  BY ScanCountsDown
<1>5. Scans \subseteq P
  <2> HIDE DEF Z, nxt, m, P
  <2> QED BY <1>2, <1>3, <1>4, LoopInduction, SMT
<1>6. ScanStart \in Scans
  BY SMT DEF ScanStart, Scans
<1>7. f[ScanStart] \in R
  BY <1>5, <1>6
<1> HIDE DEF R
<1> QED BY <1>1, <1>7 DEF R

\* Whatever index_eeprom() finds is an index.
LEMMA ResultsTyped ==
    ASSUME stored \in Seq(Items)
    PROVE  IndexResults(stored) \subseteq IndexType
<1>1. \A junk \in Junk : /\ scan_eeprom(stored, junk).ok \in BOOLEAN
                         /\ scan_eeprom(stored, junk).items \in Nat
  BY ScanTyped
<1> DEFINE Index(c, ok, memory) ==
              [attempted |-> TRUE, indexed |-> ok, memory |-> memory, count |-> c.items]
<1>2. ASSUME NEW junk \in Junk, NEW ok \in BOOLEAN, NEW memory \in BOOLEAN
      PROVE  Index(scan_eeprom(stored, junk), ok, memory) \in IndexType
  BY <1>1 DEF IndexType
<1>3. ASSUME NEW x \in IndexResults(stored)
      PROVE  \E junk \in Junk, ok \in BOOLEAN, memory \in BOOLEAN :
                x = Index(scan_eeprom(stored, junk), ok, memory)
  <2>1. PICK junk \in Junk :
           LET c == scan_eeprom(stored, junk) IN
           \/ x = Index(c, FALSE, TRUE) \/ x = Index(c, TRUE, TRUE) \/ x = Index(c, FALSE, FALSE)
           \/ \E j \in Junk : x = Index(c, scan_eeprom(stored, j).ok, TRUE)
    BY <1>3 DEF IndexResults
  <2>2. TRUE \in BOOLEAN /\ FALSE \in BOOLEAN
    OBVIOUS
  <2> HIDE DEF Index
  <2>3. CASE \E j \in Junk : x = Index(scan_eeprom(stored, junk), scan_eeprom(stored, j).ok, TRUE)
    BY <1>1, <2>2, <2>3
  <2> QED BY <2>1, <2>2, <2>3
<1>4. ASSUME NEW x \in IndexResults(stored) PROVE x \in IndexType
  <2> HIDE DEF Index
  <2>1. PICK junk \in Junk, ok \in BOOLEAN, memory \in BOOLEAN :
           x = Index(scan_eeprom(stored, junk), ok, memory)
    BY <1>3
  <2> QED BY <1>2, <2>1
<1> QED BY <1>4

\* Whatever check_indexed() leaves is an index.
LEMMA IndexTyped ==
    ASSUME TypeOK
    PROVE  check_indexed \subseteq IndexType
<1>1. stored \in Seq(Items) /\ index \in IndexType BY DEF TypeOK, IndexType
<1> QED BY <1>1, ResultsTyped DEF check_indexed

\* A step that ends the upload, or leaves things at rest, keeps the invariant.
LEMMA EndedKeeps ==
    ASSUME TypeOK,
           receiving' = FALSE, link' = NoLink, new_items' = <<>>, updated_mask' = NoMask,
           asked' = NoRequest, dest' = dest, request_i' \in Nat, request_last' = request_last,
           waited' \in 0 .. UploadTimeout, queued' = queued, new_items_count' \in Nat,
           stored' \in Seq(Items), index' \in IndexType, result' \in ResultType,
           starts' = starts
    PROVE  IInv'
<1>1. TypeOK'
  <2>1. <<>> \in Seq(Items \cup {Garbage}) BY SMT
  <2> QED BY <2>1 DEF TypeOK, IndexType, ResultType
<1>2. ResourcesFreed' BY DEF ResourcesFreed
<1>3. AsksForNext' /\ ReceivedOK' BY DEF AsksForNext, ReceivedOK
<1> QED BY <1>1, <1>2, <1>3 DEF IInv

\* A step that leaves the upload alone, and at most queues a request, keeps it.
LEMMA PassiveKeeps ==
    ASSUME IInv,
           UNCHANGED <<receiving, link, dest, request_i, request_last, asked, bufVars, stored,
                       histVars>>,
           waited' \in 0 .. UploadTimeout, queued \subseteq queued', queued' \subseteq Links,
           index' \in IndexType, result' \in ResultType
    PROVE  IInv'
<1>1. TypeOK' BY DEF IInv, TypeOK, IndexType, ResultType, bufVars, histVars
<1>2. ResourcesFreed' BY DEF IInv, ResourcesFreed, bufVars
<1>3. AsksForNext' BY DEF IInv, AsksForNext
<1>4. ReceivedOK' BY DEF IInv, ReceivedOK, bufVars, histVars
<1> QED BY <1>1, <1>2, <1>3, <1>4 DEF IInv

\* A step that starts an upload keeps it.
LEMMA StartedKeeps ==
    ASSUME IInv, NEW g \in Stations, NEW l \in Links, NEW first \in Nat, NEW last \in Nat,
           first <= last, NEW n \in Nat, starts < MaxStarts,
           init_send_requests(g, l, first, last), StartHistory(base'),
           new_items' = [i \in 1 .. n |-> Garbage], new_items_count' = n,
           \/ updated_mask' = NoMask /\ first = 0 /\ last = n - 1
           \/ updated_mask' = {} /\ base' = stored,
           UNCHANGED <<fenceVars, result>>
    PROVE  IInv'
<1>1. /\ receiving' = TRUE /\ link' = l /\ dest' = g /\ request_i' = first
      /\ request_last' = last /\ waited' = 0 /\ queued' = queued \cup {l} /\ asked' = NoRequest
      /\ sent' = <<>> /\ starts' = starts + 1
      /\ stored' = stored /\ index' = index /\ result' = result
  BY DEF init_send_requests, StartHistory, fenceVars
<1>2. new_items' \in [1 .. n -> Items \cup {Garbage}] /\ new_items' \in Seq(Items \cup {Garbage})
  BY SMT
<1>3. TypeOK'
  <2>1. 0 \in 0 .. UploadTimeout /\ starts' \in 0 .. MaxStarts
    BY <1>1, FenceAssumption, SMT DEF IInv, TypeOK
  <2> QED BY <1>1, <1>2, <2>1 DEF IInv, TypeOK
<1>4. ResourcesFreed' BY <1>1, FenceAssumption DEF ResourcesFreed
<1>5. AsksForNext' BY <1>1 DEF AsksForNext
<1>6. ReceivedOK'
  <2>1. DOMAIN sent' = {} BY <1>1, SMT
  <2>2. {} # NoMask BY DEF NoMask
  <2>3. 0 .. 0 - 1 = {} BY SMT
  <2> QED BY <1>1, <1>2, <2>1, <2>2, <2>3 DEF ReceivedOK
<1> QED BY <1>3, <1>4, <1>5, <1>6 DEF IInv
-----------------------------------------------------------------------------
(* The actions                                                              *)

\* The initial states satisfy the invariant.
LEMMA InitOK == Init => IInv
<1> SUFFICES ASSUME Init PROVE IInv OBVIOUS
<1>1. PICK n \in 0 .. max_items : stored \in [1 .. n -> Items]
  BY DEF Init
<1>2. stored \in Seq(Items)
  BY <1>1, FenceAssumption, SMT DEF max_items
<1>3. dest \in Stations /\ 0 \in 0 .. UploadTimeout /\ 0 \in 0 .. MaxStarts
  BY FenceAssumption, SMT DEF Init
<1>4. index \in IndexType BY <1>2, ResultsTyped DEF Init
<1>5. TypeOK
  <2>1. <<>> \in Seq(Items \cup {Garbage}) BY SMT
  <2>2. result \in ResultType BY <1>3 DEF Init, ResultType, Results
  <2> QED BY <1>2, <1>3, <1>4, <2>1, <2>2 DEF Init, TypeOK, IndexType, ResultType
<1>6. ResourcesFreed /\ AsksForNext /\ ReceivedOK
  BY DEF Init, ResourcesFreed, AsksForNext, ReceivedOK
<1> QED BY <1>5, <1>6 DEF IInv

\* An answer to a station is one of the answers.
LEMMA ReplyTyped ==
    ASSUME NEW g \in Stations, NEW what \in Results, Reply(g, what)
    PROVE  result' \in ResultType
BY DEF Reply, ResultType

\* A message that is refused and changes nothing.
LEMMA RefusedKeeps ==
    ASSUME IInv, NEW g \in Stations, Refused(g)
    PROVE  IInv'
<1>1. result' \in ResultType BY ReplyTyped DEF Refused, Results
<1>2. waited' \in 0 .. UploadTimeout /\ index' \in IndexType /\ queued \subseteq Links
  BY DEF Refused, IInv, TypeOK, IndexType, protVars, fenceVars
<1>3. /\ UNCHANGED <<receiving, link, dest, request_i, request_last, asked, bufVars, stored,
                     histVars>>
      /\ queued' = queued
  BY DEF Refused, protVars, fenceVars
<1> QED BY <1>1, <1>2, <1>3, PassiveKeeps

\* An upload that is cancelled, or a refused start while there is none.
LEMMA CancelKeeps ==
    ASSUME IInv, NEW g \in Stations, CancelOnly(g)
    PROVE  IInv'
<1>1. result' \in ResultType BY ReplyTyped DEF CancelOnly, Results
<1>2. TypeOK BY DEF IInv
<1>3. /\ receiving' = FALSE /\ link' = NoLink /\ asked' = NoRequest /\ dest' = dest
      /\ request_i' = request_i /\ request_last' = request_last /\ waited' = waited
      /\ queued' = queued /\ stored' = stored /\ index' = index /\ starts' = starts
  BY DEF CancelOnly, StopReceiving, EndHistory, fenceVars
<1>4. new_items' = <<>> /\ updated_mask' = NoMask /\ new_items_count' = new_items_count
  BY DEF CancelOnly, free_upload_resources, bufVars, IInv, ResourcesFreed
<1>5. /\ request_i \in Nat /\ waited \in 0 .. UploadTimeout /\ new_items_count \in Nat
      /\ stored \in Seq(Items) /\ index \in IndexType
  BY <1>2 DEF TypeOK, IndexType
<1> QED BY <1>1, <1>2, <1>3, <1>4, <1>5, EndedKeeps

\* MISSION_COUNT: refused, a fence of no items, or the start of an upload.
LEMMA CountKeeps ==
    ASSUME IInv, NEW g \in Stations, NEW n \in 0 .. max_items + 1, handle_mission_count(g, n)
    PROVE  IInv'
<1>1. CASE Refused(g) BY <1>1, RefusedKeeps
<1>2. CASE CancelOnly(g) BY <1>2, CancelKeeps
<1>3. CASE /\ StopReceiving /\ StoreNothing
           /\ new_items' = <<>> /\ updated_mask' = NoMask /\ new_items_count' = 0
           /\ Reply(g, "accepted") /\ EndHistory /\ UNCHANGED queued
  <2>1. result' \in ResultType BY <1>3, ReplyTyped DEF Results
  <2>2. TypeOK BY DEF IInv
  <2>3. request_i \in Nat /\ waited \in 0 .. UploadTimeout BY <2>2 DEF TypeOK
  <2>4. stored' \in Seq(Items) /\ index' \in IndexType
    BY <1>3, SMT DEF StoreNothing, VoidIndex, IndexType
  <2>5. /\ receiving' = FALSE /\ link' = NoLink /\ asked' = NoRequest /\ dest' = dest
        /\ request_i' = request_i /\ request_last' = request_last /\ waited' = waited
        /\ starts' = starts
    BY <1>3 DEF StopReceiving, EndHistory
  <2> QED BY <1>3, <2>1, <2>2, <2>3, <2>4, <2>5, EndedKeeps
<1>4. CASE /\ n \in 1 .. max_items /\ starts < MaxStarts
           /\ \E l \in Links : init_send_requests(g, l, 0, n - 1)
           /\ new_items' = [i \in 1 .. n |-> Garbage] /\ new_items_count' = n
           /\ updated_mask' = IF receiving THEN NoMask ELSE updated_mask
           /\ StartHistory(<<>>) /\ UNCHANGED <<fenceVars, result>>
  <2>1. updated_mask' = NoMask BY <1>4 DEF IInv, ResourcesFreed
  <2>2. StartHistory(base') BY <1>4 DEF StartHistory
  <2>3. n \in Nat /\ n - 1 \in Nat BY <1>4, SMT
  <2> QED BY <1>4, <2>1, <2>2, <2>3, StartedKeeps, SMT
<1> QED BY <1>1, <1>2, <1>3, <1>4 DEF handle_mission_count

\* MISSION_WRITE_PARTIAL_LIST: refused, or the start of an upload that changes the
\* fence that is stored.
LEMMA PartialKeeps ==
    ASSUME IInv, NEW g \in Stations, NEW first \in 0 .. max_items, NEW last \in 0 .. max_items,
           handle_mission_write_partial_list(g, first, last)
    PROVE  IInv'
<1>1. CASE Refused(g) BY <1>1, RefusedKeeps
<1>2. CASE /\ starts < MaxStarts /\ first <= last
           /\ \E l \in Links : init_send_requests(g, l, first, last)
           /\ new_items' = [i \in 1 .. num_stored_items |-> Garbage]
           /\ new_items_count' = num_stored_items /\ updated_mask' = {}
           /\ StartHistory(stored) /\ UNCHANGED <<fenceVars, result>>
  <2>1. StartHistory(base') /\ base' = stored BY <1>2 DEF StartHistory
  <2>2. num_stored_items \in Nat BY DEF IInv, TypeOK, num_stored_items
  <2>3. first \in Nat /\ last \in Nat BY SMT
  <2> QED BY <1>2, <2>1, <2>2, <2>3, StartedKeeps
<1> QED BY <1>1, <1>2 DEF handle_mission_write_partial_list

\* MISSION_CLEAR_ALL: refused, or the fence and the upload are gone.
LEMMA ClearKeeps ==
    ASSUME IInv, NEW g \in Stations, handle_mission_clear_all(g)
    PROVE  IInv'
<1>1. CASE Refused(g) BY <1>1, RefusedKeeps
<1>2. CASE /\ StopReceiving /\ StoreNothing
           /\ IF receiving THEN free_upload_resources ELSE UNCHANGED bufVars
           /\ Reply(g, "accepted") /\ EndHistory /\ UNCHANGED queued
  <2>1. result' \in ResultType BY <1>2, ReplyTyped DEF Results
  <2>2. TypeOK BY DEF IInv
  <2>3. request_i \in Nat /\ waited \in 0 .. UploadTimeout /\ new_items_count \in Nat
    BY <2>2 DEF TypeOK
  <2>4. stored' \in Seq(Items) /\ index' \in IndexType
    BY <1>2, SMT DEF StoreNothing, VoidIndex, IndexType
  <2>5. /\ receiving' = FALSE /\ link' = NoLink /\ asked' = NoRequest /\ dest' = dest
        /\ request_i' = request_i /\ request_last' = request_last /\ waited' = waited
        /\ starts' = starts
    BY <1>2 DEF StopReceiving, EndHistory
  <2>6. new_items' = <<>> /\ updated_mask' = NoMask /\ new_items_count' = new_items_count
    BY <1>2 DEF free_upload_resources, bufVars, IInv, ResourcesFreed
  <2> QED BY <1>2, <2>1, <2>2, <2>3, <2>4, <2>5, <2>6, EndedKeeps
<1> QED BY <1>1, <1>2 DEF handle_mission_clear_all
-----------------------------------------------------------------------------
(* Items                                                                    *)

ItemsWith(seq, it) == [new_items EXCEPT ![seq + 1] = it]
MaskWith(seq) == IF updated_mask = NoMask THEN NoMask ELSE updated_mask \cup {seq}
SentWith(seq, it) == [i \in DOMAIN sent \cup {seq} |-> IF i = seq THEN it ELSE sent[i]]

\* The state in which the item that was asked for arrives from the uploader.
Expected(seq, it) ==
    /\ IInv /\ receiving /\ seq = request_i /\ it \in Items /\ Replaceable(seq, it)

\* The item goes to its place in the list, in the mask and in the history.
LEMMA ItemPlaced ==
    ASSUME NEW seq, NEW it, Expected(seq, it)
    PROVE  /\ seq \in Nat /\ seq < new_items_count /\ new_items_count \in Nat
           /\ ItemsWith(seq, it) \in [1 .. new_items_count -> Items \cup {Garbage}]
           /\ \A i \in DOMAIN SentWith(seq, it) :
                 /\ i \in Nat /\ i < new_items_count /\ SentWith(seq, it)[i] \in Items
                 /\ ItemsWith(seq, it)[i + 1] = SentWith(seq, it)[i]
           /\ MaskWith(seq) = NoMask => /\ request_last = new_items_count - 1
                                        /\ DOMAIN SentWith(seq, it) = 0 .. request_i
           /\ MaskWith(seq) # NoMask => /\ MaskWith(seq) = DOMAIN SentWith(seq, it)
                                        /\ base = stored
           /\ MaskWith(seq) = NoMask \/ MaskWith(seq) \subseteq Nat
<1>1. /\ seq \in Nat /\ seq < new_items_count /\ new_items_count \in Nat /\ it \in Items
      /\ updated_mask = NoMask \/ updated_mask \subseteq Nat
      /\ seq = request_i
  BY DEF Expected, Replaceable, IInv, TypeOK
<1>2. /\ new_items \in [1 .. new_items_count -> Items \cup {Garbage}]
      /\ \A i \in DOMAIN sent : /\ i \in Nat /\ i < new_items_count
                                /\ sent[i] \in Items /\ new_items[i + 1] = sent[i]
      /\ updated_mask = NoMask => /\ request_last = new_items_count - 1
                                  /\ DOMAIN sent = 0 .. request_i - 1
      /\ updated_mask # NoMask => updated_mask = DOMAIN sent /\ base = stored
  BY DEF Expected, IInv, ReceivedOK
<1>3. ItemsWith(seq, it) \in [1 .. new_items_count -> Items \cup {Garbage}]
  BY <1>1, <1>2 DEF ItemsWith
<1>4. \A i \in 1 .. new_items_count :
         ItemsWith(seq, it)[i] = IF i = seq + 1 THEN it ELSE new_items[i]
  BY <1>1, <1>2 DEF ItemsWith
<1>5. DOMAIN SentWith(seq, it) = DOMAIN sent \cup {seq}
  BY DEF SentWith
<1>6. \A i \in DOMAIN SentWith(seq, it) :
         SentWith(seq, it)[i] = IF i = seq THEN it ELSE sent[i]
  BY DEF SentWith
<1>7. ASSUME NEW i \in DOMAIN SentWith(seq, it)
      PROVE  /\ i \in Nat /\ i < new_items_count /\ SentWith(seq, it)[i] \in Items
             /\ ItemsWith(seq, it)[i + 1] = SentWith(seq, it)[i]
  <2>1. i \in Nat /\ i < new_items_count BY <1>1, <1>2, <1>5
  <2>2. i + 1 \in 1 .. new_items_count /\ (i + 1 = seq + 1 <=> i = seq) BY <1>1, <2>1, SMT
  <2> QED BY <1>1, <1>2, <1>4, <1>5, <1>6, <2>1, <2>2
<1>8. MaskWith(seq) = NoMask <=> updated_mask = NoMask
  BY <1>1, SMT DEF MaskWith, NoMask
<1>9. MaskWith(seq) = NoMask => /\ request_last = new_items_count - 1
                                /\ DOMAIN SentWith(seq, it) = 0 .. request_i
  BY <1>1, <1>2, <1>5, <1>8, SMT
<1>10. MaskWith(seq) # NoMask => /\ MaskWith(seq) = DOMAIN SentWith(seq, it)
                                 /\ base = stored
  BY <1>2, <1>5, <1>8 DEF MaskWith
<1>11. MaskWith(seq) = NoMask \/ MaskWith(seq) \subseteq Nat
  BY <1>1, <1>8 DEF MaskWith
<1> QED BY <1>1, <1>3, <1>7, <1>9, <1>10, <1>11

\* What complete() writes after the last item: every item is the one that was sent or,
\* where none was sent, the one that was stored.
LEMMA MergedIsSent ==
    ASSUME NEW seq, NEW it, Expected(seq, it), request_i = request_last,
           \A i \in DOMAIN ItemsWith(seq, it) : Kept(MaskWith(seq), i) => i <= Len(stored)
    PROVE  LET merged == Merged(ItemsWith(seq, it), MaskWith(seq))
           IN  /\ merged \in Seq(Items) /\ DOMAIN merged = 1 .. new_items_count
               /\ \A i \in DOMAIN merged :
                     \/ /\ i - 1 \in DOMAIN SentWith(seq, it)
                        /\ merged[i] = SentWith(seq, it)[i - 1]
                     \/ /\ i - 1 \notin DOMAIN SentWith(seq, it)
                        /\ i \in DOMAIN base /\ merged[i] = base[i]
<1> DEFINE items == ItemsWith(seq, it)
           mask == MaskWith(seq)
           sentw == SentWith(seq, it)
           merged == Merged(items, mask)
<1>1. /\ new_items_count \in Nat /\ items \in [1 .. new_items_count -> Items \cup {Garbage}]
      /\ \A i \in DOMAIN sentw : sentw[i] \in Items /\ items[i + 1] = sentw[i]
      /\ mask = NoMask => request_last = new_items_count - 1 /\ DOMAIN sentw = 0 .. request_i
      /\ mask # NoMask => mask = DOMAIN sentw /\ base = stored
  BY ItemPlaced
<1>2. request_i \in Nat /\ stored \in Seq(Items)
  BY DEF Expected, IInv, TypeOK
<1>3. DOMAIN merged = 1 .. new_items_count
  BY <1>1 DEF Merged
<1>4. \A i \in 1 .. new_items_count : merged[i] = IF Kept(mask, i) THEN stored[i] ELSE items[i]
  BY <1>1 DEF Merged
<1>5. ASSUME NEW i \in 1 .. new_items_count
      PROVE  /\ merged[i] \in Items
             /\ \/ i - 1 \in DOMAIN sentw /\ merged[i] = sentw[i - 1]
                \/ i - 1 \notin DOMAIN sentw /\ i \in DOMAIN base /\ merged[i] = base[i]
  <2>1. CASE Kept(mask, i)
    <3>1. mask # NoMask /\ i - 1 \notin DOMAIN sentw /\ base = stored
      BY <1>1, <2>1 DEF Kept
    <3>2. i \in DOMAIN stored /\ stored[i] \in Items
      <4>1. i \in DOMAIN items BY <1>1
      <4>2. i <= Len(stored) BY <2>1, <4>1
      <4> QED BY <1>2, <4>2, SMT
    <3>3. merged[i] = stored[i] BY <1>4, <2>1
    <3> HIDE DEF items, mask, sentw, merged
    <3> QED BY <3>1, <3>2, <3>3
  <2>2. CASE ~Kept(mask, i)
    <3>1. i - 1 \in DOMAIN sentw
      <4>1. CASE mask = NoMask
        <5>1. DOMAIN sentw = 0 .. request_i /\ request_i = new_items_count - 1 BY <1>1, <4>1
        <5> HIDE DEF items, mask, sentw, merged
        <5> QED BY <1>1, <1>2, <5>1, SMT
      <4>2. CASE mask # NoMask BY <1>1, <2>2, <4>2 DEF Kept
      <4> QED BY <4>1, <4>2
    <3>2. merged[i] = items[i] BY <1>4, <2>2
    <3>3. (i - 1) + 1 = i BY SMT
    <3> HIDE DEF items, mask, sentw, merged
    <3> QED BY <1>1, <3>1, <3>2, <3>3
  <2> QED BY <2>1, <2>2
<1>6. merged \in Seq(Items)
  <2>1. merged = [i \in 1 .. new_items_count |-> merged[i]] BY <1>3 DEF Merged
  <2> HIDE DEF items, mask, sentw, merged
  <2> QED BY <1>1, <1>5, <2>1, SMT
<1> HIDE DEF items, mask, sentw, merged
<1>7. /\ merged \in Seq(Items) /\ DOMAIN merged = 1 .. new_items_count
      /\ \A i \in DOMAIN merged :
            \/ i - 1 \in DOMAIN sentw /\ merged[i] = sentw[i - 1]
            \/ i - 1 \notin DOMAIN sentw /\ i \in DOMAIN base /\ merged[i] = base[i]
  BY <1>3, <1>5, <1>6
<1> QED BY <1>7 DEF items, mask, sentw, merged

\* complete() stores the merged list, whose items could all be read, or nothing.
LEMMA CompleteStores ==
    ASSUME NEW g \in Stations, NEW seq, NEW it, Expected(seq, it),
           Complete(g, ItemsWith(seq, it), MaskWith(seq))
    PROVE  /\ index' \in IndexType /\ result' \in ResultType
           /\ \/ stored' = stored /\ result' = [to |-> g, what |-> "refused"]
              \/ /\ stored' = Merged(ItemsWith(seq, it), MaskWith(seq))
                 /\ result' = [to |-> g, what |-> "accepted"]
                 /\ \A i \in DOMAIN ItemsWith(seq, it) :
                       Kept(MaskWith(seq), i) => i <= Len(stored)
<1> DEFINE items == ItemsWith(seq, it)
           mask == MaskWith(seq)
<1>1. TypeOK /\ index \in IndexType BY DEF Expected, IInv, TypeOK, IndexType
<1>2. PICK x \in IF ReadsStorage(items, mask) THEN check_indexed ELSE {index} :
        \/ index' = x /\ stored' = stored /\ Reply(g, "refused")
        \/ /\ ReadsStorage(items, mask) => Readable(x, items, mask)
           /\ stored' = Merged(items, mask) /\ index' = VoidIndex /\ Reply(g, "accepted")
  BY DEF Complete
<1>3. x \in IndexType BY <1>1, IndexTyped
<1>4. VoidIndex \in IndexType BY DEF VoidIndex, IndexType
<1>5. CASE index' = x /\ stored' = stored /\ Reply(g, "refused")
  <2>1. result' \in ResultType BY <1>5, ReplyTyped DEF Results
  <2> QED BY <1>3, <1>5, <2>1 DEF Reply
<1>6. CASE /\ ReadsStorage(items, mask) => Readable(x, items, mask)
           /\ stored' = Merged(items, mask) /\ index' = VoidIndex /\ Reply(g, "accepted")
  <2>1. result' \in ResultType BY <1>6, ReplyTyped DEF Results
  <2>2. \A i \in DOMAIN items : Kept(mask, i) => i <= Len(stored)
    BY <1>6 DEF ReadsStorage, Readable
  <2> QED BY <1>4, <1>6, <2>1, <2>2 DEF Reply
<1> QED BY <1>2, <1>5, <1>6

\* The last item: the upload ends.
LEMMA LastItemKeeps ==
    ASSUME NEW g \in Stations, NEW seq, NEW it, Expected(seq, it), request_i = request_last,
           Received, transfer_is_complete(g, ItemsWith(seq, it), MaskWith(seq)),
           queued' = queued, starts' = starts
    PROVE  IInv'
<1>1. TypeOK BY DEF Expected, IInv
<1>2. Complete(g, ItemsWith(seq, it), MaskWith(seq)) BY DEF transfer_is_complete
<1>3. index' \in IndexType /\ result' \in ResultType BY <1>2, CompleteStores
<1>4. stored' \in Seq(Items)
  <2>1. CASE stored' = stored BY <1>1, <2>1 DEF TypeOK
  <2>2. CASE /\ stored' = Merged(ItemsWith(seq, it), MaskWith(seq))
             /\ \A i \in DOMAIN ItemsWith(seq, it) :
                   Kept(MaskWith(seq), i) => i <= Len(stored)
    BY <2>2, MergedIsSent
  <2> QED BY <1>2, <2>1, <2>2, CompleteStores
<1>5. /\ request_i' \in Nat /\ waited' \in 0 .. UploadTimeout /\ new_items_count' \in Nat
      /\ dest' = dest /\ request_last' = request_last
  BY <1>1, FenceAssumption, SMT DEF TypeOK, Received, transfer_is_complete, free_upload_resources
<1>6. /\ receiving' = FALSE /\ link' = NoLink /\ asked' = NoRequest
      /\ new_items' = <<>> /\ updated_mask' = NoMask
  BY DEF transfer_is_complete, free_upload_resources
<1> QED BY <1>1, <1>3, <1>4, <1>5, <1>6, EndedKeeps

\* Another item: it is kept, and the next one is asked for.
LEMMA NextItemKeeps ==
    ASSUME NEW seq, NEW it, Expected(seq, it), request_i < request_last,
           Received, AskNext, SentAlso(seq, it),
           new_items' = ItemsWith(seq, it), updated_mask' = MaskWith(seq),
           UNCHANGED <<receiving, link, new_items_count, fenceVars, result>>
    PROVE  IInv'
<1>1. /\ TypeOK /\ ResourcesFreed /\ AsksForNext /\ receiving /\ seq = request_i
  BY DEF Expected, IInv
<1>2. /\ waited' = 0 /\ request_i' = request_i + 1 /\ dest' = dest /\ request_last' = request_last
      /\ sent' = SentWith(seq, it) /\ base' = base /\ starts' = starts
      /\ stored' = stored /\ index' = index
  BY DEF Received, SentAlso, SentWith, fenceVars
<1>3. /\ seq \in Nat /\ new_items_count \in Nat
      /\ new_items' \in [1 .. new_items_count -> Items \cup {Garbage}]
      /\ updated_mask' = NoMask \/ updated_mask' \subseteq Nat
  BY ItemPlaced
<1>4. link \in Links /\ link # NoLink /\ dest \in Stations
  BY <1>1 DEF TypeOK, ResourcesFreed
<1>5. TypeOK'
  <2>1. 0 \in 0 .. UploadTimeout /\ request_i' \in Nat BY <1>1, <1>2, <1>3, FenceAssumption, SMT
  <2>2. new_items' \in Seq(Items \cup {Garbage}) BY <1>3, SMT
  <2>3. queued' \subseteq Links /\ asked' \in [to : Stations, seq : Nat] \cup {NoRequest}
    BY <1>1, <1>2, <1>4, <2>1, SMT DEF AskNext, TypeOK
  <2> QED BY <1>1, <1>2, <1>3, <2>1, <2>2, <2>3 DEF TypeOK
<1>6. ResourcesFreed' BY <1>1, <1>4 DEF ResourcesFreed
<1>7. AsksForNext' BY <1>2, <1>4 DEF AsksForNext, AskNext
<1>8. ReceivedOK'
  <2>1. \A i \in DOMAIN sent' : /\ i \in Nat /\ i < new_items_count
                                /\ sent'[i] \in Items /\ new_items'[i + 1] = sent'[i]
    BY <1>2, ItemPlaced, SMT
  <2>2. updated_mask' = NoMask => /\ request_last = new_items_count - 1
                                  /\ DOMAIN sent' = 0 .. request_i
    BY <1>2, ItemPlaced
  <2>3. updated_mask' # NoMask => updated_mask' = DOMAIN sent' /\ base = stored
    BY <1>2, ItemPlaced
  <2>4. request_i' <= request_last' /\ request_i' - 1 = request_i
    BY <1>1, <1>2, SMT DEF TypeOK
  <2> QED BY <1>2, <1>3, <2>1, <2>2, <2>3, <2>4 DEF ReceivedOK
<1> QED BY <1>5, <1>6, <1>7, <1>8 DEF IInv

\* MISSION_ITEM_INT.
LEMMA ItemKeeps ==
    ASSUME IInv, NEW g \in Stations, NEW seq \in 0 .. max_items, NEW it \in Items,
           handle_mission_item(g, seq, it)
    PROVE  IInv'
<1>1. CASE Refused(g) BY <1>1, RefusedKeeps
<1>2. CASE CancelOnly(g) BY <1>2, CancelKeeps
<1>3. CASE /\ receiving /\ seq = request_i /\ Replaceable(seq, it) /\ Received
           /\ request_i = request_last
           /\ transfer_is_complete(g, ItemsWith(seq, it), MaskWith(seq))
           /\ queued' = queued /\ starts' = starts
  <2>1. Expected(seq, it) BY <1>3 DEF Expected
  <2> QED BY <1>3, <2>1, LastItemKeeps
<1>4. CASE /\ receiving /\ seq = request_i /\ Replaceable(seq, it) /\ Received
           /\ request_i < request_last
           /\ new_items' = ItemsWith(seq, it) /\ updated_mask' = MaskWith(seq) /\ AskNext
           /\ SentAlso(seq, it)
           /\ UNCHANGED <<receiving, link, new_items_count, fenceVars, result>>
  <2>1. Expected(seq, it) BY <1>4 DEF Expected
  <2> QED BY <1>4, <2>1, NextItemKeeps
<1> QED
  BY <1>1, <1>2, <1>3, <1>4
  DEF handle_mission_item, UnexpectedItem, ItemsWith, MaskWith, SentAlso, EndHistory
-----------------------------------------------------------------------------
(* Downloads and the main loop                                              *)

\* Reading the fence, with the indexing it may cause.
LEMMA ReadKeeps ==
    ASSUME IInv, NEW g \in Stations, NEW seq \in 0 .. max_items,
           \/ handle_mission_request_int(g, seq) \/ handle_mission_request(g, seq)
           \/ handle_mission_request_list(g)
    PROVE  IInv'
<1>1. CASE Refused(g) BY <1>1, RefusedKeeps
<1>2. CASE get_item(g, seq)
  <2>1. index' \in IndexType
    BY <1>2, IndexTyped DEF get_item, IInv, TypeOK, IndexType
  <2>2. result' \in ResultType
    <3>1. CASE Reply(g, "refused") BY <3>1, ReplyTyped DEF Results
    <3>2. CASE Reply(g, "sent") BY <3>2, ReplyTyped DEF Results
    <3> QED BY <1>2, <3>1, <3>2 DEF get_item
  <2>3. waited' \in 0 .. UploadTimeout /\ queued' = queued /\ queued \subseteq Links
    BY <1>2 DEF get_item, protVars, IInv, TypeOK
  <2> QED BY <1>2, <2>1, <2>2, <2>3, PassiveKeeps DEF get_item, protVars
<1>3. CASE handle_mission_request_list(g)
  <2>1. result' \in ResultType
    <3>1. CASE Reply(g, "refused") BY <3>1, ReplyTyped DEF Results
    <3>2. CASE Reply(g, "sent") BY <3>2, ReplyTyped DEF Results
    <3> QED BY <1>3, <3>1, <3>2 DEF handle_mission_request_list
  <2>2. /\ waited' \in 0 .. UploadTimeout /\ queued' = queued /\ queued \subseteq Links
        /\ index' \in IndexType
    BY <1>3 DEF handle_mission_request_list, protVars, fenceVars, IInv, TypeOK, IndexType
  <2> QED BY <1>3, <2>1, <2>2, PassiveKeeps DEF handle_mission_request_list, protVars, fenceVars
<1> QED BY <1>1, <1>2, <1>3 DEF handle_mission_request_int, handle_mission_request

\* update() gives the upload up, or lets time pass.
LEMMA UpdateKeeps ==
    ASSUME IInv, update
    PROVE  IInv'
<1>1. TypeOK /\ receiving /\ dest \in Stations BY DEF IInv, TypeOK, update
<1>2. CASE /\ StopReceiving /\ free_upload_resources /\ Reply(dest, "refused")
           /\ EndHistory /\ UNCHANGED queued
  <2>1. result' \in ResultType BY <1>1, <1>2, ReplyTyped DEF Results
  <2>2. /\ receiving' = FALSE /\ link' = NoLink /\ asked' = NoRequest /\ dest' = dest
        /\ request_i' = request_i /\ request_last' = request_last /\ waited' = waited
        /\ new_items' = <<>> /\ updated_mask' = NoMask /\ new_items_count' = new_items_count
        /\ starts' = starts /\ stored' = stored /\ index' = index /\ queued' = queued
    BY <1>2 DEF StopReceiving, free_upload_resources, EndHistory, update, fenceVars
  <2>3. /\ request_i \in Nat /\ waited \in 0 .. UploadTimeout /\ new_items_count \in Nat
        /\ stored \in Seq(Items) /\ index \in IndexType
    BY <1>1 DEF TypeOK, IndexType
  <2> QED BY <1>1, <2>1, <2>2, <2>3, EndedKeeps
<1>3. CASE /\ waited < UploadTimeout /\ waited' = waited + 1
           /\ queued' \in {queued, queued \cup {link}}
           /\ UNCHANGED <<receiving, link, dest, request_i, request_last, asked, bufVars, result,
                          histVars>>
  <2>1. waited' \in 0 .. UploadTimeout BY <1>1, <1>3, FenceAssumption, SMT DEF TypeOK
  <2>2. link \in Links BY <1>1 DEF IInv, ResourcesFreed, TypeOK
  <2>3. queued \subseteq queued' /\ queued' \subseteq Links BY <1>1, <1>3, <2>2 DEF TypeOK
  <2>4. stored' = stored /\ index' \in IndexType /\ result' \in ResultType
    BY <1>1, <1>3 DEF update, fenceVars, TypeOK, IndexType, ResultType
  <2> QED BY <1>3, <2>1, <2>3, <2>4, PassiveKeeps
<1> QED BY <1>2, <1>3 DEF update

\* A request goes out of the queue of a link.
LEMMA SendKeeps ==
    ASSUME IInv, NEW l \in Links, queued_request_send(l)
    PROVE  IInv'
<1>1. /\ UNCHANGED <<receiving, link, dest, request_i, request_last, waited, bufVars, fenceVars,
                     result, histVars>>
      /\ queued' = queued \ {l}
      /\ \/ receiving /\ asked' = [to |-> dest, seq |-> request_i]
         \/ (~receiving \/ l # link) /\ asked' = asked
  BY DEF queued_request_send
<1>2. TypeOK' BY <1>1, SMT DEF IInv, TypeOK, bufVars, fenceVars, histVars
<1>3. ResourcesFreed' BY <1>1 DEF IInv, ResourcesFreed, bufVars
<1>4. AsksForNext' BY <1>1 DEF IInv, AsksForNext
<1>5. ReceivedOK' BY <1>1 DEF IInv, ReceivedOK, bufVars, fenceVars, histVars
<1> QED BY <1>2, <1>3, <1>4, <1>5 DEF IInv

\* AC_Fence::update() indexes the fence.
LEMMA FenceUpdateKeeps ==
    ASSUME IInv, FenceUpdate
    PROVE  IInv'
<1>1. index' \in IndexType BY IndexTyped DEF FenceUpdate, IInv
<1>2. /\ waited' \in 0 .. UploadTimeout /\ queued' = queued /\ queued \subseteq Links
      /\ result' \in ResultType
  BY DEF FenceUpdate, protVars, IInv, TypeOK, ResultType
<1> QED BY <1>1, <1>2, PassiveKeeps DEF FenceUpdate, protVars

\* Every step keeps the invariant.
LEMMA StepOK == IInv /\ [Next]_vars => IInv'
<1> SUFFICES ASSUME IInv, [Next]_vars PROVE IInv' OBVIOUS
<1>1. ASSUME NEW g \in Stations, Message(g) PROVE IInv'
  <2>1. 0 \in 0 .. max_items BY FenceAssumption, SMT DEF max_items
  <2> QED BY <1>1, <2>1, CountKeeps, PartialKeeps, ItemKeeps, ReadKeeps, ClearKeeps DEF Message
<1>2. CASE UNCHANGED vars
  <2>1. /\ UNCHANGED <<receiving, link, dest, request_i, request_last, asked, bufVars, stored,
                       histVars>>
        /\ waited' \in 0 .. UploadTimeout /\ queued' = queued /\ queued \subseteq Links
        /\ index' \in IndexType /\ result' \in ResultType
    BY <1>2 DEF vars, protVars, fenceVars, IInv, TypeOK, IndexType, ResultType
  <2> QED BY <2>1, PassiveKeeps
<1> QED BY <1>1, <1>2, UpdateKeeps, FenceUpdateKeeps, SendKeeps DEF Next
-----------------------------------------------------------------------------
(* The theorems                                                             *)

\* The invariant holds in every state.
LEMMA Invariant == Spec => []IInv
BY InitOK, StepOK, PTL DEF Spec

\* Every variable keeps its type; in particular an item that was allocated and not
\* received is never stored.
THEOREM TypeCorrect == Spec => []TypeOK
<1>1. IInv => TypeOK BY DEF IInv
<1> QED BY <1>1, Invariant, PTL

\* Whichever way an upload ends, its list, its mask and its link are freed.
THEOREM AlwaysFreed == Spec => []ResourcesFreed
<1>1. IInv => ResourcesFreed BY DEF IInv
<1> QED BY <1>1, Invariant, PTL

\* The next item has been asked for, or the request is queued.
THEOREM AlwaysAsked == Spec => []AsksForNext
<1>1. IInv => AsksForNext BY DEF IInv
<1> QED BY <1>1, Invariant, PTL

OwnerStep ==
    receiving /\ stored' # stored =>
        ~receiving' /\ result' = [to |-> dest, what |-> "accepted"]

\* A step of the upload that completes it says whose answer it is.
LEMMA ItemOwner ==
    ASSUME IInv, receiving, NEW g \in Stations, NEW seq, NEW it \in Items,
           handle_mission_item(g, seq, it)
    PROVE  OwnerStep
<1>1. CASE Refused(g) \/ CancelOnly(g)
  BY <1>1 DEF OwnerStep, Refused, CancelOnly, fenceVars
<1>2. CASE /\ seq = request_i /\ g = dest /\ Replaceable(seq, it)
           /\ transfer_is_complete(g, ItemsWith(seq, it), MaskWith(seq))
  <2>1. Expected(seq, it) BY <1>2 DEF Expected
  <2>2. Complete(g, ItemsWith(seq, it), MaskWith(seq)) /\ receiving' = FALSE
    BY <1>2 DEF transfer_is_complete
  <2> QED BY <1>2, <2>1, <2>2, CompleteStores DEF OwnerStep
<1>3. CASE stored' = stored BY <1>3 DEF OwnerStep
<1> QED
  BY <1>1, <1>2, <1>3 DEF handle_mission_item, UnexpectedItem, ItemsWith, MaskWith, fenceVars

\* The fence changes during an upload only when the uploader completes, restarts with
\* an empty list, or clears: others cannot change it.
THEOREM OwnerOnly == Spec => UploaderOwnsFence
<1>1. IInv /\ [Next]_vars => [OwnerStep]_vars
  <2> SUFFICES ASSUME IInv, Next, receiving, stored' # stored PROVE OwnerStep
    BY DEF OwnerStep
  <2>1. ASSUME NEW g \in Stations, Message(g) PROVE OwnerStep
    <3>1. ASSUME NEW n, handle_mission_count(g, n) PROVE OwnerStep
      <4>1. CASE MayCancel(g) /\ StopReceiving /\ Reply(g, "accepted")
        BY <4>1 DEF OwnerStep, MayCancel, StopReceiving, Reply
      <4> QED
        BY <3>1, <4>1 DEF handle_mission_count, Refused, CancelOnly, fenceVars
    <3>2. ASSUME NEW first, NEW last, handle_mission_write_partial_list(g, first, last)
          PROVE  OwnerStep
      BY <3>2 DEF handle_mission_write_partial_list, Refused, fenceVars
    <3>3. ASSUME NEW seq, NEW it \in Items, handle_mission_item(g, seq, it) PROVE OwnerStep
      BY <3>3, ItemOwner
    <3>4. ASSUME NEW seq, handle_mission_request_int(g, seq) \/ handle_mission_request(g, seq)
          PROVE  OwnerStep
      BY <3>4 DEF handle_mission_request_int, handle_mission_request, get_item, Refused, fenceVars
    <3>5. ASSUME handle_mission_clear_all(g) PROVE OwnerStep
      <4>1. CASE MayCancel(g) /\ StopReceiving /\ Reply(g, "accepted")
        BY <4>1 DEF OwnerStep, MayCancel, StopReceiving, Reply
      <4> QED BY <3>5, <4>1 DEF handle_mission_clear_all, Refused, fenceVars
    <3>6. ASSUME handle_mission_request_list(g) PROVE OwnerStep
      BY <3>6 DEF handle_mission_request_list, fenceVars
    <3> QED BY <2>1, <3>1, <3>2, <3>3, <3>4, <3>5, <3>6 DEF Message
  <2>2. ~(update \/ FenceUpdate \/ \E l \in Links : queued_request_send(l))
    BY DEF update, FenceUpdate, queued_request_send, fenceVars
  <2> QED BY <2>1, <2>2 DEF Next
<1> QED BY <1>1, Invariant, PTL DEF Spec, UploaderOwnsFence, OwnerStep

AcceptStep ==
    receiving /\ request_i' # request_i /\ ~receiving' /\ result'.what = "accepted" =>
        /\ DOMAIN stored' = 1 .. new_items_count
        /\ \A i \in DOMAIN stored' :
              \/ i - 1 \in DOMAIN sent' /\ stored'[i] = sent'[i - 1]
              \/ i - 1 \notin DOMAIN sent' /\ i \in DOMAIN base /\ stored'[i] = base[i]

\* The last item stores what was sent.
LEMMA ItemAccepted ==
    ASSUME IInv, NEW g \in Stations, NEW seq, NEW it \in Items,
           handle_mission_item(g, seq, it), receiving, request_i' # request_i, ~receiving',
           result'.what = "accepted"
    PROVE  AcceptStep
<1>1. ~Refused(g) /\ ~CancelOnly(g)
  BY DEF Refused, CancelOnly, StopReceiving, protVars
<1>2. /\ Expected(seq, it) /\ request_i = request_last
      /\ transfer_is_complete(g, ItemsWith(seq, it), MaskWith(seq))
      /\ sent' = SentWith(seq, it)
  BY <1>1
  DEF handle_mission_item, UnexpectedItem, Expected, ItemsWith, MaskWith, SentAlso, SentWith
<1>3. /\ stored' = Merged(ItemsWith(seq, it), MaskWith(seq))
      /\ \A i \in DOMAIN ItemsWith(seq, it) : Kept(MaskWith(seq), i) => i <= Len(stored)
  <2>1. Complete(g, ItemsWith(seq, it), MaskWith(seq)) BY <1>2 DEF transfer_is_complete
  <2>2. result' # [to |-> g, what |-> "refused"] BY SMT
  <2> QED BY <1>2, <2>1, <2>2, CompleteStores
<1> QED BY <1>2, <1>3, MergedIsSent DEF AcceptStep

\* An accepted upload has stored exactly the items that were sent and, for a partial
\* list, the items stored before where none was sent.
THEOREM StoresWhatWasSent == Spec => AcceptedIsStored
<1>1. IInv /\ [Next]_vars => [AcceptStep]_vars
  <2> SUFFICES ASSUME IInv, Next, receiving, request_i' # request_i, ~receiving',
                      result'.what = "accepted"
               PROVE  AcceptStep
    BY DEF AcceptStep
  <2>1. ASSUME NEW g \in Stations, Message(g) PROVE AcceptStep
    <3>1. ASSUME NEW n PROVE ~handle_mission_count(g, n)
      BY DEF handle_mission_count, Refused, CancelOnly, StopReceiving, init_send_requests, protVars
    <3>2. ASSUME NEW first, NEW last PROVE ~handle_mission_write_partial_list(g, first, last)
      BY DEF handle_mission_write_partial_list, Refused, protVars
    <3>3. ASSUME NEW seq, NEW it \in Items, handle_mission_item(g, seq, it) PROVE AcceptStep
      BY <3>3, ItemAccepted
    <3>4. ASSUME NEW seq
          PROVE  ~handle_mission_request_int(g, seq) /\ ~handle_mission_request(g, seq)
      BY DEF handle_mission_request_int, handle_mission_request, get_item, Refused, protVars
    <3>5. ~handle_mission_clear_all(g) /\ ~handle_mission_request_list(g)
      BY DEF handle_mission_clear_all, handle_mission_request_list, Refused, StopReceiving, protVars
    <3> QED BY <2>1, <3>1, <3>2, <3>3, <3>4, <3>5 DEF Message
  <2>2. ~(update \/ FenceUpdate \/ \E l \in Links : queued_request_send(l))
    BY DEF update, StopReceiving, FenceUpdate, queued_request_send, protVars
  <2> QED BY <2>1, <2>2 DEF Next
<1> QED BY <1>1, Invariant, PTL DEF Spec, AcceptedIsStored, AcceptStep
-----------------------------------------------------------------------------
(* The stored fence: the three passes over its items agree                 *)

\* The three passes over a list of items, turn by turn: validate_fence(),
\* fence_storage_space_required() and write_fence().
ScanTurn(pass, items, k, s) ==
    IF pass = 1 THEN
        IF k = 0 THEN [ok |-> TRUE, left |-> 0, type |-> "none", n |-> 0, ret |-> FALSE]
        ELSE ValidateItem(s, items[k])
    ELSE IF pass = 2 THEN
        IF k = 0 THEN [skip |-> 0, bytes |-> 4] ELSE SpaceItem(s, items[k])
    ELSE
        IF k = 0 THEN [left |-> 0, offset |-> 4] ELSE WriteItem(s, items[k])

IsScan(pass, items, n, f) == f = [k \in 0 .. n |-> ScanTurn(pass, items, k, f[k - 1])]

\* The recursion of the three defines functions.
LEMMA ScanExists ==
    ASSUME NEW pass, NEW items
    PROVE  \A n \in Nat : \E f : IsScan(pass, items, n, f)
<1> DEFINE S == {n \in Nat : \E f : IsScan(pass, items, n, f)}
<1>1. 0 \in S
  <2> DEFINE f == [k \in 0 .. 0 |-> ScanTurn(pass, items, 0, 0)]
  <2>1. IsScan(pass, items, 0, f)
    BY SMT DEF IsScan, ScanTurn
  <2> QED BY <2>1
<1>2. ASSUME NEW n \in Nat, n \in S PROVE n + 1 \in S
  <2>1. PICK f : IsScan(pass, items, n, f)
    BY <1>2
  <2> DEFINE g == [k \in 0 .. n + 1 |->
                     IF k = n + 1 THEN ScanTurn(pass, items, k, f[n]) ELSE f[k]]
  <2>2. ASSUME NEW k \in 0 .. n + 1 PROVE g[k] = ScanTurn(pass, items, k, g[k - 1])
    <3>1. CASE k = n + 1
      <4>1. g[k - 1] = f[n] BY <3>1, SMT
      <4> QED BY <3>1, <4>1
    <3>2. CASE k \in 1 .. n
      <4>1. g[k] = f[k] /\ g[k - 1] = f[k - 1] BY <3>2, SMT
      <4> QED BY <3>2, <4>1, <2>1, SMT DEF IsScan
    <3>3. CASE k = 0
      <4>1. g[k] = ScanTurn(pass, items, 0, f[0 - 1]) BY <3>3, <2>1, SMT DEF IsScan
      <4> QED BY <3>3, <4>1 DEF ScanTurn
    <3> QED BY <3>1, <3>2, <3>3, SMT
  <2>3. g = [k \in 0 .. n + 1 |-> ScanTurn(pass, items, k, g[k - 1])]
    <3> HIDE DEF g
    <3>1. g = [k \in 0 .. n + 1 |-> g[k]] BY DEF g
    <3> QED BY <2>2, <3>1
  <2>4. IsScan(pass, items, n + 1, g) BY <2>3 DEF IsScan
  <2> QED BY <2>4, SMT
<1> HIDE DEF S
<1>3. \A n \in Nat : n \in S
  BY <1>1, <1>2, NatSetInduction
<1> QED BY <1>3 DEF S

\* What they make of the items before the first one, and of each item.
LEMMA ScanTurns ==
    ASSUME NEW items, Len(items) \in Nat
    PROVE  \A k \in 0 .. Len(items) :
              /\ Validated(items)[k] = ScanTurn(1, items, k, Validated(items)[k - 1])
              /\ Space(items)[k] = ScanTurn(2, items, k, Space(items)[k - 1])
              /\ Written(items)[k] = ScanTurn(3, items, k, Written(items)[k - 1])
<1> DEFINE L == Len(items)
<1>1. ASSUME NEW pass
      PROVE  \A k \in 0 .. L : (CHOOSE f : IsScan(pass, items, L, f))[k]
                = ScanTurn(pass, items, k, (CHOOSE f : IsScan(pass, items, L, f))[k - 1])
  <2>1. PICK g : g = CHOOSE f : IsScan(pass, items, L, f)
    OBVIOUS
  <2>2. IsScan(pass, items, L, g)
    BY <2>1, ScanExists
  <2> HIDE DEF L
  <2>3. \A k \in 0 .. L : g[k] = ScanTurn(pass, items, k, g[k - 1])
    BY <2>2 DEF IsScan
  <2> QED BY <2>1, <2>3
<1>2. Validated(items) = CHOOSE f : IsScan(1, items, L, f)
  BY DEF Validated, IsScan, ScanTurn
<1>3. Space(items) = CHOOSE f : IsScan(2, items, L, f)
  BY SMT DEF Space, IsScan, ScanTurn
<1>4. Written(items) = CHOOSE f : IsScan(3, items, L, f)
  BY SMT DEF Written, IsScan, ScanTurn
<1> QED BY <1>1, <1>2, <1>3, <1>4

\* Where the three are after k items of a list that is valid so far: at the same vertex
\* of a polygon, of which the size counts the vertices that are still to be written.
Together(v, s, z) ==
    /\ v.ok \in BOOLEAN
    /\ v.ok => /\ v.left \in Nat /\ s.skip = v.left /\ z.left = v.left
               /\ s.bytes \in Nat /\ z.offset \in Nat /\ z.offset + 8 * v.left = s.bytes

\* The shapes of the three states.
Shaped(v, s, z) ==
    /\ v = [ok |-> v.ok, left |-> v.left, type |-> v.type, n |-> v.n, ret |-> v.ret]
    /\ s = [skip |-> s.skip, bytes |-> s.bytes]
    /\ z = [left |-> z.left, offset |-> z.offset]

\* One item: a first vertex, a further vertex, or no vertex.
LEMMA ItemTogether ==
    ASSUME NEW v, NEW s, NEW z, Shaped(v, s, z), Together(v, s, z),
           NEW it, it.n \in Nat
    PROVE  /\ Shaped(ValidateItem(v, it), SpaceItem(s, it), WriteItem(z, it))
           /\ ValidateItem(v, it).ok \in BOOLEAN
                => Together(ValidateItem(v, it), SpaceItem(s, it), WriteItem(z, it))
<1>1. ItemBytes(it) \in Nat
  BY DEF ItemBytes
<1>2. PICK v2, s2, w2 : v2 = ValidateItem(v, it) /\ s2 = SpaceItem(s, it) /\ w2 = WriteItem(z, it)
  OBVIOUS
<1>3. Shaped(v2, s2, w2)
  <2>1. v2 = [ok |-> v2.ok, left |-> v2.left, type |-> v2.type, n |-> v2.n, ret |-> v2.ret]
    BY <1>2 DEF Shaped, ValidateItem
  <2>2. s2 = [skip |-> s2.skip, bytes |-> s2.bytes]
    BY <1>2 DEF Shaped, SpaceItem
  <2>3. w2 = [left |-> w2.left, offset |-> w2.offset]
    BY <1>2 DEF Shaped, WriteItem
  <2> QED BY <2>1, <2>2, <2>3 DEF Shaped
<1>4. ASSUME v2.ok = TRUE
      PROVE  /\ v2.left \in Nat /\ s2.skip = v2.left /\ w2.left = v2.left
             /\ s2.bytes \in Nat /\ w2.offset \in Nat /\ w2.offset + 8 * v2.left = s2.bytes
  <2>1. CASE IsVertex(it)
    <3>1. /\ v.ok /\ it.n >= 3
          /\ v2.left = (IF v.left = 0 THEN it.n ELSE v.left) - 1
      BY <1>2, <1>4, <2>1 DEF ValidateItem, Shaped, Together
    <3>2. /\ v.left \in Nat /\ s.skip = v.left /\ z.left = v.left
          /\ s.bytes \in Nat /\ z.offset \in Nat /\ z.offset + 8 * v.left = s.bytes
      BY <3>1 DEF Together
    <3>3. CASE v.left = 0
      <4>1. s2.skip = it.n - 1 /\ s2.bytes = s.bytes + 2 + 8 * it.n
        BY <1>2, <2>1, <3>2, <3>3, SMT DEF SpaceItem
      <4>2. w2.left = it.n - 1 /\ w2.offset = z.offset + 8 + 2
        BY <1>2, <2>1, <3>2, <3>3 DEF WriteItem
      <4> QED BY <3>1, <3>2, <3>3, <4>1, <4>2, SMT
    <3>4. CASE v.left # 0
      <4>1. s2.skip = s.skip - 1 /\ s2.bytes = s.bytes
        BY <1>2, <2>1, <3>2, <3>4, SMT DEF SpaceItem, Shaped
      <4>2. w2.left = z.left - 1 /\ w2.offset = z.offset + 8 + 0
        BY <1>2, <2>1, <3>2, <3>4 DEF WriteItem
      <4> QED BY <3>1, <3>2, <3>4, <4>1, <4>2, SMT
    <3> QED BY <3>3, <3>4
  <2>2. CASE ~IsVertex(it)
    <3>1. v.ok /\ v.left = 0 /\ v2.left = v.left
      BY <1>2, <1>4, <2>2 DEF ValidateItem, Shaped, Together
    <3>2. /\ v.left \in Nat /\ s.skip = v.left /\ z.left = v.left
          /\ s.bytes \in Nat /\ z.offset \in Nat /\ z.offset + 8 * v.left = s.bytes
      BY <3>1 DEF Together
    <3>3. s2.skip = s.skip /\ s2.bytes = s.bytes + ItemBytes(it)
      BY <1>2, <2>2, <3>1, <3>2, SMT DEF SpaceItem, Shaped
    <3>4. w2.left = z.left /\ w2.offset = z.offset + ItemBytes(it)
      BY <1>2, <2>2 DEF WriteItem, Shaped
    <3> QED BY <1>1, <3>1, <3>2, <3>3, <3>4, SMT
  <2> QED BY <2>1, <2>2
<1> QED BY <1>2, <1>3, <1>4 DEF Together

\* They stay together over all the items.
PassesAt(items, k) ==
    LET v == Validated(items)[k]   s == Space(items)[k]   z == Written(items)[k]
    IN  Shaped(v, s, z) /\ Together(v, s, z)
LEMMA PassesTogether ==
    ASSUME NEW items \in Seq(Items)
    PROVE  \A k \in 0 .. Len(items) : PassesAt(items, k)
<1> DEFINE S == {k \in Nat : k \in 0 .. Len(items) => PassesAt(items, k)}
<1>0. Len(items) \in Nat
  BY SMT
<1>1. 0 \in S
  <2>1. /\ Validated(items)[0] = [ok |-> TRUE, left |-> 0, type |-> "none", n |-> 0, ret |-> FALSE]
        /\ Space(items)[0] = [skip |-> 0, bytes |-> 4]
        /\ Written(items)[0] = [left |-> 0, offset |-> 4]
    BY <1>0, ScanTurns, SMTT(30) DEF ScanTurn
  <2>2. PICK v, s, z : v = Validated(items)[0] /\ s = Space(items)[0] /\ z = Written(items)[0]
    OBVIOUS
  <2>3. Shaped(v, s, z) /\ Together(v, s, z)
    BY <2>1, <2>2, SMTT(30) DEF Shaped, Together
  <2>4. PassesAt(items, 0)
    BY <2>2, <2>3 DEF PassesAt
  <2> QED BY <2>4, NatFacts
<1>2. ASSUME NEW k \in Nat, k \in S PROVE k + 1 \in S
  <2> SUFFICES ASSUME k + 1 \in 0 .. Len(items) PROVE PassesAt(items, k + 1)
    BY SMT
  <2>1. PassesAt(items, k) /\ k + 1 \in 1 .. Len(items) /\ k + 1 # 0 /\ (k + 1) - 1 = k
    BY <1>0, <1>2, SMT
  <2>2. PICK it \in Items : it = items[k + 1]
    BY <2>1, SMT
  <2>3. it.n \in Nat
    BY FenceAssumption
  <2>4. PICK v, s, z : v = Validated(items)[k] /\ s = Space(items)[k] /\ z = Written(items)[k]
    OBVIOUS
  <2>5. /\ Validated(items)[k + 1] = ValidateItem(v, it)
        /\ Space(items)[k + 1] = SpaceItem(s, it)
        /\ Written(items)[k + 1] = WriteItem(z, it)
    BY <1>0, <2>1, <2>2, <2>4, ScanTurns, SMTT(30) DEF ScanTurn
  <2>6. Shaped(v, s, z) /\ Together(v, s, z)
    BY <2>1, <2>4 DEF PassesAt
  <2>7. ValidateItem(v, it).ok \in BOOLEAN
    BY <2>6 DEF ValidateItem, Shaped, Together
  <2> QED BY <2>3, <2>5, <2>6, <2>7, ItemTogether DEF PassesAt
<1> HIDE DEF S
<1>3. \A k \in Nat : k \in S
  BY <1>1, <1>2, NatSetInduction
<1> QED BY <1>0, <1>3, SMT DEF S

\* write_fence() of a valid fence ends where fence_storage_space_required() says.
THEOREM EndIsSpace ==
    ASSUME NEW items \in Seq(Items), validate_fence(items)
    PROVE  /\ EndOffset(items) = fence_storage_space_required(items)
           /\ EndOffset(items) \in Nat
<1>1. Len(items) \in Nat /\ Len(items) \in 0 .. Len(items)
  BY SMT
<1>2. PICK v, s, z : /\ v = Validated(items)[Len(items)] /\ s = Space(items)[Len(items)]
                     /\ z = Written(items)[Len(items)]
  OBVIOUS
<1>3. v.ok /\ v.left = 0
  BY <1>2 DEF validate_fence
<1>4. z.offset \in Nat /\ s.bytes \in Nat /\ z.offset + 8 * v.left = s.bytes
  BY <1>1, <1>2, <1>3, PassesTogether DEF PassesAt, Together
<1> QED BY <1>2, <1>3, <1>4, SMT DEF EndOffset, fence_storage_space_required

\* What validate_fence() accepts was acceptable after each item.
LEMMA ValidSoFar ==
    ASSUME NEW items \in Seq(Items), validate_fence(items)
    PROVE  \A k \in 0 .. Len(items) : Validated(items)[k].ok
<1> DEFINE S == {d \in Nat : d <= Len(items) => Validated(items)[Len(items) - d].ok}
<1>1. Len(items) \in Nat
  BY SMT
<1>2. 0 \in S
  <2>1. Validated(items)[Len(items)].ok /\ Len(items) - 0 = Len(items)
    BY <1>1, NatFacts DEF validate_fence
  <2> QED BY <2>1, NatFacts
<1>3. ASSUME NEW d \in Nat, d \in S PROVE d + 1 \in S
  <2> SUFFICES ASSUME d + 1 <= Len(items) PROVE Validated(items)[Len(items) - (d + 1)].ok
    BY SMT
  <2>1. PICK k : k = Len(items) - (d + 1)
    OBVIOUS
  <2>2. /\ k \in 0 .. Len(items) /\ k + 1 \in 0 .. Len(items) /\ k + 1 # 0 /\ (k + 1) - 1 = k
        /\ k + 1 = Len(items) - d /\ d <= Len(items)
    BY <1>1, <2>1, SMT
  <2>3. Validated(items)[k + 1].ok
    BY <1>3, <2>2
  <2>4. PICK v : v = Validated(items)[k]
    OBVIOUS
  <2>5. Validated(items)[k + 1] = ValidateItem(v, items[k + 1])
    BY <1>1, <2>2, <2>4, ScanTurns, SMTT(30) DEF ScanTurn
  <2>6. PICK s, z : Shaped(v, s, z) /\ Together(v, s, z)
    BY <2>2, <2>4, PassesTogether DEF PassesAt
  <2>7. v.ok
    BY <2>3, <2>5, <2>6 DEF ValidateItem, Shaped, Together
  <2> QED BY <2>1, <2>4, <2>7
<1> HIDE DEF S
<1>4. \A d \in Nat : d \in S
  BY <1>2, <1>3, NatSetInduction
<1>5. ASSUME NEW k \in 0 .. Len(items) PROVE Validated(items)[k].ok
  <2>1. Len(items) - k \in Nat /\ Len(items) - k <= Len(items) /\ Len(items) - (Len(items) - k) = k
    BY <1>1, SMT
  <2> QED BY <1>4, <2>1 DEF S
<1> QED BY <1>5

\* Where write_fence() is before and after an item of a valid fence.
ItemWritten(it, z, w) ==
    /\ it.type \in ItemTypes /\ it.n \in Nat /\ z.left \in Nat /\ z.offset \in Nat
    /\ z = [left |-> z.left, offset |-> z.offset]
    /\ z.left # 0 => IsVertex(it) /\ w = [left |-> z.left - 1, offset |-> z.offset + 8 + 0]
    /\ z.left = 0 /\ IsVertex(it) =>
          it.n >= 3 /\ w = [left |-> it.n - 1, offset |-> z.offset + 8 + 2]
    /\ z.left = 0 /\ ~IsVertex(it) => w = [left |-> 0, offset |-> z.offset + ItemBytes(it)]
LEMMA WrittenTurn ==
    ASSUME NEW items \in Seq(Items), validate_fence(items), NEW k \in Nat, k < Len(items)
    PROVE  ItemWritten(items[k + 1], Written(items)[k], Written(items)[k + 1])
<1>1. /\ Len(items) \in Nat /\ k \in 0 .. Len(items) /\ k + 1 \in 0 .. Len(items)
      /\ k + 1 # 0 /\ (k + 1) - 1 = k
  BY SMT
<1>2. PICK it \in Items : it = items[k + 1]
  BY SMT
<1>3. it.n \in Nat
  BY FenceAssumption
<1>4. PICK v, s, z : v = Validated(items)[k] /\ s = Space(items)[k] /\ z = Written(items)[k]
  OBVIOUS
<1>5. /\ Validated(items)[k + 1] = ValidateItem(v, it)
      /\ Written(items)[k + 1] = WriteItem(z, it)
  BY <1>1, <1>2, <1>4, ScanTurns, SMTT(30) DEF ScanTurn
<1>6. Shaped(v, s, z) /\ Together(v, s, z) /\ v.ok /\ ValidateItem(v, it).ok
  BY <1>1, <1>4, <1>5, PassesTogether, ValidSoFar DEF PassesAt
<1>7. z.left \in Nat /\ z.offset \in Nat /\ v.left = z.left
  BY <1>6 DEF Together
<1>8. z = [left |-> z.left, offset |-> z.offset]
  BY <1>6 DEF Shaped
<1>9. /\ it.type \in ItemTypes /\ (z.left # 0 => IsVertex(it))
      /\ (IsVertex(it) => it.n >= 3)
  BY <1>6, <1>7 DEF ValidateItem, Shaped, IsVertex, ItemTypes
<1>10. /\ z.left # 0 /\ IsVertex(it) =>
             WriteItem(z, it) = [left |-> z.left - 1, offset |-> z.offset + 8 + 0]
       /\ z.left = 0 /\ IsVertex(it) =>
             WriteItem(z, it) = [left |-> it.n - 1, offset |-> z.offset + 8 + 2]
  BY DEF WriteItem
<1>11. z.left = 0 /\ ~IsVertex(it) =>
          WriteItem(z, it) = [left |-> 0, offset |-> z.offset + ItemBytes(it)]
  BY <1>8 DEF WriteItem
<1>12. ItemWritten(it, z, WriteItem(z, it))
  BY <1>3, <1>7, <1>8, <1>9, <1>10, <1>11 DEF ItemWritten
<1> QED BY <1>2, <1>4, <1>5, <1>12

\* It only moves forward.
LEMMA WrittenGrows ==
    ASSUME NEW items \in Seq(Items), validate_fence(items)
    PROVE  \A j \in 0 .. Len(items) :
              /\ Written(items)[j].offset \in Nat
              /\ \A k \in 0 .. Len(items) :
                    k < j => Written(items)[k].offset < Written(items)[j].offset
<1> DEFINE W(j) == Written(items)[j].offset
           S == {j \in Nat : j \in 0 .. Len(items) =>
                    W(j) \in Nat /\ \A k \in 0 .. Len(items) : k < j => W(k) < W(j)}
<1>0. Len(items) \in Nat
  BY SMT
<1>1. 0 \in S
  <2>1. Written(items)[0] = [left |-> 0, offset |-> 4]
    BY <1>0, ScanTurns, SMTT(30) DEF ScanTurn
  <2>2. W(0) \in Nat
    BY <2>1, SMT
  <2> HIDE DEF W
  <2> QED BY <1>0, <2>2, SMT
<1>2. ASSUME NEW j \in Nat, j \in S PROVE j + 1 \in S
  <2> SUFFICES ASSUME j + 1 \in 0 .. Len(items)
               PROVE  /\ W(j + 1) \in Nat
                      /\ \A k \in 0 .. Len(items) : k < j + 1 => W(k) < W(j + 1)
    BY SMT
  <2>1. j \in 0 .. Len(items) /\ j < Len(items)
    BY <1>0, SMT
  <2>2. PICK it, z, w : /\ it = items[j + 1] /\ z = Written(items)[j] /\ w = Written(items)[j + 1]
                        /\ ItemWritten(it, z, w)
    BY <2>1, WrittenTurn
  <2>3. z.offset \in Nat /\ w.offset \in Nat /\ z.offset < w.offset
    <3>1. ItemBytes(it) \in Nat /\ ItemBytes(it) > 0
      BY SMT DEF ItemBytes
    <3>2. /\ z.offset \in Nat
          /\ \/ w.offset = z.offset + 8 + 0 \/ w.offset = z.offset + 8 + 2
             \/ w.offset = z.offset + ItemBytes(it)
      <4>1. CASE z.left # 0
        BY <2>2, <4>1, SMT DEF ItemWritten
      <4>2. CASE z.left = 0 /\ IsVertex(it)
        BY <2>2, <4>2, SMT DEF ItemWritten
      <4>3. CASE z.left = 0 /\ ~IsVertex(it)
        BY <2>2, <4>3, SMT DEF ItemWritten
      <4> QED BY <4>1, <4>2, <4>3
    <3> QED BY <3>1, <3>2, SMT
  <2>4. W(j) \in Nat /\ W(j + 1) \in Nat /\ W(j) < W(j + 1)
    BY <2>2, <2>3
  <2>5. \A k \in 0 .. Len(items) : k < j => W(k) < W(j)
    BY <1>2, <2>1
  <2>6. ASSUME NEW k \in 0 .. Len(items), k < j PROVE W(k) \in Int /\ W(k) < W(j)
    <3>1. k \in Nat /\ k < Len(items)
      BY <1>0, <2>1, <2>6, SMT
    <3>2. ItemWritten(items[k + 1], Written(items)[k], Written(items)[k + 1])
      BY <3>1, WrittenTurn
    <3>3. W(k) \in Nat
      BY <3>2 DEF ItemWritten
    <3> HIDE DEF W
    <3> QED BY <2>5, <2>6, <3>3, SMT
  <2> HIDE DEF W
  <2> QED BY <1>0, <2>1, <2>4, <2>6, SMT
<1> HIDE DEF S
<1>3. \A j \in Nat : j \in S
  BY <1>1, <1>2, NatSetInduction
<1>4. ASSUME NEW j \in 0 .. Len(items)
      PROVE  W(j) \in Nat /\ \A k \in 0 .. Len(items) : k < j => W(k) < W(j)
  <2>1. j \in Nat
    BY <1>0, SMT
  <2> QED BY <1>3, <2>1 DEF S
<1> QED BY <1>4

\* From the first vertex of a polygon it comes to where the polygon ends.
LEMMA OverPolygon ==
    ASSUME NEW items \in Seq(Items), validate_fence(items), NEW k \in Nat, k < Len(items),
           NEW o \in Nat, Written(items)[k] = [left |-> 0, offset |-> o],
           IsVertex(items[k + 1])
    PROVE  LET n == items[k + 1].n
           IN  /\ n \in Nat /\ k + n <= Len(items)
               /\ Written(items)[k + n] = [left |-> 0, offset |-> o + (2 + 8 * n)]
<1>0. Len(items) \in Nat
  BY SMT
<1>1. PICK it, n : it = items[k + 1] /\ n = it.n
  OBVIOUS
<1>2. /\ n \in Nat /\ n >= 3
      /\ Written(items)[k + 1] = [left |-> n - 1, offset |-> o + 8 + 2]
  <2>1. PICK z, w : z = Written(items)[k] /\ w = Written(items)[k + 1] /\ ItemWritten(it, z, w)
    BY <1>1, WrittenTurn
  <2>2. z.left = 0 /\ z.offset = o
    BY <2>1, SMT
  <2> QED BY <1>1, <2>1, <2>2 DEF ItemWritten
<1> DEFINE At(j) == [left |-> n - j, offset |-> o + (2 + 8 * j)]
           S == {j \in Nat : j + 1 <= n /\ k + (j + 1) <= Len(items) =>
                    Written(items)[k + (j + 1)] = At(j + 1)}
<1>3. 0 \in S
  <2>1. k + (0 + 1) = k + 1 /\ n - (0 + 1) = n - 1 /\ o + (2 + 8 * (0 + 1)) = o + 8 + 2
    BY <1>2, SMT
  <2> QED BY <1>2, <2>1, NatFacts
<1>4. ASSUME NEW j \in Nat, j \in S PROVE j + 1 \in S
  <2> SUFFICES ASSUME (j + 1) + 1 <= n, k + ((j + 1) + 1) <= Len(items)
               PROVE  Written(items)[k + ((j + 1) + 1)] = At((j + 1) + 1)
    BY SMT
  <2>1. /\ j + 1 <= n /\ k + (j + 1) <= Len(items)
        /\ k + (j + 1) \in Nat /\ k + (j + 1) < Len(items)
        /\ (k + (j + 1)) + 1 = k + ((j + 1) + 1)
        /\ n - (j + 1) # 0
        /\ (n - (j + 1)) - 1 = n - ((j + 1) + 1)
        /\ o + (2 + 8 * (j + 1)) + 8 + 0 = o + (2 + 8 * ((j + 1) + 1))
    BY <1>0, <1>2, SMT
  <2>2. PICK i, z, w : /\ z = Written(items)[k + (j + 1)]
                       /\ w = Written(items)[k + ((j + 1) + 1)] /\ ItemWritten(i, z, w)
    BY <2>1, WrittenTurn
  <2>3. z.left = n - (j + 1) /\ z.offset = o + (2 + 8 * (j + 1))
    BY <1>4, <2>1, <2>2, SMT
  <2>4. w = [left |-> z.left - 1, offset |-> z.offset + 8 + 0]
    BY <2>1, <2>2, <2>3 DEF ItemWritten
  <2> QED BY <2>1, <2>2, <2>3, <2>4
<1> HIDE DEF S
<1>5. \A j \in Nat : j \in S
  BY <1>3, <1>4, NatSetInduction
<1>6. ASSUME NEW j \in Nat, j >= 1, j <= n, k + j <= Len(items)
      PROVE  Written(items)[k + j] = At(j)
  <2>1. j - 1 \in Nat /\ (j - 1) + 1 = j
    BY <1>6, SMT
  <2> HIDE DEF At
  <2> QED BY <1>5, <1>6, <2>1 DEF S
<1>7. k + n <= Len(items)
  <2> SUFFICES ASSUME ~(k + n <= Len(items)) PROVE FALSE
    OBVIOUS
  <2>1. PICK j : j = Len(items) - k
    OBVIOUS
  <2>2. j \in Nat /\ j >= 1 /\ j <= n /\ k + j <= Len(items) /\ k + j = Len(items) /\ n - j # 0
    BY <1>0, <1>2, <2>1, SMT
  <2>3. Written(items)[Len(items)].left = n - j
    <3>1. Written(items)[Len(items)] = At(j)
      <4> HIDE DEF At
      <4> QED BY <1>6, <2>2
    <3> QED BY <3>1, SMT
  <2>4. Validated(items)[Len(items)].left = 0 /\ Validated(items)[Len(items)].ok
    BY DEF validate_fence
  <2>5. Len(items) \in 0 .. Len(items)
    BY <1>0, SMT
  <2>6. Written(items)[Len(items)].left = Validated(items)[Len(items)].left
    BY <2>4, <2>5, PassesTogether DEF PassesAt, Together
  <2> QED BY <2>2, <2>3, <2>4, <2>6
<1>8. n >= 1 /\ n <= n /\ n - n = 0
  BY <1>2, SMT
<1> QED BY <1>1, <1>2, <1>6, <1>7, <1>8

\* Where it has put a type byte, that type is read, before the end of the storage.
LEMMA ReadsWritten ==
    ASSUME NEW items \in Seq(Items), validate_fence(items), EndOffset(items) < StorageSize,
           NEW k \in Nat, k < Len(items), NEW o \in Nat,
           Written(items)[k] = [left |-> 0, offset |-> o], NEW junk
    PROVE  /\ ~(o >= StorageSize) /\ ~(o > StorageSize)
           /\ ReadType(items, o, junk) = items[k + 1]
<1>0. Len(items) \in Nat /\ k \in 0 .. Len(items) /\ Len(items) \in 0 .. Len(items)
  BY SMT
<1>1. o < EndOffset(items) /\ EndOffset(items) \in Nat
  <2>1. Written(items)[k].offset = o
    BY SMT
  <2> QED BY <1>0, <2>1, WrittenGrows DEF EndOffset
<1>2. ~(o >= StorageSize) /\ ~(o > StorageSize) /\ o # EndOffset(items)
  BY <1>1, FenceAssumption, SMT
<1>3. TypedAt(items, o) = {k + 1}
  <2>1. k + 1 \in DOMAIN items /\ (k + 1) - 1 = k
    BY <1>0, SMT
  <2>2. k + 1 \in TypedAt(items, o)
    BY <2>1 DEF TypedAt
  <2>3. ASSUME NEW i \in TypedAt(items, o) PROVE i = k + 1
    <3>1. i \in DOMAIN items /\ Written(items)[i - 1].offset = o
      BY SMT DEF TypedAt
    <3>2. i \in Nat /\ i - 1 \in 0 .. Len(items)
      BY <1>0, <3>1, SMT
    <3>3. ~(i - 1 < k) /\ ~(k < i - 1)
      <4>1. i - 1 < k => Written(items)[i - 1].offset < Written(items)[k].offset
        BY <1>0, <3>2, WrittenGrows
      <4>2. k < i - 1 => Written(items)[k].offset < Written(items)[i - 1].offset
        BY <1>0, <3>2, WrittenGrows
      <4>3. Written(items)[k].offset = o /\ ~(o < o)
        BY SMT
      <4> QED BY <3>1, <4>1, <4>2, <4>3
    <3> QED BY <3>2, <3>3, SMT
  <2> QED BY <2>2, <2>3
<1>4. (CHOOSE i \in TypedAt(items, o) : TRUE) = k + 1
  BY <1>3
<1> QED BY <1>2, <1>3, <1>4 DEF ReadType

\* The scan stands at a type byte, has counted the items before it, and there is another
\* item or the end of the fence.
OnTrack(items, x) ==
    \E k \in Nat : /\ k <= Len(items) /\ x.items = k
                   /\ Written(items)[k] = [left |-> 0, offset |-> x.at]

\* It comes to the next type byte, or to the end marker.
LEMMA ScanStaysOnTrack ==
    ASSUME NEW items \in Seq(Items), validate_fence(items), EndOffset(items) < StorageSize,
           NEW junk \in Junk, NEW x \in Scans, OnTrack(items, x)
    PROVE  /\ ScanEnds(items, junk, x) => ScanOut(items, junk, x).ok /\ x.items = Len(items)
           /\ ~ScanEnds(items, junk, x) => OnTrack(items, Skip(x, ReadAt(items, junk, x)))
<1>0. Len(items) \in Nat /\ x.at \in Nat
  BY SMT DEF Scans
<1>1. PICK k \in Nat : /\ k <= Len(items) /\ x.items = k
                       /\ Written(items)[k] = [left |-> 0, offset |-> x.at]
  BY DEF OnTrack
<1>2. CASE k = Len(items)
  <2>1. EndOffset(items) = x.at
    BY <1>1, <1>2, SMT DEF EndOffset
  <2>2. ~(x.at >= StorageSize) /\ ~(x.at > StorageSize)
    BY <1>0, <2>1, FenceAssumption, SMT
  <2>3. ReadAt(items, junk, x) = EndMarker
    BY <2>1, <2>2 DEF ReadAt, ReadType
  <2>4. EndMarker.type \notin ItemTypes
    BY DEF EndMarker, ItemTypes
  <2> QED BY <1>1, <1>2, <2>2, <2>3, <2>4 DEF ScanEnds, ScanOut
<1>3. CASE k < Len(items)
  <2>1. PICK it : it = items[k + 1]
    OBVIOUS
  <2>0. PICK o \in Nat : o = x.at /\ Written(items)[k] = [left |-> 0, offset |-> o]
    BY <1>0, <1>1
  <2>2. ~(x.at > StorageSize) /\ ReadAt(items, junk, x) = it
    <3>1. ~(o > StorageSize) /\ ReadType(items, o, junk) = items[k + 1]
      BY <1>3, <2>0, ReadsWritten
    <3> QED BY <2>0, <2>1, <3>1 DEF ReadAt
  <2>3. PICK z, w : z = Written(items)[k] /\ w = Written(items)[k + 1] /\ ItemWritten(it, z, w)
    BY <1>3, <2>1, WrittenTurn
  <2>4. z.left = 0 /\ z.offset = x.at
    BY <1>1, <2>3, SMT
  <2>5. ~ScanEnds(items, junk, x)
    BY <2>2, <2>3 DEF ScanEnds, ItemWritten
  <2>6. CASE IsVertex(it)
    <3>1. /\ it.n \in Nat /\ k + it.n <= Len(items)
          /\ Written(items)[k + it.n] = [left |-> 0, offset |-> x.at + (2 + 8 * it.n)]
      <4>1. /\ it.n \in Nat /\ k + it.n <= Len(items)
            /\ Written(items)[k + it.n] = [left |-> 0, offset |-> o + (2 + 8 * it.n)]
        BY <1>3, <2>0, <2>1, <2>6, OverPolygon
      <4> QED BY <2>0, <4>1
    <3>2. /\ Skip(x, it).at = x.at + (2 + 8 * it.n) /\ Skip(x, it).items = k + it.n
      <4>1. ScanBytes(it) = 2 + 8 * it.n /\ ScanItems(it) = it.n
        BY <2>6, <3>1, SMT DEF ScanBytes, ScanItems, IsVertex
      <4> QED BY <1>1, <4>1 DEF Skip
    <3>3. k + it.n \in Nat
      BY <3>1, SMT
    <3> QED BY <2>2, <2>5, <3>1, <3>2, <3>3 DEF OnTrack
  <2>7. CASE ~IsVertex(it)
    <3>1. Written(items)[k + 1] = [left |-> 0, offset |-> x.at + ItemBytes(it)]
      BY <2>3, <2>4, <2>7 DEF ItemWritten
    <3>2. ScanBytes(it) = ItemBytes(it) /\ ScanItems(it) = 1
      BY <2>7, SMT DEF ScanBytes, ItemBytes, ScanItems
    <3>3. /\ Skip(x, it).at = x.at + ItemBytes(it) /\ Skip(x, it).items = k + 1
      BY <1>1, <3>2 DEF Skip
    <3>4. k + 1 \in Nat /\ k + 1 <= Len(items)
      BY <1>0, <1>3, SMT
    <3> QED BY <2>2, <2>5, <3>1, <3>3, <3>4 DEF OnTrack
  <2> QED BY <2>5, <2>6, <2>7
<1> QED BY <1>0, <1>1, <1>2, <1>3, SMT

\* A valid fence that ends before the end of the storage is read to its end marker, and
\* all its items are counted, whatever lies behind it.
LEMMA ScanReadsAll ==
    ASSUME NEW items \in Seq(Items), validate_fence(items), EndOffset(items) < StorageSize,
           NEW junk \in Junk
    PROVE  scan_eeprom(items, junk).ok /\ scan_eeprom(items, junk).items = Len(items)
<1> DEFINE Z == {x \in Scans : ScanEnds(items, junk, x)}
           nxt == [x \in Scans |-> Skip(x, ReadAt(items, junk, x))]
           m == [x \in Scans |-> ScanLeft(x)]
<1>1. PICK f : /\ scan_eeprom(items, junk) = f[ScanStart]
               /\ \A x \in Scans : f[x] = IF ScanEnds(items, junk, x) THEN ScanOut(items, junk, x)
                                          ELSE f[Skip(x, ReadAt(items, junk, x))]
  BY Scanning
<1> DEFINE P == {x \in Scans : OnTrack(items, x) => f[x].ok /\ f[x].items = Len(items)}
<1>2. ASSUME NEW x \in Scans, x \in Z PROVE x \in P
  <2>1. f[x] = ScanOut(items, junk, x) /\ ScanOut(items, junk, x).items = x.items
    BY <1>1, <1>2 DEF ScanOut
  <2> QED BY <1>2, <2>1, ScanStaysOnTrack
<1>3. ASSUME NEW x \in Scans, x \notin Z, nxt[x] \in P PROVE x \in P
  BY <1>1, <1>3, ScanStaysOnTrack
<1>4. CountsDown(Scans, Z, nxt, m)
  BY ScanCountsDown
<1>5. Scans \subseteq P
  <2> HIDE DEF Z, nxt, m, P
  <2> QED BY <1>2, <1>3, <1>4, LoopInduction, SMT
<1>6. ScanStart \in Scans /\ ScanStart.items = 0 /\ ScanStart.at = 4
  BY SMT DEF ScanStart, Scans
<1>7. Len(items) \in Nat /\ 0 <= Len(items)
  BY SMT
<1>8. Written(items)[0] = [left |-> 0, offset |-> 4]
  BY <1>7, ScanTurns, SMTT(30) DEF ScanTurn
<1>9. OnTrack(items, ScanStart)
  BY <1>6, <1>7, <1>8, NatFacts DEF OnTrack
<1> QED BY <1>1, <1>5, <1>6, <1>9

\* A fence of no items is valid.
LEMMA NothingIsValid == validate_fence(<<>>)
<1>1. Len(<<>>) = 0 /\ Len(<<>>) \in Nat
  OBVIOUS
<1>2. Validated(<<>>)[0] = [ok |-> TRUE, left |-> 0, type |-> "none", n |-> 0, ret |-> FALSE]
  BY <1>1, ScanTurns, SMT DEF ScanTurn
<1> QED BY <1>1, <1>2, SMT DEF validate_fence

\* The stored fence is valid, and what is known of it was read from it.
IndexTrue == validate_fence(stored) /\ (index.attempted => index \in IndexResults(stored))

\* What a step does to the stored fence and its index.
FenceKept == stored' = stored /\ index' \in check_indexed \cup {index}
FenceNew  == validate_fence(stored') /\ index' = VoidIndex

\* The last item of an upload stores a valid fence or none.
LEMMA ItemFence ==
    ASSUME NEW g \in Stations, NEW seq, NEW it, handle_mission_item(g, seq, it)
    PROVE  FenceKept \/ FenceNew
<1>1. CASE UNCHANGED fenceVars
  BY <1>1 DEF FenceKept, fenceVars
<1>2. ASSUME NEW items, NEW mask, Complete(g, items, mask)
      PROVE  FenceKept \/ FenceNew
  <2>1. PICK x \in IF ReadsStorage(items, mask) THEN check_indexed ELSE {index} :
           \/ index' = x /\ UNCHANGED stored
           \/ Fits(Merged(items, mask)) /\ stored' = Merged(items, mask) /\ index' = VoidIndex
    BY <1>2 DEF Complete
  <2> QED BY <2>1 DEF FenceKept, FenceNew, Fits
<1>3. \/ UNCHANGED fenceVars
      \/ transfer_is_complete(g, [new_items EXCEPT ![seq + 1] = it],
                              IF updated_mask = NoMask THEN NoMask ELSE updated_mask \cup {seq})
  BY DEF handle_mission_item, Refused, UnexpectedItem, CancelOnly
<1> QED BY <1>1, <1>2, <1>3 DEF transfer_is_complete

\* Every step keeps the fence, perhaps with a new index, or stores a valid one.
LEMMA StepFence == [Next]_vars => FenceKept \/ FenceNew
<1> SUFFICES ASSUME [Next]_vars PROVE FenceKept \/ FenceNew
  OBVIOUS
<1>1. CASE UNCHANGED fenceVars
  BY <1>1 DEF FenceKept, fenceVars
<1>2. CASE StoreNothing
  BY <1>2, NothingIsValid DEF StoreNothing, FenceNew
<1>3. ASSUME NEW g \in Stations, NEW seq, get_item(g, seq) PROVE FenceKept
  BY <1>3 DEF get_item, FenceKept
<1>4. ASSUME NEW g \in Stations, Message(g) PROVE FenceKept \/ FenceNew
  <2>1. ASSUME NEW n \in 0 .. max_items + 1, handle_mission_count(g, n)
        PROVE  UNCHANGED fenceVars \/ StoreNothing
    BY <2>1 DEF handle_mission_count, Refused, CancelOnly
  <2>2. ASSUME NEW first \in 0 .. max_items, NEW last \in 0 .. max_items,
               handle_mission_write_partial_list(g, first, last)
        PROVE  UNCHANGED fenceVars
    BY <2>2 DEF handle_mission_write_partial_list, Refused
  <2>3. ASSUME NEW seq \in 0 .. max_items,
               handle_mission_request_int(g, seq) \/ handle_mission_request(g, seq)
        PROVE  UNCHANGED fenceVars \/ get_item(g, seq)
    BY <2>3 DEF handle_mission_request_int, handle_mission_request, Refused
  <2>4. handle_mission_clear_all(g) => UNCHANGED fenceVars \/ StoreNothing
    BY DEF handle_mission_clear_all, Refused
  <2>5. handle_mission_request_list(g) => UNCHANGED fenceVars
    BY DEF handle_mission_request_list
  <2> QED BY <1>1, <1>2, <1>3, <1>4, <2>1, <2>2, <2>3, <2>4, <2>5, ItemFence DEF Message
<1>5. CASE update
  BY <1>1, <1>5 DEF update
<1>6. CASE FenceUpdate
  BY <1>6 DEF FenceUpdate, FenceKept
<1>7. ASSUME NEW l \in Links, queued_request_send(l) PROVE UNCHANGED fenceVars
  BY <1>7 DEF queued_request_send
<1>8. CASE UNCHANGED vars
  BY <1>1, <1>8 DEF vars
<1> QED BY <1>1, <1>4, <1>5, <1>6, <1>7, <1>8 DEF Next

\* IndexTrue is inductive.
LEMMA IndexStaysTrue == IndexTrue /\ [Next]_vars => IndexTrue'
<1> SUFFICES ASSUME IndexTrue, FenceKept \/ FenceNew PROVE IndexTrue'
  BY StepFence
<1>1. CASE FenceKept
  BY <1>1 DEF FenceKept, IndexTrue, check_indexed
<1>2. CASE FenceNew
  BY <1>2 DEF FenceNew, IndexTrue, VoidIndex
<1> QED BY <1>1, <1>2

\* Both scans read the whole fence, so that only memory can be missing.
LEMMA TrueIsReadable == TypeOK /\ IndexTrue => ShorterIsReadable
<1> SUFFICES ASSUME TypeOK, IndexTrue, index.attempted,
                    fence_storage_space_required(stored) < StorageSize
             PROVE  index.indexed = index.memory /\ index.count = Len(stored)
  BY DEF ShorterIsReadable
<1>1. stored \in Seq(Items) /\ validate_fence(stored)
  BY DEF TypeOK, IndexTrue
<1>2. EndOffset(stored) < StorageSize
  BY <1>1, EndIsSpace
<1>3. \A junk \in Junk : scan_eeprom(stored, junk).ok /\ scan_eeprom(stored, junk).items = Len(stored)
  BY <1>1, <1>2, ScanReadsAll
<1> DEFINE Index(c, ok, memory) ==
              [attempted |-> TRUE, indexed |-> ok, memory |-> memory, count |-> c.items]
<1>4. index \in IndexResults(stored)
  BY DEF IndexTrue
<1>5. PICK junk \in Junk :
         LET c == scan_eeprom(stored, junk) IN
         \/ ~c.ok \/ index = Index(c, TRUE, TRUE) \/ index = Index(c, FALSE, FALSE)
         \/ \E j \in Junk : index = Index(c, scan_eeprom(stored, j).ok, TRUE)
  BY <1>4 DEF IndexResults
<1>6. PICK c : c = scan_eeprom(stored, junk) /\ c.items = Len(stored)
  BY <1>3
<1>7. ASSUME NEW j \in Junk, index = Index(c, scan_eeprom(stored, j).ok, TRUE)
      PROVE  index.indexed /\ index.memory /\ index.count = Len(stored)
  BY <1>3, <1>6, <1>7
<1>8. CASE index = Index(c, TRUE, TRUE) \/ index = Index(c, FALSE, FALSE)
  <2>1. CASE index = Index(c, TRUE, TRUE)
    BY <1>6, <2>1, SMT
  <2>2. CASE index = Index(c, FALSE, FALSE)
    BY <1>6, <2>2, SMT
  <2> QED BY <1>8, <2>1, <2>2
<1>9. \/ index = Index(c, TRUE, TRUE) \/ index = Index(c, FALSE, FALSE)
      \/ \E j \in Junk : index = Index(c, scan_eeprom(stored, j).ok, TRUE)
  <2> HIDE DEF Index
  <2> QED BY <1>3, <1>5, <1>6
<1>10. CASE index.indexed /\ index.memory /\ index.count = Len(stored)
  <2>1. index.indexed \in BOOLEAN /\ index.memory \in BOOLEAN
    BY DEF TypeOK
  <2> QED BY <1>10, <2>1
<1> HIDE DEF Index
<1> QED BY <1>7, <1>8, <1>9, <1>10

\* A fence that leaves a byte of the storage free is counted and indexed completely, unless
\* there is no memory for the index.
THEOREM ShorterAlwaysReadable == Spec => []ShorterIsReadable
<1>1. Init => IndexTrue
  BY DEF Init, IndexTrue, Fits
<1> QED BY <1>1, IndexStaysTrue, TrueIsReadable, TypeCorrect, PTL DEF Spec
-----------------------------------------------------------------------------
(* Mission: the search for the next command                                *)

\* A function on 1 .. n is a sequence.
LEMMA SeqOf ==
    ASSUME NEW T, NEW n \in Nat, NEW f \in [1 .. n -> T]
    PROVE  f \in Seq(T)
BY SeqDef

\* The list of jumps stays one.
LEMMA JumpsTyped ==
    ASSUME NEW J \in Seq(Slot), NEW i \in Nat
    PROVE  /\ Tracked(J, i) \in Seq(Slot) /\ Zeroed(J, i) \in Seq(Slot)
           /\ increment_jump_times_run(J, i) \in Seq(Slot)
<1>1. ASSUME NEW n \in {0, 1} PROVE Track(J, i, n) \in Seq(Slot)
  <2>1. [index |-> i, times |-> n] \in Slot
    BY SMT DEF Slot
  <2> QED BY <2>1, SMT DEF Track
<1>2. Len(J) \in Nat /\ \A k \in 1 .. Len(J) : J[k] \in Slot
  BY SMT
<1>3. [k \in 1 .. Len(J) |-> IF J[k].index = i THEN [J[k] EXCEPT !.times = 0] ELSE J[k]]
        \in [1 .. Len(J) -> Slot]
  BY <1>2 DEF Slot
<1>4. [k \in 1 .. Len(J) |-> IF J[k].index = i /\ J[k].times < MaxCount
                             THEN [J[k] EXCEPT !.times = @ + 1] ELSE J[k]]
        \in [1 .. Len(J) -> Slot]
  <2>1. ASSUME NEW k \in 1 .. Len(J) PROVE [J[k] EXCEPT !.times = @ + 1] \in Slot
    <3>1. PICK s \in Slot : s = J[k]
      BY <1>2
    <3>2. s.times + 1 \in Nat /\ s = [index |-> s.index, times |-> s.times] /\ s.index \in Nat
      BY SMT DEF Slot
    <3>3. [s EXCEPT !.times = @ + 1] = [index |-> s.index, times |-> s.times + 1]
      BY <3>2, SMT
    <3> QED BY <3>1, <3>2, <3>3 DEF Slot
  <2> QED BY <1>2, <2>1
<1>5. Zeroed(J, i) \in Seq(Slot)
  BY <1>2, <1>3, SeqOf DEF Zeroed
<1>6. increment_jump_times_run(J, i) \in Seq(Slot)
  BY <1>1, <1>2, <1>4, SeqOf DEF increment_jump_times_run
<1>7. Tracked(J, i) \in Seq(Slot)
  BY <1>1 DEF Tracked
<1> QED BY <1>5, <1>6, <1>7

\* The states in which the search ends, and what it has found.
SearchEnds(counts, x) ==
    \/ x.at >= total \/ Cmd(x.at).kind # "jump"
    \/ x.loops = 0 \/ (~counts /\ x.first = x.at) \/ Cmd(x.at).target \notin 1 .. total - 1
SearchFinds(x) == ~(x.at >= total) /\ Cmd(x.at).kind # "jump"
SearchOut(x) == [found |-> SearchFinds(x), at |-> x.at, jumps |-> x.jumps, known |-> x.known]
Start(i, J) == [at |-> i, loops |-> MaxJumps, first |-> None, jumps |-> J, known |-> TRUE]

\* A jump that is followed leads to a state of the search with a loop less.
LEMMA FollowTyped ==
    ASSUME NEW counts \in BOOLEAN, NEW x \in Searches, ~SearchEnds(counts, x), total \in Nat
    PROVE  /\ Follow(x, counts) \in Searches
           /\ Follow(x, counts).loops = x.loops - 1
           /\ x.at >= 1 => Follow(x, counts).at >= 1
<1>1. /\ x.at \in Nat /\ x.loops \in 1 .. MaxJumps /\ x.jumps \in Seq(Slot)
      /\ x.first \in Nat \cup {None} /\ x.known \in BOOLEAN
      /\ Cmd(x.at).target \in 1 .. total - 1
  BY MissionAssumption, SMT DEF Searches, SearchEnds
<1>2. Tracked(x.jumps, x.at) \in Seq(Slot)
  BY <1>1, JumpsTyped
<1>3. PICK K : K = IF Cmd(x.at).times # Forever THEN Tracked(x.jumps, x.at) ELSE x.jumps
  OBVIOUS
<1>4. /\ K \in Seq(Slot) /\ increment_jump_times_run(K, x.at) \in Seq(Slot)
      /\ Zeroed(K, x.at) \in Seq(Slot)
  BY <1>1, <1>2, <1>3, JumpsTyped
<1>5. PICK y : y = Follow(x, counts)
  OBVIOUS
<1>6. /\ y = [at |-> y.at, loops |-> y.loops, first |-> y.first, jumps |-> y.jumps,
              known |-> y.known]
      /\ y.at \in {Cmd(x.at).target, x.at + 1} /\ y.loops = x.loops - 1
      /\ y.first \in {x.at, x.first} /\ y.known \in BOOLEAN
      /\ y.jumps \in {K, increment_jump_times_run(K, x.at), Zeroed(K, x.at)}
  BY <1>3, <1>5 DEF Follow
<1>7. /\ y.at \in Nat /\ y.loops \in 0 .. MaxJumps
      /\ y.first \in Nat \cup {None} /\ y.jumps \in Seq(Slot)
  <2>1. MaxJumps \in Nat
    BY MissionAssumption
  <2>2. y.at \in Nat /\ y.loops \in 0 .. MaxJumps
    BY <1>1, <1>6, <2>1, SMT
  <2> QED BY <1>1, <1>4, <1>6, <2>2
<1>8. y \in Searches
  BY <1>6, <1>7 DEF Searches
<1>9. x.at >= 1 => y.at >= 1
  BY <1>1, <1>6, SMT
<1> QED BY <1>5, <1>6, <1>8, <1>9

\* get_next_cmd() is a loop that counts down.
LEMMA SearchCountsDown ==
    ASSUME NEW counts \in BOOLEAN, total \in Nat
    PROVE  CountsDown(Searches, {x \in Searches : SearchEnds(counts, x)},
                      [x \in Searches |-> Follow(x, counts)], [x \in Searches |-> x.loops])
<1> DEFINE Z == {x \in Searches : SearchEnds(counts, x)}
           nxt == [x \in Searches |-> Follow(x, counts)]
           m == [x \in Searches |-> x.loops]
<1>1. m \in [Searches -> Nat]
  BY SMT DEF Searches
<1>2. ASSUME NEW x \in Searches, x \notin Z PROVE nxt[x] \in Searches /\ m[nxt[x]] < m[x]
  <2>1. /\ Follow(x, counts) \in Searches /\ Follow(x, counts).loops = x.loops - 1
        /\ x.loops \in Int
    BY <1>2, FollowTyped, MissionAssumption, SMT DEF Searches
  <2> QED BY <2>1, SMT
<1> HIDE DEF m, nxt, Z
<1>3. CountsDown(Searches, Z, nxt, m)
  BY <1>1, <1>2 DEF CountsDown
<1> QED BY <1>3 DEF m, nxt, Z

\* So it computes a function of the state it begins with.
LEMMA Searching ==
    ASSUME NEW counts \in BOOLEAN, total \in Nat
    PROVE  \E f :
              /\ \A i, J : get_next_cmd(i, J, counts) = f[Start(i, J)]
              /\ \A x \in Searches : f[x] = IF SearchEnds(counts, x) THEN SearchOut(x)
                                            ELSE f[Follow(x, counts)]
<1> DEFINE Z == {x \in Searches : SearchEnds(counts, x)}
           out == [x \in Searches |-> SearchOut(x)]
           nxt == [x \in Searches |-> Follow(x, counts)]
           m == [x \in Searches |-> x.loops]
           Turn(x, f) == IF SearchEnds(counts, x) THEN SearchOut(x) ELSE f[Follow(x, counts)]
           Body(f) == [x \in Searches |-> Turn(x, f)]
<1>1. CountsDown(Searches, Z, nxt, m) /\ \A x \in Searches : m[x] <= MaxJumps
  <2>1. \A x \in Searches : m[x] <= MaxJumps
    BY MissionAssumption, SMT DEF Searches
  <2> QED BY <2>1, SearchCountsDown
<1>2. PICK g : IsLoop(Searches, Z, out, nxt, g)
  <2> HIDE DEF m, nxt, Z, out
  <2>1. MaxJumps \in Nat
    BY MissionAssumption
  <2> QED BY <1>1, <2>1, LoopExists
<1>3. g = Body(g)
  BY <1>2 DEF IsLoop
<1>4. PICK f : f = CHOOSE h : h = Body(h)
  OBVIOUS
<1>5. f = Body(f)
  <2> HIDE DEF Body
  <2> QED BY <1>3, <1>4
<1>6. \A i, J : get_next_cmd(i, J, counts) = f[Start(i, J)]
  BY <1>4, ZenonT(30) DEF get_next_cmd, SearchEnds, SearchOut, SearchFinds, Start
<1>7. \A x \in Searches : f[x] = Turn(x, f)
  <2> HIDE DEF Turn
  <2> QED BY <1>5
<1> QED BY <1>6, <1>7

\* A jump that is always taken.
Hop(C, k) ==
    /\ k < Len(C) /\ C[k + 1].kind = "jump" /\ C[k + 1].times = Forever
    /\ C[k + 1].target \in 1 .. Len(C) - 1

\* n such jumps at most lead from i to j, which is no jump: <<i, n>> is in every set that
\* has j with every number and, with the target of a jump, the jump with a number more.
Leads(C, n, i, j) ==
    /\ n \in Nat /\ i \in Nat /\ j \in Nat /\ j < Len(C) /\ C[j + 1].kind # "jump"
    /\ \A T : /\ \A d \in Nat : <<j, d>> \in T
              /\ \A k, d \in Nat : Hop(C, k) /\ <<C[k + 1].target, d>> \in T => <<k, d + 1>> \in T
             => <<i, n>> \in T

\* Where they lead from a jump, and from a command that is none.
LEMMA LeadsFacts ==
    ASSUME NEW C, NEW i \in Nat, NEW n \in Nat, NEW j
    PROVE  /\ i < Len(C) /\ C[i + 1].kind # "jump" => Leads(C, n, i, i)
           /\ Hop(C, i) /\ Leads(C, n, C[i + 1].target, j) => Leads(C, n + 1, i, j)
           /\ Leads(C, n, i, j) =>
                 \/ i = j
                 \/ Hop(C, i) /\ n - 1 \in Nat /\ Leads(C, n - 1, C[i + 1].target, j)
<1>1. i < Len(C) /\ C[i + 1].kind # "jump" => Leads(C, n, i, i)
  BY DEF Leads
<1>2. ASSUME NEW k \in Nat, NEW d \in Nat, Hop(C, k), Leads(C, d, C[k + 1].target, j)
      PROVE  Leads(C, d + 1, k, j)
  <2>1. d + 1 \in Nat
    BY NatFacts
  <2> QED BY <1>2, <2>1 DEF Leads
<1>3. ASSUME Leads(C, n, i, j)
      PROVE  i = j \/ (Hop(C, i) /\ n - 1 \in Nat /\ Leads(C, n - 1, C[i + 1].target, j))
  <2> DEFINE T == {p \in Nat \X Nat :
                     \/ p[1] = j
                     \/ /\ Hop(C, p[1]) /\ p[2] - 1 \in Nat
                        /\ Leads(C, p[2] - 1, C[p[1] + 1].target, j)}
  <2>1. j \in Nat /\ j < Len(C) /\ C[j + 1].kind # "jump"
    BY <1>3 DEF Leads
  <2>2. \A d \in Nat : <<j, d>> \in T /\ Leads(C, d, j, j)
    BY <2>1 DEF Leads
  <2>3. ASSUME NEW k \in Nat, NEW d \in Nat, Hop(C, k), <<C[k + 1].target, d>> \in T
        PROVE  <<k, d + 1>> \in T
    <3>1. PICK z : z = C[k + 1].target
      OBVIOUS
    <3>2. /\ z \in Nat
          /\ z = j \/ (Hop(C, z) /\ d - 1 \in Nat /\ Leads(C, d - 1, C[z + 1].target, j))
      BY <2>3, <3>1
    <3>3. d - 1 \in Nat => (d - 1) + 1 = d
      BY NatFacts
    <3>4. Leads(C, d, z, j)
      BY <1>2, <2>2, <3>2, <3>3
    <3>5. d + 1 \in Nat /\ (d + 1) - 1 = d
      BY NatFacts
    <3>6. <<k, d + 1>> \in Nat \X Nat /\ <<k, d + 1>>[1] = k /\ <<k, d + 1>>[2] = d + 1
      BY <3>5
    <3> QED BY <2>3, <3>1, <3>4, <3>5, <3>6
  <2> HIDE DEF T
  <2>4. <<i, n>> \in T
    BY <1>3, <2>2, <2>3 DEF Leads
  <2> QED BY <2>4 DEF T
<1> QED BY <1>1, <1>2, <1>3

\* They do not lead to home.
LEMMA LeadsOn ==
    ASSUME NEW C, NEW n, NEW i, NEW j, Leads(C, n, i, j), i # 0
    PROVE  j # 0
<1> SUFFICES ASSUME j = 0 PROVE FALSE
  OBVIOUS
<1> DEFINE T == {p \in Nat \X Nat : p[1] = 0}
<1>1. \A d \in Nat : <<j, d>> \in T
  BY SMT
<1>2. ASSUME NEW k \in Nat, NEW d \in Nat, Hop(C, k), <<C[k + 1].target, d>> \in T
      PROVE  <<k, d + 1>> \in T
  <2>1. C[k + 1].target \in 1 .. Len(C) - 1 /\ C[k + 1].target = 0
    BY <1>2 DEF Hop
  <2> QED BY <2>1, SMT
<1> HIDE DEF T
<1>3. <<i, n>> \in T
  BY <1>1, <1>2 DEF Leads
<1> QED BY <1>3 DEF T

\* What a search that begins in state x has found; one that counts finds what the jumps
\* that it may follow lead to.
SearchedOK(counts, x, s) ==
    /\ s = [found |-> s.found, at |-> s.at, jumps |-> s.jumps, known |-> s.known]
    /\ s.found \in BOOLEAN /\ s.at \in Nat /\ s.jumps \in Seq(Slot) /\ s.known \in BOOLEAN
    /\ x.at >= 1 => s.at >= 1
    /\ s.found => s.at < total /\ Cmd(s.at).kind # "jump"
    /\ s.found /\ s.known => x.known /\ Leads(cmds, x.loops, x.at, s.at)
    /\ \A j, n : Leads(cmds, n, x.at, j) /\ s.found => s.at = j
    /\ \A j, n : Leads(cmds, n, x.at, j) /\ n <= x.loops /\ counts => s.found

\* One that ends at once, and one that follows a jump.
LEMMA EndsOK ==
    ASSUME NEW counts \in BOOLEAN, NEW x \in Searches, SearchEnds(counts, x), total \in Nat
    PROVE  SearchedOK(counts, x, SearchOut(x))
<1>1. x.at \in Nat /\ x.jumps \in Seq(Slot) /\ x.known \in BOOLEAN /\ x.loops \in Nat
  BY MissionAssumption, SMT DEF Searches
<1>2. PICK s : s = SearchOut(x)
  OBVIOUS
<1>3. /\ s = [found |-> s.found, at |-> s.at, jumps |-> s.jumps, known |-> s.known]
      /\ s.found = SearchFinds(x) /\ s.at = x.at /\ s.jumps = x.jumps /\ s.known = x.known
  BY <1>2 DEF SearchOut
<1>4. ASSUME s.found
      PROVE  s.at < total /\ Cmd(s.at).kind # "jump" /\ Leads(cmds, x.loops, x.at, s.at)
  <2>1. x.at < total /\ Cmd(x.at).kind # "jump"
    <3>1. s.found = TRUE
      BY <1>2, <1>4 DEF SearchOut, SearchFinds
    <3>2. SearchFinds(x)
      BY <1>3, <3>1
    <3> QED BY <1>1, <3>2, SMT DEF SearchFinds
  <2> QED BY <1>1, <1>3, <2>1, LeadsFacts DEF total, Cmd
<1>5. ASSUME NEW j, NEW n, Leads(cmds, n, x.at, j) PROVE s.at = j \/ Hop(cmds, x.at)
  BY <1>1, <1>3, <1>5, LeadsFacts DEF Leads
<1>6. s.found \in BOOLEAN
  BY <1>3 DEF SearchFinds
<1>7. Hop(cmds, x.at) => ~s.found
  BY <1>3 DEF Hop, SearchFinds, Cmd
<1>8. ASSUME NEW j, NEW n, Leads(cmds, n, x.at, j), n <= x.loops, counts PROVE s.found
  <2>1. CASE x.at = j
    <3>1. x.at < Len(cmds) /\ cmds[x.at + 1].kind # "jump"
      BY <1>8, <2>1 DEF Leads
    <3>2. ~(x.at >= total)
      BY <1>1, <3>1, SMT DEF total
    <3> QED BY <1>3, <3>1, <3>2 DEF SearchFinds, Cmd
  <2>2. CASE x.at # j
    <3>1. n \in Nat
      BY <1>8 DEF Leads
    <3>2. Hop(cmds, x.at) /\ n - 1 \in Nat
      BY <1>1, <1>8, <2>2, <3>1, LeadsFacts
    <3>3. n - 1 \in Nat /\ n <= x.loops /\ x.loops \in Nat
      BY <1>1, <1>8, <3>2
    <3>4. x.loops # 0
      BY <3>1, <3>3, SMT
    <3>5. ~(x.at >= total)
      BY <1>1, <3>2, SMT DEF Hop, total
    <3> QED BY <1>8, <3>2, <3>4, <3>5 DEF SearchEnds, Hop, Cmd, total
  <2> QED BY <2>1, <2>2
<1> QED BY <1>1, <1>2, <1>3, <1>4, <1>5, <1>6, <1>7, <1>8 DEF SearchedOK

\* One that follows a jump has found what the search from there has.
LEMMA FollowsOK ==
    ASSUME NEW counts \in BOOLEAN, NEW x \in Searches, ~SearchEnds(counts, x), total \in Nat,
           NEW s, SearchedOK(counts, Follow(x, counts), s)
    PROVE  SearchedOK(counts, x, s)
<1>1. PICK y \in Searches : y = Follow(x, counts)
  BY FollowTyped
<1>2. /\ x.at \in Nat /\ x.at < total /\ Cmd(x.at).kind = "jump"
      /\ Cmd(x.at).target \in 1 .. total - 1 /\ x.known \in BOOLEAN /\ x.loops \in Nat
  BY MissionAssumption, SMT DEF Searches, SearchEnds
<1>3. y.known => x.known /\ Cmd(x.at).times = Forever
  BY <1>1 DEF Follow
<1>4. Cmd(x.at).times = Forever => y.at = Cmd(x.at).target /\ Hop(cmds, x.at)
  BY <1>1, <1>2 DEF Follow, Hop, Cmd, total
<1>5. /\ x.at >= 1 => y.at >= 1
      /\ y.loops \in Nat /\ y.loops + 1 = x.loops
  <2>1. (x.at >= 1 => y.at >= 1) /\ y.loops = x.loops - 1
    BY <1>1, FollowTyped
  <2>2. y.loops \in Nat
    BY MissionAssumption, SMT DEF Searches
  <2> QED BY <1>2, <2>1, <2>2, SMT
<1>6. ASSUME s.found, s.known PROVE x.known /\ Leads(cmds, x.loops, x.at, s.at)
  <2>1. y.known /\ Leads(cmds, y.loops, y.at, s.at)
    BY <1>1, <1>6 DEF SearchedOK
  <2>2. Leads(cmds, y.loops + 1, x.at, s.at)
    BY <1>2, <1>3, <1>4, <1>5, <2>1, LeadsFacts DEF Cmd
  <2> QED BY <1>3, <1>5, <2>1, <2>2
<1>7. ASSUME NEW j, NEW n, Leads(cmds, n, x.at, j)
      PROVE  n \in Nat /\ n - 1 \in Nat /\ Leads(cmds, n - 1, y.at, j)
  <2>1. n \in Nat
    BY <1>7 DEF Leads
  <2>2. Hop(cmds, x.at) /\ n - 1 \in Nat /\ Leads(cmds, n - 1, Cmd(x.at).target, j)
    <3>1. x.at # j
      BY <1>2, <1>7 DEF Leads, Cmd
    <3> QED BY <1>2, <1>7, <2>1, <3>1, LeadsFacts DEF Cmd
  <2> QED BY <1>4, <2>1, <2>2 DEF Hop, Cmd
<1>8. ASSUME NEW j, NEW n, Leads(cmds, n, x.at, j), s.found PROVE s.at = j
  BY <1>1, <1>7, <1>8 DEF SearchedOK
<1>9. ASSUME NEW j, NEW n, Leads(cmds, n, x.at, j), n <= x.loops, counts PROVE s.found
  <2>1. n - 1 <= y.loops /\ Leads(cmds, n - 1, y.at, j)
    BY <1>5, <1>7, <1>9, SMT
  <2> QED BY <1>1, <1>9, <2>1 DEF SearchedOK
<1> QED BY <1>1, <1>5, <1>6, <1>8, <1>9 DEF SearchedOK

\* What get_next_cmd() finds.
LEMMA SearchFound ==
    ASSUME total \in Nat, NEW counts \in BOOLEAN, NEW i \in Nat, NEW J \in Seq(Slot)
    PROVE  SearchedOK(counts, Start(i, J), get_next_cmd(i, J, counts))
<1> DEFINE Z == {x \in Searches : SearchEnds(counts, x)}
           nxt == [x \in Searches |-> Follow(x, counts)]
           m == [x \in Searches |-> x.loops]
<1>1. PICK f : /\ \A k, L : get_next_cmd(k, L, counts) = f[Start(k, L)]
               /\ \A x \in Searches : f[x] = IF SearchEnds(counts, x) THEN SearchOut(x)
                                             ELSE f[Follow(x, counts)]
  BY Searching
<1> DEFINE P == {x \in Searches : SearchedOK(counts, x, f[x])}
<1>2. \A x \in Searches : x \in Z => x \in P
  BY <1>1, EndsOK
<1>3. ASSUME NEW x \in Searches, x \notin Z, nxt[x] \in P PROVE x \in P
  <2>1. ~SearchEnds(counts, x) /\ SearchedOK(counts, Follow(x, counts), f[Follow(x, counts)])
    BY <1>3
  <2>2. SearchedOK(counts, x, f[Follow(x, counts)])
    BY <2>1, FollowsOK
  <2> QED BY <1>1, <2>1, <2>2
<1>4. CountsDown(Searches, Z, nxt, m)
  BY SearchCountsDown
<1>5. Searches \subseteq P
  <2> HIDE DEF Z, nxt, m, P
  <2> QED BY <1>2, <1>3, <1>4, LoopInduction, SMT
<1>6. Start(i, J) \in Searches
  BY MissionAssumption, SMT DEF Start, Searches
<1> QED BY <1>1, <1>5, <1>6
-----------------------------------------------------------------------------
(* Mission: the loops over the commands                                    *)

\* The states of advance_current_nav_cmd() and of set_current_cmd(): the command that the
\* search has found, and what goes on is past do commands, and past refused ones.
LoopSet(B) == [run : Runs, from : Nat, loops : 0 .. B]
NavFound(x) == get_next_cmd(x.from, x.run.jumps, TRUE)
Passed(x) == Searched(x.run, NavFound(x))
GoesOn(kinds, x) == x.loops # 0 /\ NavFound(x).found /\ Cmd(NavFound(x).at).kind \in kinds
GoOn(x) ==
    [run |-> IF Cmd(NavFound(x).at).kind = "do" THEN SetDo(Passed(x), NavFound(x).at)
             ELSE [Passed(x) EXCEPT !.nav = NavFound(x).at],
     from |-> NavFound(x).at + 1, loops |-> x.loops - 1]

\* What a search has found, and the state with what it leaves.
LEMMA PassedFacts ==
    ASSUME total \in Nat, NEW B \in Nat, NEW x \in LoopSet(B)
    PROVE  /\ SearchedOK(TRUE, Start(x.from, x.run.jumps), NavFound(x))
           /\ NavFound(x).at \in Nat
           /\ Passed(x) \in Runs
           /\ Passed(x) = [x.run EXCEPT !.jumps = NavFound(x).jumps,
                                        !.known = x.run.known /\ NavFound(x).known]
<1>1. x.run \in Runs /\ x.from \in Nat /\ x.run.jumps \in Seq(Slot) /\ x.run.known \in BOOLEAN
  BY DEF LoopSet, Runs
<1>2. SearchedOK(TRUE, Start(x.from, x.run.jumps), NavFound(x))
  BY <1>1, SearchFound DEF NavFound
<1>3. NavFound(x).at \in Nat /\ NavFound(x).jumps \in Seq(Slot) /\ NavFound(x).known \in BOOLEAN
  BY <1>2 DEF SearchedOK
<1>4. Passed(x) = [x.run EXCEPT !.jumps = NavFound(x).jumps,
                                !.known = x.run.known /\ NavFound(x).known]
  BY DEF Passed, Searched
<1>5. Passed(x) \in Runs
  BY <1>1, <1>3, <1>4 DEF Runs
<1> QED BY <1>2, <1>3, <1>4, <1>5

\* A do command on the way.
LEMMA SetDoTyped ==
    ASSUME NEW q \in Runs, NEW i \in Nat
    PROVE  SetDo(q, i) \in Runs /\ [q EXCEPT !.nav = i] \in Runs
<1>1. q.way \in Seq(Nat) /\ Append(q.way, i) \in Seq(Nat) /\ <<i>> \in Seq(Nat)
  BY SMT DEF Runs
<1>2. PICK a : a = Append(q.way, i)
  OBVIOUS
<1>3. PICK b : b = <<i>>
  OBVIOUS
<1>4. [q EXCEPT !.way = a] \in Runs
  BY <1>1, <1>2 DEF Runs
<1>5. [[q EXCEPT !.way = a] EXCEPT !.doc = i, !.doLoaded = TRUE, !.did = b] \in Runs
  BY <1>1, <1>2, <1>3, <1>4 DEF Runs
<1>6. [q EXCEPT !.nav = i] \in Runs
  BY DEF Runs
<1> QED BY <1>2, <1>3, <1>4, <1>5, <1>6 DEF SetDo

\* So is the state in which a loop goes on.
LEMMA GoOnTyped ==
    ASSUME total \in Nat, NEW B \in Nat, NEW x \in LoopSet(B), x.loops # 0
    PROVE  GoOn(x) \in LoopSet(B) /\ GoOn(x).loops = x.loops - 1
<1>1. NavFound(x).at \in Nat /\ Passed(x) \in Runs
  BY PassedFacts
<1>2. x.loops - 1 \in 0 .. B
  BY SMT DEF LoopSet
<1>3. PICK y : y = GoOn(x)
  OBVIOUS
<1>4. y.run \in Runs
  BY <1>1, <1>3, SetDoTyped DEF GoOn
<1>5. /\ y = [run |-> y.run, from |-> y.from, loops |-> y.loops]
      /\ y.from = NavFound(x).at + 1 /\ y.loops = x.loops - 1
  BY <1>3 DEF GoOn
<1> QED BY <1>1, <1>2, <1>3, <1>4, <1>5, SMT DEF LoopSet

\* Both loops count down.
LEMMA NavCountsDown ==
    ASSUME total \in Nat, NEW B \in Nat, NEW kinds
    PROVE  CountsDown(LoopSet(B), {x \in LoopSet(B) : ~GoesOn(kinds, x)},
                      [x \in LoopSet(B) |-> GoOn(x)], [x \in LoopSet(B) |-> x.loops])
<1> DEFINE D == LoopSet(B)
           Z == {x \in D : ~GoesOn(kinds, x)}
           nxt == [x \in D |-> GoOn(x)]
           m == [x \in D |-> x.loops]
<1>1. m \in [D -> Nat]
  BY SMT DEF LoopSet
<1>2. ASSUME NEW x \in D, x \notin Z PROVE nxt[x] \in D /\ m[nxt[x]] < m[x]
  <2>1. GoOn(x) \in D /\ GoOn(x).loops = x.loops - 1 /\ x.loops \in Int
    BY <1>2, GoOnTyped, SMT DEF GoesOn, LoopSet
  <2> HIDE DEF D
  <2> QED BY <2>1, SMT
<1> HIDE DEF m, nxt, Z
<1>3. CountsDown(D, Z, nxt, m)
  BY <1>1, <1>2 DEF CountsDown
<1> QED BY <1>3 DEF m, nxt, Z

\* One turn of each.
NavTurn(x, f) ==
    LET s == get_next_cmd(x.from, x.run.jumps, TRUE)
        q == Searched(x.run, s)
        Goon(y) == f[[run |-> y, from |-> s.at + 1, loops |-> x.loops - 1]]
    IN  IF x.loops = 0 THEN [ok |-> TRUE, run |-> x.run]
        ELSE IF ~s.found THEN [ok |-> FALSE, run |-> q]
        ELSE IF Cmd(s.at).kind = "do" THEN Goon(SetDo(q, s.at))
        ELSE IF Cmd(s.at).kind = "refused" THEN Goon([q EXCEPT !.nav = s.at])
        ELSE [ok |-> x.loops # 1, run |-> [q EXCEPT !.nav = s.at, !.navLoaded = TRUE]]
PreTurn(x, f) ==
    LET s == get_next_cmd(x.from, x.run.jumps, TRUE)
        q == Searched(x.run, s)
    IN  IF x.loops = 0 THEN [x.run EXCEPT !.state = "hung"]
        ELSE IF ~s.found THEN [q EXCEPT !.nav = None]
        ELSE IF Cmd(s.at).kind = "do"
        THEN f[[run |-> SetDo(q, s.at), from |-> s.at + 1, loops |-> x.loops - 1]]
        ELSE [q EXCEPT !.nav = s.at, !.navLoaded = TRUE, !.allDone = ~q.doLoaded,
                       !.state = "stopped"]

\* What they end with.
NavOut(x) ==
    IF x.loops = 0 THEN [ok |-> TRUE, run |-> x.run]
    ELSE IF ~NavFound(x).found THEN [ok |-> FALSE, run |-> Passed(x)]
    ELSE [ok |-> x.loops # 1, run |-> [Passed(x) EXCEPT !.nav = NavFound(x).at, !.navLoaded = TRUE]]
PreOut(x) ==
    IF x.loops = 0 THEN [x.run EXCEPT !.state = "hung"]
    ELSE IF ~NavFound(x).found THEN [Passed(x) EXCEPT !.nav = None]
    ELSE [Passed(x) EXCEPT !.nav = NavFound(x).at, !.navLoaded = TRUE,
                           !.allDone = ~Passed(x).doLoaded, !.state = "stopped"]

\* A turn ends the loop or goes on.
LEMMA NavTurnIs ==
    ASSUME NEW x, NEW f
    PROVE  /\ NavTurn(x, f) = IF GoesOn({"do", "refused"}, x) THEN f[GoOn(x)] ELSE NavOut(x)
           /\ PreTurn(x, f) = IF GoesOn({"do"}, x) THEN f[GoOn(x)] ELSE PreOut(x)
BY DEF NavTurn, PreTurn, GoesOn, GoOn, NavOut, PreOut, NavFound, Passed

\* They compute functions of the state they begin with.
LEMMA NavLoops ==
    ASSUME total \in Nat
    PROVE  \E f :
              /\ \A x \in LoopSet(MaxSearch) :
                    f[x] = IF GoesOn({"do", "refused"}, x) THEN f[GoOn(x)] ELSE NavOut(x)
              /\ f = CHOOSE h : h = [x \in LoopSet(MaxSearch) |-> NavTurn(x, h)]
<1> DEFINE D == LoopSet(MaxSearch)
           Z == {x \in D : ~GoesOn({"do", "refused"}, x)}
           nxt == [x \in D |-> GoOn(x)]
           m == [x \in D |-> x.loops]
           out == [x \in D |-> NavOut(x)]
           Body(h) == [x \in D |-> NavTurn(x, h)]
<1>0. MaxSearch \in Nat
  BY MissionAssumption
<1>1. CountsDown(D, Z, nxt, m)
  BY <1>0, NavCountsDown
<1>2. \A x \in D : m[x] <= MaxSearch
  BY <1>0, SMT DEF LoopSet
<1>3. PICK g : IsLoop(D, Z, out, nxt, g)
  <2> HIDE DEF D, Z, nxt, m, out
  <2> QED BY <1>0, <1>1, <1>2, LoopExists
<1>4. g = Body(g)
  <2> HIDE DEF D
  <2>1. g = [x \in D |-> IF x \in Z THEN out[x] ELSE g[nxt[x]]]
    BY <1>3 DEF IsLoop
  <2>2. \A x \in D : (IF x \in Z THEN out[x] ELSE g[nxt[x]]) = NavTurn(x, g)
    BY NavTurnIs
  <2> HIDE DEF Z, out, nxt
  <2> QED BY <2>1, <2>2
<1>5. PICK f : f = CHOOSE h : h = Body(h)
  OBVIOUS
<1>6. f = Body(f)
  <2> HIDE DEF Body
  <2> QED BY <1>4, <1>5
<1>7. \A x \in D : f[x] = NavTurn(x, f)
  <2> HIDE DEF D
  <2> QED BY <1>6
<1> QED BY <1>5, <1>7, NavTurnIs

\* The loop that loads commands, too.
LEMMA PreLoops ==
    ASSUME total \in Nat
    PROVE  \E f :
              /\ \A x \in LoopSet(HangAfter) :
                    f[x] = IF GoesOn({"do"}, x) THEN f[GoOn(x)] ELSE PreOut(x)
              /\ f = CHOOSE h : h = [x \in LoopSet(HangAfter) |-> PreTurn(x, h)]
<1> DEFINE D == LoopSet(HangAfter)
           Z == {x \in D : ~GoesOn({"do"}, x)}
           nxt == [x \in D |-> GoOn(x)]
           m == [x \in D |-> x.loops]
           out == [x \in D |-> PreOut(x)]
           Body(h) == [x \in D |-> PreTurn(x, h)]
<1>0. HangAfter \in Nat
  BY MissionAssumption
<1>1. CountsDown(D, Z, nxt, m)
  BY <1>0, NavCountsDown
<1>2. \A x \in D : m[x] <= HangAfter
  BY <1>0, SMT DEF LoopSet
<1>3. PICK g : IsLoop(D, Z, out, nxt, g)
  <2> HIDE DEF D, Z, nxt, m, out
  <2> QED BY <1>0, <1>1, <1>2, LoopExists
<1>4. g = Body(g)
  <2> HIDE DEF D
  <2>1. g = [x \in D |-> IF x \in Z THEN out[x] ELSE g[nxt[x]]]
    BY <1>3 DEF IsLoop
  <2>2. \A x \in D : (IF x \in Z THEN out[x] ELSE g[nxt[x]]) = PreTurn(x, g)
    BY NavTurnIs
  <2> HIDE DEF Z, out, nxt
  <2> QED BY <2>1, <2>2
<1>5. PICK f : f = CHOOSE h : h = Body(h)
  OBVIOUS
<1>6. f = Body(f)
  <2> HIDE DEF Body
  <2> QED BY <1>4, <1>5
<1>7. \A x \in D : f[x] = PreTurn(x, f)
  <2> HIDE DEF D
  <2> QED BY <1>6
<1> QED BY <1>5, <1>7, NavTurnIs
-----------------------------------------------------------------------------
(* Mission: the way to the nav command                                     *)

\* Behind a, the next command that is no jump is b, or no do command.
StepsTo(C, a, b) == \E j : Leads(C, MaxJumps, a + 1, j) /\ (j = b \/ C[j + 1].kind # "do")

\* The search for a nav command to fly goes on at k, and comes to j.
Link(C, k, j) ==
    k < Len(C) /\ C[k + 1].kind \in {"do", "refused"} /\ Leads(C, MaxJumps, k + 1, j)

\* From i it comes to e when it has gone on n times at most: <<i, n>> is in every set that
\* has e with every number and, with j, what links to it with a number more.
Comes(C, n, i, e) ==
    /\ n \in Nat /\ i \in Nat /\ e \in Nat
    /\ \A T : /\ \A d \in Nat : <<e, d>> \in T
              /\ \A k, j, d \in Nat : Link(C, k, j) /\ <<j, d>> \in T => <<k, d + 1>> \in T
             => <<i, n>> \in T
Reach(C, i, e) == \E n \in Nat : Comes(C, n, i, e)

\* Where it comes to from a command, and from those that link to it.
LEMMA ComesFacts ==
    ASSUME NEW C, NEW i \in Nat, NEW n \in Nat, NEW e \in Nat
    PROVE  /\ Comes(C, n, e, e)
           /\ \A j \in Nat : Link(C, i, j) /\ Comes(C, n, j, e) => Comes(C, n + 1, i, e)
           /\ Comes(C, n, i, e) =>
                 \/ i = e
                 \/ n - 1 \in Nat /\ \E j \in Nat : Link(C, i, j) /\ Comes(C, n - 1, j, e)
<1>1. \A d \in Nat : Comes(C, d, e, e)
  BY DEF Comes
<1>2. ASSUME NEW k \in Nat, NEW d \in Nat, NEW j \in Nat, Link(C, k, j), Comes(C, d, j, e)
      PROVE  Comes(C, d + 1, k, e)
  <2>1. d + 1 \in Nat
    BY NatFacts
  <2> QED BY <1>2, <2>1 DEF Comes
<1>3. ASSUME Comes(C, n, i, e)
      PROVE  i = e \/ (n - 1 \in Nat /\ \E j \in Nat : Link(C, i, j) /\ Comes(C, n - 1, j, e))
  <2> DEFINE Q(k, d) ==
               \/ k = e
               \/ d - 1 \in Nat /\ \E j \in Nat : Link(C, k, j) /\ Comes(C, d - 1, j, e)
             T == {p \in Nat \X Nat : Q(p[1], p[2])}
  <2>1. \A d \in Nat : <<e, d>> \in T
    OBVIOUS
  <2>2. ASSUME NEW k \in Nat, NEW j \in Nat, NEW d \in Nat, Link(C, k, j), <<j, d>> \in T
        PROVE  <<k, d + 1>> \in T
    <3>1. Q(j, d)
      BY <2>2
    <3>2. d - 1 \in Nat => (d - 1) + 1 = d
      BY NatFacts
    <3>3. Comes(C, d, j, e)
      BY <1>1, <1>2, <3>1, <3>2
    <3>4. d + 1 \in Nat /\ (d + 1) - 1 = d
      BY NatFacts
    <3>5. Q(k, d + 1)
      BY <2>2, <3>3, <3>4
    <3>6. <<k, d + 1>> \in Nat \X Nat /\ <<k, d + 1>>[1] = k /\ <<k, d + 1>>[2] = d + 1
      BY <3>4
    <3> HIDE DEF Q
    <3> QED BY <3>5, <3>6
  <2> HIDE DEF T
  <2>3. <<i, n>> \in T
    BY <1>3, <2>1, <2>2 DEF Comes
  <2> QED BY <2>3 DEF T
<1> QED BY <1>1, <1>2, <1>3

\* What links to a command comes to what it comes to.
LEMMA Reaches ==
    ASSUME NEW C, NEW i \in Nat, NEW e \in Nat
    PROVE  Reach(C, e, e) /\ \A j \in Nat : Link(C, i, j) /\ Reach(C, j, e) => Reach(C, i, e)
<1>1. Reach(C, e, e)
  <2>1. 0 \in Nat
    BY NatFacts
  <2> QED BY <2>1, ComesFacts DEF Reach
<1>2. ASSUME NEW j \in Nat, Link(C, i, j), Reach(C, j, e) PROVE Reach(C, i, e)
  <2>1. PICK n \in Nat : Comes(C, n, j, e)
    BY <1>2 DEF Reach
  <2>2. n + 1 \in Nat
    BY NatFacts
  <2> QED BY <1>2, <2>1, <2>2, ComesFacts DEF Reach
<1> QED BY <1>1, <1>2

\* It comes there, if it does, when it has gone on fewer times than there are commands
\* behind home: the least numbers of the commands that it passes are all different.
LEMMA ShortWay ==
    ASSUME NEW C, Len(C) \in Nat, NEW e \in Nat, e < Len(C),
           NEW i \in Nat, i # 0, Reach(C, i, e)
    PROVE  \E n \in Nat : n < Len(C) - 1 /\ Comes(C, n, i, e)
<1> DEFINE Far(d, k) == Comes(C, d, k, e) /\ \A m \in Nat : Comes(C, m, k, e) => d <= m
           K == 1 .. Len(C) - 1
<1>1. PICK n \in Nat : Far(n, i)
  <2> DEFINE S == {m \in Nat : Comes(C, m, i, e)}
  <2>1. S \in SUBSET Nat /\ S # {}
    BY DEF Reach
  <2>2. PICK n \in S : \A y \in S : n <= y
    <3> HIDE DEF S
    <3> QED BY <2>1, Least
  <2> QED BY <2>2
<1>2. ASSUME NEW k \in Nat, NEW d \in Nat, k # 0, Comes(C, d, k, e) PROVE k \in K
  <2>1. k < Len(C)
    BY <1>2, ComesFacts DEF Link
  <2> QED BY <1>2, <2>1, SMT
<1>3. ASSUME NEW d \in Nat, NEW k \in Nat, k # 0, Far(d + 1, k)
      PROVE  \E j \in Nat : j # 0 /\ Far(d, j)
  <2>1. d + 1 \in Nat /\ (d + 1) - 1 = d /\ ~(d + 1 <= 0) /\ 0 \in Nat
    BY NatFacts
  <2>2. k # e
    <3>1. Comes(C, 0, e, e)
      BY <2>1, ComesFacts
    <3> QED BY <1>3, <2>1, <3>1
  <2>3. PICK j \in Nat : Link(C, k, j) /\ Comes(C, d, j, e)
    <3>1. PICK m \in Nat : m = d + 1 /\ m - 1 = d
      BY <2>1
    <3>2. Comes(C, m, k, e)
      BY <1>3, <3>1
    <3>3. \E j \in Nat : Link(C, k, j) /\ Comes(C, m - 1, j, e)
      BY <2>2, <3>2, ComesFacts
    <3> QED BY <3>1, <3>3
  <2>4. ASSUME NEW m \in Nat, Comes(C, m, j, e) PROVE d <= m
    <3>1. Comes(C, m + 1, k, e) /\ m + 1 \in Nat
      <4>1. m + 1 \in Nat
        BY NatFacts
      <4> QED BY <2>3, <2>4, <4>1, ComesFacts
    <3>2. d + 1 <= m + 1
      BY <1>3, <3>1
    <3> QED BY <3>2, NatFacts
  <2>5. j # 0
    <3>1. k + 1 # 0
      BY NatFacts
    <3> QED BY <2>3, <3>1, LeadsOn DEF Link
  <2> QED BY <2>3, <2>4, <2>5
<1>4. \A d \in 0 .. n : \E k \in K : Far(d, k)
  <2> DEFINE V == {m \in Nat : m <= n => \E k \in Nat : k # 0 /\ Far(n - m, k)}
  <2>1. 0 \in V
    <3>1. n - 0 = n /\ 0 \in Nat
      BY NatFacts
    <3> QED BY <1>1, <3>1
  <2>2. ASSUME NEW m \in Nat, m \in V PROVE m + 1 \in V
    <3>1. ASSUME m + 1 <= n PROVE \E k \in Nat : k # 0 /\ Far(n - (m + 1), k)
      <4>1. PICK d \in Nat : d = n - (m + 1) /\ d + 1 = n - m /\ m <= n
        BY <3>1, SMT
      <4>2. PICK k \in Nat : k # 0 /\ Far(d + 1, k)
        BY <2>2, <4>1
      <4> QED BY <1>3, <4>1, <4>2
    <3>2. m + 1 \in Nat
      BY NatFacts
    <3> QED BY <3>1, <3>2
  <2>3. \A m \in Nat : m \in V
    <3> HIDE DEF V
    <3> QED BY <2>1, <2>2, NatSetInduction
  <2>4. ASSUME NEW d \in 0 .. n PROVE \E k \in K : Far(d, k)
    <3>1. PICK m \in Nat : m <= n /\ n - m = d /\ d \in Nat
      <4>1. n - d \in Nat /\ n - d <= n /\ n - (n - d) = d /\ d \in Nat
        BY SMT
      <4> QED BY <4>1
    <3>2. PICK k \in Nat : k # 0 /\ Far(d, k)
      BY <2>3, <3>1
    <3> QED BY <1>2, <3>1, <3>2
  <2> QED BY <2>4
<1>5. PICK h : h = [d \in 0 .. n |-> CHOOSE k \in K : Far(d, k)]
  OBVIOUS
<1>6. \A d \in 0 .. n : h[d] \in K /\ Far(d, h[d])
  <2> HIDE DEF K, Far
  <2> QED BY <1>4, <1>5
<1>7. h \in [0 .. n -> K]
  <2> HIDE DEF K
  <2> QED BY <1>5, <1>6
<1>8. ASSUME NEW a \in 0 .. n, NEW b \in 0 .. n, h[a] = h[b] PROVE a = b
  <2>1. a \in Nat /\ b \in Nat
    BY SMT
  <2>2. a <= b /\ b <= a
    BY <1>6, <1>8, <2>1
  <2> QED BY <2>1, <2>2, NatFacts
<1>9. h \in Injection(0 .. n, K)
  <2> HIDE DEF K
  <2> QED BY <1>7, <1>8 DEF Injection, IsInjective
<1>10. n < Len(C) - 1
  <2>1. Len(C) - 1 \in Int /\ 0 \in Int /\ 1 \in Int /\ n \in Int
    BY SMT
  <2>2. /\ IsFiniteSet(K) /\ Cardinality(K) = IF 1 > Len(C) - 1 THEN 0 ELSE Len(C) - 1 - 1 + 1
        /\ Cardinality(0 .. n) = IF 0 > n THEN 0 ELSE n - 0 + 1
    BY <2>1, FS_Interval
  <2>3. Cardinality(0 .. n) <= Cardinality(K)
    <3> HIDE DEF K
    <3> QED BY <1>9, <2>2, FS_Injection
  <2> HIDE DEF K
  <2> QED BY <2>2, <2>3, SMT
<1> QED BY <1>1, <1>10

\* The do commands on the way, as long as it is known: each is the next one behind the
\* one before, those that were started are the first, and from each the search comes to
\* the nav command.
WayOK(C, q) ==
    /\ \A k \in 1 .. Len(q.way) : q.way[k] \in 1 .. Len(C) - 1
    /\ \A k \in 1 .. Len(q.way) - 1 : StepsTo(C, q.way[k], q.way[k + 1])
    /\ Len(q.did) <= Len(q.way) /\ \A k \in 1 .. Len(q.did) : q.did[k] = q.way[k]
    /\ Len(q.did) > 0 => q.doc = q.way[Len(q.did)]
    /\ Len(q.did) = 0 => ~q.doLoaded /\ q.way = <<>>
    /\ q.navLoaded => /\ q.nav < Len(C)
                      /\ q.way # <<>> => StepsTo(C, q.way[Len(q.way)], None)
                      /\ \A k \in 1 .. Len(q.way) : Reach(C, q.way[k], q.nav)
RunOK(C, q) ==
    /\ q \in Runs /\ (q.navLoaded => q.nav >= 1)
    /\ q.known => WayOK(C, q)

\* While the loops look for the nav command: where the search goes on.
FromOK(C, q, from) ==
    /\ q.way # <<>> => \/ from = q.way[Len(q.way)] + 1
                       \/ StepsTo(C, q.way[Len(q.way)], None)
    /\ \A k \in 1 .. Len(q.way) : \A j, e \in Nat :
          Leads(C, MaxJumps, from, j) /\ Reach(C, j, e) => Reach(C, q.way[k], e)
LoopOK(x) ==
    /\ x.from >= 1 /\ ~x.run.navLoaded
    /\ x.run.doLoaded <=> x.run.way # <<>>
    /\ x.run.known => WayOK(cmds, x.run) /\ FromOK(cmds, x.run, x.from)

\* A do command is added to the way.
LEMMA WayGrows ==
    ASSUME NEW C, Len(C) \in Nat, NEW q \in Runs, ~q.navLoaded, WayOK(C, q),
           q.doLoaded <=> q.way # <<>>,
           NEW i \in 1 .. Len(C) - 1, q.way # <<>> => StepsTo(C, q.way[Len(q.way)], i)
    PROVE  WayOK(C, SetDo(q, i))
<1>1. q.way \in Seq(Nat) /\ q.did \in Seq(Nat) /\ i \in Nat
  BY SMT DEF Runs
<1>2. PICK W : W = Append(q.way, i)
  OBVIOUS
<1>3. /\ W \in Seq(Nat) /\ Len(W) = Len(q.way) + 1 /\ Len(q.way) \in Nat
      /\ \A k \in 1 .. Len(q.way) : W[k] = q.way[k]
      /\ W[Len(W)] = i /\ W # <<>>
  <2>1. PICK V \in Seq(Nat) : V = q.way
    BY <1>1
  <2>2. W = Append(V, i) /\ Len(V) \in Nat
    BY <1>2, <2>1, SMT
  <2>3. /\ W \in Seq(Nat) /\ Len(W) = Len(V) + 1
        /\ (\A k \in 1 .. Len(V) : W[k] = V[k]) /\ W[Len(W)] = i
    BY <1>1, <2>2, AppendProperties, SMT
  <2>4. W # <<>>
    BY <2>2, <2>3, SMT
  <2> QED BY <2>1, <2>2, <2>3, <2>4
<1>4. PICK z : z = SetDo(q, i)
  OBVIOUS
<1>5. z.way = W /\ z.navLoaded = q.navLoaded
  BY <1>2, <1>4 DEF SetDo, Runs
<1>6. \A k \in 1 .. Len(W) : W[k] \in 1 .. Len(C) - 1
  <2>1. \A k \in 1 .. Len(W) : k \in 1 .. Len(q.way) \/ k = Len(W)
    BY <1>3, SMT
  <2> QED BY <1>3, <2>1 DEF WayOK
<1>7. ASSUME NEW k \in 1 .. Len(W) - 1 PROVE StepsTo(C, W[k], W[k + 1])
  <2>1. CASE k = Len(q.way)
    <3>0. k \in 1 .. Len(q.way) /\ k + 1 = Len(W) /\ Len(q.way) # 0
      BY <1>3, <2>1, SMT
    <3>1. q.way # <<>> /\ W[k] = q.way[Len(q.way)] /\ W[k + 1] = i
      BY <1>3, <2>1, <3>0, SMTT(20)
    <3> QED BY <3>1
  <2>2. CASE k # Len(q.way)
    <3>1. k \in 1 .. Len(q.way) - 1 /\ k \in 1 .. Len(q.way) /\ k + 1 \in 1 .. Len(q.way)
      BY <1>3, <2>2, SMT
    <3>2. W[k] = q.way[k] /\ W[k + 1] = q.way[k + 1]
      BY <1>3, <3>1
    <3> QED BY <3>1, <3>2 DEF WayOK
  <2> QED BY <2>1, <2>2
<1>8. CASE q.doLoaded
  <2>1. z.did = q.did /\ z.doc = q.doc /\ z.doLoaded = q.doLoaded
    BY <1>4, <1>8 DEF SetDo, Runs
  <2>2. Len(q.did) \in Nat /\ Len(q.did) > 0 /\ Len(q.did) <= Len(q.way)
    BY <1>1, <1>8, SMT DEF WayOK
  <2>3. \A k \in 1 .. Len(q.did) : q.did[k] = W[k]
    BY <1>3, <2>2, SMT DEF WayOK
  <2>4. q.doc = W[Len(q.did)]
    BY <1>3, <2>2, SMTT(20) DEF WayOK
  <2>5. Len(q.did) <= Len(W)
    BY <1>3, <2>2, SMT
  <2> QED BY <1>4, <1>5, <1>6, <1>7, <2>1, <2>2, <2>3, <2>4, <2>5, SMT DEF WayOK
<1>9. CASE ~q.doLoaded
  <2>1. z.did = <<i>> /\ z.doc = i
    BY <1>4, <1>9 DEF SetDo, Runs
  <2>2. Len(q.way) = 0
    BY <1>9, SMT
  <2>3. Len(z.did) = 1 /\ z.did[1] = W[1] /\ Len(W) = 1
    BY <1>3, <2>1, <2>2, SMT
  <2>4. \A k \in 1 .. Len(z.did) : z.did[k] = W[k]
    BY <2>3, SMT
  <2>5. z.doc = W[Len(z.did)]
    BY <1>3, <2>1, <2>3
  <2> QED BY <1>4, <1>5, <1>6, <1>7, <2>3, <2>4, <2>5, SMT DEF WayOK
<1> QED BY <1>8, <1>9

\* The command that a search has found is where the jumps lead.
LEMMA FoundIsLed ==
    ASSUME total \in Nat, NEW B \in Nat, NEW x \in LoopSet(B), LoopOK(x),
           NavFound(x).found, Passed(x).known
    PROVE  /\ Leads(cmds, MaxJumps, x.from, NavFound(x).at)
           /\ FromOK(cmds, x.run, x.from)
<1>1. /\ SearchedOK(TRUE, Start(x.from, x.run.jumps), NavFound(x)) /\ NavFound(x).at \in Nat
      /\ x.run \in Runs /\ x.run.known \in BOOLEAN /\ NavFound(x).known \in BOOLEAN
  BY PassedFacts DEF SearchedOK, LoopSet, Runs
<1>2. Passed(x).known = (x.run.known /\ NavFound(x).known)
  BY <1>1, PassedFacts DEF Runs
<1>3. x.run.known /\ NavFound(x).known
  BY <1>1, <1>2
<1>4. Leads(cmds, MaxJumps, x.from, NavFound(x).at)
  BY <1>1, <1>3 DEF SearchedOK, Start
<1>5. FromOK(cmds, x.run, x.from)
  BY <1>3 DEF LoopOK
<1> QED BY <1>4, <1>5

\* It is the next one behind the way.
LEMMA FoundIsNext ==
    ASSUME total \in Nat, NEW B \in Nat, NEW x \in LoopSet(B), LoopOK(x),
           NavFound(x).found, Passed(x).known, x.run.way # <<>>
    PROVE  /\ StepsTo(cmds, x.run.way[Len(x.run.way)], NavFound(x).at)
           /\ Cmd(NavFound(x).at).kind # "do" =>
                 StepsTo(cmds, x.run.way[Len(x.run.way)], None)
<1>1. /\ Leads(cmds, MaxJumps, x.from, NavFound(x).at)
      /\ FromOK(cmds, x.run, x.from)
  BY FoundIsLed
<1>2. PICK a : a = x.run.way[Len(x.run.way)]
  OBVIOUS
<1>3. CASE x.from = a + 1
  BY <1>1, <1>2, <1>3 DEF StepsTo, Cmd
<1>4. CASE StepsTo(cmds, a, None)
  <2>1. PICK j : Leads(cmds, MaxJumps, a + 1, j) /\ cmds[j + 1].kind # "do"
    <3>1. PICK j : Leads(cmds, MaxJumps, a + 1, j) /\ (j = None \/ cmds[j + 1].kind # "do")
      BY <1>4 DEF StepsTo
    <3>2. j \in Nat
      BY <3>1 DEF Leads
    <3>3. j # None
      BY <3>2, SMT DEF None
    <3> QED BY <3>1, <3>3
  <2> QED BY <1>2, <1>4, <2>1 DEF StepsTo
<1> QED BY <1>1, <1>2, <1>3, <1>4 DEF FromOK

\* WayOK is about some of the fields.
LEMMA SameWay ==
    ASSUME NEW C, NEW p, NEW q, WayOK(C, p),
           q.way = p.way, q.did = p.did, q.doc = p.doc, q.doLoaded => p.doLoaded,
           q.navLoaded => \/ p.navLoaded /\ q.nav = p.nav
                          \/ /\ q.nav < Len(C)
                             /\ q.way # <<>> => StepsTo(C, q.way[Len(q.way)], None)
                             /\ \A k \in 1 .. Len(q.way) : Reach(C, q.way[k], q.nav)
    PROVE  WayOK(C, q)
BY DEF WayOK

\* A search leaves the way as it is.
LEMMA PassedWay ==
    ASSUME total \in Nat, NEW B \in Nat, NEW x \in LoopSet(B), LoopOK(x)
    PROVE  /\ Passed(x).way = x.run.way /\ Passed(x).did = x.run.did
           /\ Passed(x).doc = x.run.doc /\ Passed(x).doLoaded = x.run.doLoaded
           /\ ~Passed(x).navLoaded
           /\ Passed(x).doLoaded <=> Passed(x).way # <<>>
           /\ Passed(x).known => WayOK(cmds, Passed(x))
<1>1. PICK p \in Runs : p = x.run
  BY DEF LoopSet
<1>2. PICK q : q = Passed(x)
  OBVIOUS
<1>3. q = [p EXCEPT !.jumps = NavFound(x).jumps, !.known = p.known /\ NavFound(x).known]
  BY <1>1, <1>2, PassedFacts
<1>4. /\ q.way = p.way /\ q.did = p.did /\ q.doc = p.doc
      /\ q.doLoaded = p.doLoaded /\ q.navLoaded = p.navLoaded /\ q.nav = p.nav
      /\ q.known = (p.known /\ NavFound(x).known)
  BY <1>3 DEF Runs
<1>5. ~p.navLoaded /\ (p.doLoaded <=> p.way # <<>>) /\ (p.known => WayOK(cmds, p))
  BY <1>1 DEF LoopOK
<1>6. p.known => WayOK(cmds, q)
  BY <1>4, <1>5, SameWay
<1> QED BY <1>1, <1>2, <1>4, <1>5, <1>6

\* A turn of the loop that goes on keeps LoopOK.
LEMMA GoOnOK ==
    ASSUME total \in Nat, NEW B \in Nat, NEW x \in LoopSet(B), LoopOK(x),
           GoesOn({"do", "refused"}, x)
    PROVE  LoopOK(GoOn(x))
<1>1. /\ SearchedOK(TRUE, Start(x.from, x.run.jumps), NavFound(x)) /\ Passed(x) \in Runs
      /\ x.from \in Nat /\ x.from >= 1
  BY PassedFacts DEF LoopSet, LoopOK
<1>2. PICK i \in Nat : i = NavFound(x).at
  BY PassedFacts
<1>3. i \in 1 .. total - 1
  BY <1>1, <1>2, SMT DEF SearchedOK, Start, GoesOn
<1>4. PICK q \in Runs : q = Passed(x)
  BY <1>1
<1>5. q.way = x.run.way
  BY <1>4, PassedWay
<1>6. q.known => WayOK(cmds, q)
  BY <1>4, PassedWay
<1>7. ASSUME q.known, q.way # <<>>
      PROVE  /\ StepsTo(cmds, q.way[Len(q.way)], i)
             /\ Cmd(i).kind # "do" => StepsTo(cmds, q.way[Len(q.way)], None)
  <2>1. NavFound(x).found /\ Passed(x).known /\ x.run.way # <<>>
    BY <1>4, <1>5, <1>7 DEF GoesOn
  <2>2. /\ StepsTo(cmds, x.run.way[Len(x.run.way)], NavFound(x).at)
        /\ Cmd(NavFound(x).at).kind # "do" => StepsTo(cmds, x.run.way[Len(x.run.way)], None)
    BY <2>1, FoundIsNext
  <2> QED BY <1>2, <1>5, <2>2
<1>8. ASSUME q.known, NEW j \in Nat, NEW e \in Nat,
              Leads(cmds, MaxJumps, i + 1, j), Reach(cmds, j, e)
       PROVE  Reach(cmds, i, e) /\ \A k \in 1 .. Len(q.way) : Reach(cmds, q.way[k], e)
  <2>1. NavFound(x).found /\ Passed(x).known /\ Cmd(i).kind \in {"do", "refused"}
    BY <1>2, <1>4, <1>8 DEF GoesOn
  <2>2. Leads(cmds, MaxJumps, x.from, i) /\ FromOK(cmds, q, x.from)
    BY <1>2, <1>5, <2>1, FoundIsLed DEF FromOK
  <2>3. Link(cmds, i, j)
    BY <1>3, <1>8, <2>1, SMT DEF Link, Cmd, total
  <2>4. Reach(cmds, i, e)
    BY <1>8, <2>3, Reaches
  <2> QED BY <2>2, <2>4 DEF FromOK
<1>9. PICK y : y = GoOn(x)
  OBVIOUS
<1>10. y.from = i + 1 /\ y.from >= 1
  BY <1>2, <1>9, SMT DEF GoOn
<1>11. ~q.navLoaded /\ (q.doLoaded <=> q.way # <<>>)
  BY <1>4, PassedWay
<1>12. CASE Cmd(i).kind = "do"
  <2>1. y.run = SetDo(q, i)
    BY <1>2, <1>4, <1>9, <1>12 DEF GoOn
  <2>2. PICK z : z = SetDo(q, i)
    OBVIOUS
  <2>3. /\ z.way = Append(q.way, i) /\ z.doLoaded /\ z.navLoaded = q.navLoaded
        /\ z.known = q.known
    BY <2>2 DEF SetDo, Runs
  <2>4. z.way # <<>> /\ z.way[Len(z.way)] = i
    <3>1. PICK V \in Seq(Nat) : V = q.way
      BY DEF Runs
    <3>2. z.way = Append(V, i) /\ Len(V) \in Nat
      BY <2>3, <3>1, SMT
    <3>3. Len(z.way) = Len(V) + 1 /\ z.way[Len(z.way)] = i
      BY <3>2, AppendProperties, SMT
    <3> QED BY <3>2, <3>3, SMT
  <2>5. ASSUME z.known PROVE WayOK(cmds, z)
    BY <1>3, <1>6, <1>7, <1>11, <2>2, <2>3, <2>5, WayGrows DEF total
  <2>6. ASSUME z.known PROVE FromOK(cmds, z, y.from)
    <3>1. ASSUME NEW j \in Nat, NEW e \in Nat, Leads(cmds, MaxJumps, i + 1, j), Reach(cmds, j, e),
                 NEW k \in 1 .. Len(z.way)
          PROVE  Reach(cmds, z.way[k], e)
      <4>1. PICK V \in Seq(Nat) : V = q.way
        BY DEF Runs
      <4>2. z.way = Append(V, i) /\ Len(V) \in Nat
        BY <2>3, <4>1, SMT
      <4>3. z.way[k] = i \/ (k \in 1 .. Len(V) /\ z.way[k] = V[k])
        BY <4>2, AppendProperties, SMT
      <4> QED BY <1>8, <2>3, <2>6, <3>1, <4>1, <4>3
    <3> QED BY <1>10, <2>4, <3>1 DEF FromOK
  <2> QED BY <1>9, <1>10, <1>11, <2>1, <2>2, <2>3, <2>4, <2>5, <2>6 DEF LoopOK
<1>13. CASE Cmd(i).kind # "do"
  <2>1. y.run = [q EXCEPT !.nav = i]
    BY <1>2, <1>4, <1>9, <1>13 DEF GoOn
  <2>2. PICK z : z = [q EXCEPT !.nav = i]
    OBVIOUS
  <2>3. /\ z.way = q.way /\ z.did = q.did /\ z.doc = q.doc /\ z.doLoaded = q.doLoaded
        /\ z.navLoaded = q.navLoaded /\ z.known = q.known
    BY <2>2 DEF Runs
  <2>4. ASSUME z.known PROVE WayOK(cmds, z) /\ FromOK(cmds, z, y.from)
    <3>1. WayOK(cmds, q) /\ q.known
      BY <1>6, <2>3, <2>4
    <3>2. WayOK(cmds, z)
      BY <1>11, <2>3, <3>1, SameWay
    <3>3. FromOK(cmds, z, y.from)
      BY <1>7, <1>10, <1>13, <1>8, <2>3, <3>1 DEF FromOK
    <3> QED BY <3>2, <3>3
  <2> QED BY <1>9, <1>10, <1>11, <2>1, <2>2, <2>3, <2>4 DEF LoopOK
<1> QED BY <1>12, <1>13

\* The nav command is found, or none.
LEMMA NavSet ==
    ASSUME total \in Nat, NEW B \in Nat, NEW x \in LoopSet(B), LoopOK(x)
    PROVE  /\ x.run \in Runs /\ (x.run.known => WayOK(cmds, x.run))
           /\ Passed(x) \in Runs
           /\ NavFound(x).found /\ Cmd(NavFound(x).at).kind # "do" =>
                RunOK(cmds, [Passed(x) EXCEPT !.nav = NavFound(x).at, !.navLoaded = TRUE])
<1>1. /\ SearchedOK(TRUE, Start(x.from, x.run.jumps), NavFound(x)) /\ Passed(x) \in Runs
      /\ x.from \in Nat /\ x.from >= 1 /\ x.run \in Runs
  BY PassedFacts DEF LoopSet, LoopOK
<1>2. ASSUME NavFound(x).found, Cmd(NavFound(x).at).kind # "do"
      PROVE  RunOK(cmds, [Passed(x) EXCEPT !.nav = NavFound(x).at, !.navLoaded = TRUE])
  <2>1. PICK i \in Nat : i = NavFound(x).at
    BY PassedFacts
  <2>2. i \in 1 .. total - 1
    BY <1>1, <1>2, <2>1, SMT DEF SearchedOK, Start
  <2>3. PICK q \in Runs : q = Passed(x)
    BY <1>1
  <2>4. PICK z : z = [q EXCEPT !.nav = i, !.navLoaded = TRUE]
    OBVIOUS
  <2>5. /\ z \in Runs /\ z.way = q.way /\ z.did = q.did /\ z.doc = q.doc
        /\ z.doLoaded = q.doLoaded /\ z.known = q.known /\ z.nav = i
    BY <2>4 DEF Runs
  <2>6. ASSUME z.known PROVE WayOK(cmds, z)
    <3>1. WayOK(cmds, q) /\ q.known
      BY <2>3, <2>5, <2>6, PassedWay
    <3>2. q.way # <<>> => StepsTo(cmds, q.way[Len(q.way)], None)
      BY <1>2, <2>3, <3>1, FoundIsNext, PassedWay
    <3>3. i < Len(cmds)
      BY <2>2, SMT DEF total
    <3>4. \A k \in 1 .. Len(z.way) : Reach(cmds, z.way[k], i)
      <4>1. Leads(cmds, MaxJumps, x.from, i) /\ FromOK(cmds, x.run, x.from)
        BY <1>2, <2>1, <2>3, <3>1, FoundIsLed
      <4>2. z.way = x.run.way
        BY <2>3, <2>5, PassedWay
      <4>3. Reach(cmds, i, i)
        BY Reaches
      <4> QED BY <4>1, <4>2, <4>3 DEF FromOK
    <3> QED BY <2>5, <3>1, <3>2, <3>3, <3>4, SameWay
  <2> QED BY <2>1, <2>2, <2>3, <2>4, <2>5, <2>6, SMT DEF RunOK
<1> QED BY <1>1, <1>2 DEF LoopOK

\* What the loops end with.
LEMMA NavOutOK ==
    ASSUME total \in Nat, NEW B \in Nat, NEW x \in LoopSet(B), LoopOK(x),
           ~GoesOn({"do", "refused"}, x)
    PROVE  /\ RunOK(cmds, NavOut(x).run) /\ NavOut(x).ok \in BOOLEAN
           /\ NavOut(x) = [ok |-> NavOut(x).ok, run |-> NavOut(x).run]
           /\ NavOut(x).run.doLoaded <=> NavOut(x).run.way # <<>>
<1>1. CASE x.loops = 0
  <2>1. NavOut(x) = [ok |-> TRUE, run |-> x.run]
    BY <1>1 DEF NavOut
  <2>2. PICK q : q = x.run
    OBVIOUS
  <2>3. RunOK(cmds, q) /\ (q.doLoaded <=> q.way # <<>>)
    BY <2>2, NavSet DEF LoopOK, RunOK
  <2> QED BY <2>1, <2>2, <2>3, SMT
<1>2. CASE x.loops # 0 /\ ~NavFound(x).found
  <2>1. NavOut(x) = [ok |-> FALSE, run |-> Passed(x)]
    BY <1>2 DEF NavOut
  <2>2. PICK q : q = Passed(x)
    OBVIOUS
  <2>3. RunOK(cmds, q) /\ (q.doLoaded <=> q.way # <<>>)
    BY <2>2, NavSet, PassedWay DEF RunOK
  <2> QED BY <2>1, <2>2, <2>3, SMT
<1>3. CASE x.loops # 0 /\ NavFound(x).found
  <2> DEFINE z == [Passed(x) EXCEPT !.nav = NavFound(x).at, !.navLoaded = TRUE]
  <2>1. NavOut(x) = [ok |-> x.loops # 1, run |-> z]
    BY <1>3 DEF NavOut
  <2>2. RunOK(cmds, z)
    BY <1>3, NavSet DEF GoesOn
  <2>3. z.way = Passed(x).way /\ z.doLoaded = Passed(x).doLoaded
    BY NavSet DEF Runs
  <2> HIDE DEF z
  <2> QED BY <2>1, <2>2, <2>3, PassedWay, SMT
<1> QED BY <1>1, <1>2, <1>3

\* The same of the loop that loads commands.
LEMMA PreOutOK ==
    ASSUME total \in Nat, NEW B \in Nat, NEW x \in LoopSet(B), LoopOK(x), ~GoesOn({"do"}, x)
    PROVE  /\ RunOK(cmds, PreOut(x))
           /\ PreOut(x).navLoaded => PreOut(x).state # "running"
<1>1. CASE x.loops = 0
  <2>1. PICK q \in Runs : q = x.run
    BY NavSet
  <2>2. PICK z : z = [q EXCEPT !.state = "hung"]
    OBVIOUS
  <2>3. /\ z \in Runs /\ z.way = q.way /\ z.did = q.did /\ z.doc = q.doc /\ z.nav = q.nav
        /\ z.doLoaded = q.doLoaded /\ z.known = q.known /\ z.navLoaded = q.navLoaded
    BY <2>2 DEF Runs
  <2>4. ~q.navLoaded /\ (q.known => WayOK(cmds, q))
    BY <2>1, NavSet DEF LoopOK
  <2>5. z.known => WayOK(cmds, z)
    BY <2>3, <2>4, SameWay
  <2>6. PreOut(x) = z
    BY <1>1, <2>1, <2>2 DEF PreOut
  <2> QED BY <2>3, <2>4, <2>5, <2>6 DEF RunOK
<1>2. CASE x.loops # 0 /\ ~NavFound(x).found
  <2>1. PICK q \in Runs : q = Passed(x)
    BY NavSet
  <2>2. PICK z : z = [q EXCEPT !.nav = None]
    OBVIOUS
  <2>3. /\ z \in Runs /\ z.way = q.way /\ z.did = q.did /\ z.doc = q.doc
        /\ z.doLoaded = q.doLoaded /\ z.known = q.known /\ z.navLoaded = q.navLoaded
    BY <2>2 DEF Runs
  <2>4. ~q.navLoaded /\ (q.known => WayOK(cmds, q))
    BY <2>1, PassedWay
  <2>5. z.known => WayOK(cmds, z)
    BY <2>3, <2>4, SameWay
  <2>6. PreOut(x) = z
    BY <1>2, <2>1, <2>2 DEF PreOut
  <2> QED BY <2>3, <2>4, <2>5, <2>6 DEF RunOK
<1>3. CASE x.loops # 0 /\ NavFound(x).found
  <2>1. PICK q : q = [Passed(x) EXCEPT !.nav = NavFound(x).at, !.navLoaded = TRUE]
    OBVIOUS
  <2>2. q \in Runs /\ RunOK(cmds, q)
    BY <1>3, <2>1, NavSet DEF GoesOn, RunOK
  <2>3. PICK b \in BOOLEAN : b = ~Passed(x).doLoaded
    OBVIOUS
  <2>4. PICK z : z = [q EXCEPT !.allDone = b, !.state = "stopped"]
    OBVIOUS
  <2>5. /\ z \in Runs /\ z.way = q.way /\ z.did = q.did /\ z.doc = q.doc /\ z.nav = q.nav
        /\ z.doLoaded = q.doLoaded /\ z.known = q.known /\ z.navLoaded = q.navLoaded
        /\ z.state = "stopped"
    BY <2>2, <2>4 DEF Runs
  <2>6. z.known => WayOK(cmds, z)
    BY <2>2, <2>5, SameWay DEF RunOK
  <2>7. PreOut(x) = z
    BY <1>3, <2>1, <2>3, <2>4, NavSet DEF PreOut
  <2> QED BY <2>2, <2>5, <2>6, <2>7 DEF RunOK
<1> QED BY <1>1, <1>2, <1>3

\* So the loops end well from every state that is LoopOK.
NavOK(a) ==
    /\ RunOK(cmds, a.run) /\ a.ok \in BOOLEAN /\ a = [ok |-> a.ok, run |-> a.run]
    /\ a.run.doLoaded <=> a.run.way # <<>>
PreOK(q) == RunOK(cmds, q) /\ (q.navLoaded => q.state # "running")

\* The search for a nav command to fly.
LEMMA NavLoopOK ==
    ASSUME total \in Nat, NEW f, NEW x \in LoopSet(MaxSearch), LoopOK(x),
           \A z \in LoopSet(MaxSearch) :
              f[z] = IF GoesOn({"do", "refused"}, z) THEN f[GoOn(z)] ELSE NavOut(z)
    PROVE  NavOK(f[x])
<1> DEFINE D == LoopSet(MaxSearch)
           Z == {z \in D : ~GoesOn({"do", "refused"}, z)}
           nxt == [z \in D |-> GoOn(z)]
           m == [z \in D |-> z.loops]
           P == {z \in D : LoopOK(z) => NavOK(f[z])}
<1>0. MaxSearch \in Nat
  BY MissionAssumption
<1>1. CountsDown(D, Z, nxt, m)
  BY <1>0, NavCountsDown
<1>2. ASSUME NEW z \in D, z \in Z PROVE z \in P
  <2>1. ASSUME LoopOK(z) PROVE NavOK(NavOut(z))
    BY <1>0, <1>2, <2>1, NavOutOK DEF NavOK
  <2> QED BY <1>2, <2>1
<1>3. ASSUME NEW z \in D, z \notin Z, nxt[z] \in P PROVE z \in P
  <2>1. LoopOK(z) => LoopOK(GoOn(z))
    BY <1>0, <1>3, GoOnOK
  <2>2. f[z] = f[GoOn(z)] /\ GoOn(z) \in P
    BY <1>3
  <2> QED BY <2>1, <2>2
<1>4. D \subseteq P
  <2> HIDE DEF D, Z, nxt, m, P
  <2> QED BY <1>1, <1>2, <1>3, LoopInduction, SMT
<1> QED BY <1>4

\* The loop that loads commands.
LEMMA PreLoopOK ==
    ASSUME total \in Nat, NEW f, NEW x \in LoopSet(HangAfter), LoopOK(x),
           \A z \in LoopSet(HangAfter) :
              f[z] = IF GoesOn({"do"}, z) THEN f[GoOn(z)] ELSE PreOut(z)
    PROVE  PreOK(f[x])
<1> DEFINE D == LoopSet(HangAfter)
           Z == {z \in D : ~GoesOn({"do"}, z)}
           nxt == [z \in D |-> GoOn(z)]
           m == [z \in D |-> z.loops]
           P == {z \in D : LoopOK(z) => PreOK(f[z])}
<1>0. HangAfter \in Nat
  BY MissionAssumption
<1>1. CountsDown(D, Z, nxt, m)
  BY <1>0, NavCountsDown
<1>2. ASSUME NEW z \in D, z \in Z PROVE z \in P
  <2>1. ASSUME LoopOK(z) PROVE PreOK(PreOut(z))
    BY <1>0, <1>2, <2>1, PreOutOK DEF PreOK
  <2> QED BY <1>2, <2>1
<1>3. ASSUME NEW z \in D, z \notin Z, nxt[z] \in P PROVE z \in P
  <2>1. GoesOn({"do", "refused"}, z)
    BY <1>3 DEF GoesOn
  <2>2. LoopOK(z) => LoopOK(GoOn(z))
    BY <1>0, <2>1, GoOnOK
  <2>3. f[z] = f[GoOn(z)] /\ GoOn(z) \in P
    BY <1>3
  <2> QED BY <2>2, <2>3
<1>4. D \subseteq P
  <2> HIDE DEF D, Z, nxt, m, P
  <2> QED BY <1>1, <1>2, <1>3, LoopInduction, SMT
<1> QED BY <1>4

\* What the loops begin with.
LEMMA NoCommandOK ==
    ASSUME total \in Nat, NEW q \in Runs, NEW J \in Seq(Slot),
           NEW from \in Nat, from >= 1, NEW B \in Nat
    PROVE  /\ NoCommand(q) \in Runs /\ ~NoCommand(q).navLoaded /\ NoCommand(q).state = q.state
           /\ [run |-> NoCommand(q), from |-> from, loops |-> B] \in LoopSet(B)
           /\ LoopOK([run |-> NoCommand(q), from |-> from, loops |-> B])
           /\ [NoCommand(q) EXCEPT !.jumps = J] \in Runs
           /\ [run |-> [NoCommand(q) EXCEPT !.jumps = J], from |-> from, loops |-> B] \in LoopSet(B)
           /\ LoopOK([run |-> [NoCommand(q) EXCEPT !.jumps = J], from |-> from, loops |-> B])
<1>1. PICK e \in Seq(Nat) : e = <<>>
  BY EmptySeq
<1>2. PICK y : y = NoCommand(q)
  OBVIOUS
<1>3. y = [q EXCEPT !.doc = None, !.doLoaded = FALSE, !.allDone = FALSE, !.navLoaded = FALSE,
                    !.way = e, !.did = e, !.known = TRUE]
  BY <1>1, <1>2 DEF NoCommand
<1>4. /\ y \in Runs /\ ~y.navLoaded /\ ~y.doLoaded /\ y.way = e /\ y.did = e
      /\ y.state = q.state
  BY <1>3 DEF Runs
<1>5. PICK z : z = [y EXCEPT !.jumps = J]
  OBVIOUS
<1>6. z \in Runs /\ ~z.navLoaded /\ ~z.doLoaded /\ z.way = e /\ z.did = e
  BY <1>4, <1>5 DEF Runs
<1>7. Len(e) = 0
  BY <1>1
<1>8. WayOK(cmds, y) /\ WayOK(cmds, z)
  BY <1>1, <1>4, <1>6, <1>7, SMT DEF WayOK
<1>9. ASSUME NEW g, g \in {y, z}
      PROVE  /\ [run |-> g, from |-> from, loops |-> B] \in LoopSet(B)
             /\ LoopOK([run |-> g, from |-> from, loops |-> B])
  <2>1. g \in Runs /\ ~g.navLoaded /\ ~g.doLoaded /\ g.way = <<>> /\ WayOK(cmds, g)
    BY <1>1, <1>4, <1>6, <1>8, <1>9
  <2>2. 1 .. Len(g.way) = {}
    BY <2>1, SMT
  <2>3. FromOK(cmds, g, from)
    BY <2>1, <2>2 DEF FromOK
  <2> QED BY <2>1, <2>3, SMT DEF LoopSet, LoopOK
<1> QED BY <1>2, <1>4, <1>5, <1>6, <1>9

\* advance_current_nav_cmd(), with no nav command loaded.
LEMMA NavAdvanceOK ==
    ASSUME total \in Nat, NEW p, RunOK(cmds, p), ~p.navLoaded, NEW i \in Nat,
           NEW a, a = advance_current_nav_cmd(p, i)
    PROVE  /\ RunOK(cmds, a.run) /\ a.ok \in BOOLEAN
           /\ a.ok => /\ a.run.allDone <=> ~a.run.doLoaded
                      /\ a.run.doLoaded <=> a.run.way # <<>>
<1>1. PICK f : /\ \A x \in LoopSet(MaxSearch) :
                     f[x] = IF GoesOn({"do", "refused"}, x) THEN f[GoOn(x)] ELSE NavOut(x)
               /\ f = CHOOSE h : h = [x \in LoopSet(MaxSearch) |-> NavTurn(x, h)]
  BY NavLoops
<1>2. PICK from : from = IF i > 0 THEN i ELSE IF p.nav = None THEN 1 ELSE p.nav + 1
  OBVIOUS
<1>3. p \in Runs /\ from \in Nat /\ from >= 1
  BY <1>2, SMT DEF RunOK, Runs, None
<1>4. PICK x : x = [run |-> NoCommand(p), from |-> from, loops |-> MaxSearch]
  OBVIOUS
<1>5. x \in LoopSet(MaxSearch) /\ LoopOK(x)
  <2>1. MaxSearch \in Nat /\ p.jumps \in Seq(Slot)
    BY <1>3, MissionAssumption DEF Runs
  <2> QED BY <1>3, <1>4, <2>1, NoCommandOK
<1>6. PICK z : z = f[x]
  OBVIOUS
<1>7. NavOK(z)
  <2>1. \A y \in LoopSet(MaxSearch) :
           f[y] = IF GoesOn({"do", "refused"}, y) THEN f[GoOn(y)] ELSE NavOut(y)
    BY <1>1
  <2> QED BY <1>5, <1>6, <2>1, NavLoopOK
<1>8. a = IF p.state # "running" \/ p.navLoaded THEN [ok |-> FALSE, run |-> p]
          ELSE IF z.ok THEN [z EXCEPT !.run.allDone = ~z.run.doLoaded] ELSE z
  <2>1. f = CHOOSE h : h = [y \in LoopSet(MaxSearch) |-> NavTurn(y, h)]
    BY <1>1
  <2>2. FindNav(NoCommand(p), from) = z
    BY <1>4, <1>6, <2>1 DEF FindNav, LoopSet, NavTurn
  <2> QED BY <1>2, <2>2 DEF advance_current_nav_cmd
<1>9. CASE p.state # "running"
  BY <1>8, <1>9, SMT
<1>10. CASE p.state = "running" /\ ~z.ok
  BY <1>7, <1>8, <1>10 DEF NavOK
<1>11. CASE p.state = "running" /\ z.ok
  <2>1. PICK y : y = z.run
    OBVIOUS
  <2>2. z = [ok |-> TRUE, run |-> y] /\ RunOK(cmds, y) /\ (y.doLoaded <=> y.way # <<>>)
    BY <1>7, <1>11, <2>1 DEF NavOK
  <2>3. PICK b \in BOOLEAN : b = ~y.doLoaded
    OBVIOUS
  <2>4. PICK g : g = [y EXCEPT !.allDone = b]
    OBVIOUS
  <2>5. /\ g \in Runs /\ g.way = y.way /\ g.did = y.did /\ g.doc = y.doc /\ g.nav = y.nav
        /\ g.doLoaded = y.doLoaded /\ g.known = y.known /\ g.navLoaded = y.navLoaded
        /\ g.allDone = b
    BY <2>2, <2>4 DEF Runs, RunOK
  <2>6. RunOK(cmds, g)
    BY <2>2, <2>5, SameWay DEF RunOK
  <2>7. a = [z EXCEPT !.run.allDone = b]
    BY <1>8, <1>11, <2>1, <2>3
  <2>8. a.run = g /\ a.ok = TRUE
    BY <2>2, <2>4, <2>7
  <2> QED BY <2>2, <2>3, <2>5, <2>6, <2>8
<1> QED BY <1>7, <1>9, <1>10, <1>11 DEF NavOK

\* set_current_cmd() of a mission that does not run.
LEMMA PreloadOK ==
    ASSUME total \in Nat, NEW q \in Runs, NEW J \in Seq(Slot), NEW i \in Nat, i >= 1
    PROVE  PreOK(Preload([NoCommand(q) EXCEPT !.jumps = J], i))
<1>1. PICK f : /\ \A x \in LoopSet(HangAfter) :
                     f[x] = IF GoesOn({"do"}, x) THEN f[GoOn(x)] ELSE PreOut(x)
               /\ f = CHOOSE h : h = [x \in LoopSet(HangAfter) |-> PreTurn(x, h)]
  BY PreLoops
<1>2. PICK p : p = [NoCommand(q) EXCEPT !.jumps = J]
  OBVIOUS
<1>3. PICK x : x = [run |-> p, from |-> i, loops |-> HangAfter]
  OBVIOUS
<1>4. x \in LoopSet(HangAfter) /\ LoopOK(x)
  <2>1. HangAfter \in Nat
    BY MissionAssumption
  <2> QED BY <1>2, <1>3, <2>1, NoCommandOK
<1>5. PreOK(f[x])
  <2>1. \A y \in LoopSet(HangAfter) :
           f[y] = IF GoesOn({"do"}, y) THEN f[GoOn(y)] ELSE PreOut(y)
    BY <1>1
  <2> QED BY <1>4, <2>1, PreLoopOK
<1>6. Preload(p, i) = f[x]
  BY <1>1, <1>3 DEF Preload, LoopSet, PreTurn
<1> QED BY <1>2, <1>5, <1>6

\* The invariant: with the nav command loaded and no do command on the way to it, there is
\* none to look for.
MInv(C, q) ==
    /\ RunOK(C, q)
    /\ q.known /\ q.state = "running" /\ q.navLoaded /\ q.way = <<>> => q.allDone

\* Changes of the state, or of navLoaded, leave the way as it is.
LEMMA CompleteOK ==
    ASSUME NEW C, NEW q, RunOK(C, q)
    PROVE  /\ MInv(C, complete(q))
           /\ RunOK(C, [q EXCEPT !.navLoaded = FALSE])
           /\ \A s \in {"running", "stopped", "complete", "hung"} :
                 RunOK(C, [q EXCEPT !.state = s])
<1>1. PICK g : g = [q EXCEPT !.navLoaded = FALSE]
  OBVIOUS
<1>2. /\ g \in Runs /\ g.way = q.way /\ g.did = q.did /\ g.doc = q.doc /\ g.nav = q.nav
      /\ g.doLoaded = q.doLoaded /\ g.known = q.known /\ ~g.navLoaded
  BY <1>1 DEF Runs, RunOK
<1>3. RunOK(C, g)
  BY <1>2, SameWay DEF RunOK
<1>4. ASSUME NEW s \in {"running", "stopped", "complete", "hung"}, NEW y,
             y = [q EXCEPT !.state = s]
      PROVE  RunOK(C, y) /\ y.state = s
  <2>1. /\ y \in Runs /\ y.way = q.way /\ y.did = q.did /\ y.doc = q.doc /\ y.nav = q.nav
        /\ y.doLoaded = q.doLoaded /\ y.known = q.known /\ y.navLoaded = q.navLoaded
        /\ y.state = s
    BY <1>4 DEF Runs, RunOK
  <2> QED BY <2>1, SameWay DEF RunOK
<1>5. MInv(C, complete(q))
  BY <1>4 DEF MInv, complete
<1> QED BY <1>1, <1>3, <1>4, <1>5

\* What the callers of advance_current_nav_cmd() end with.
LEMMA OrCompleteOK ==
    ASSUME total \in Nat, NEW p, RunOK(cmds, p), ~p.navLoaded, NEW i \in Nat
    PROVE  MInv(cmds, OrComplete(advance_current_nav_cmd(p, i)))
<1>1. PICK a : a = advance_current_nav_cmd(p, i)
  OBVIOUS
<1> QED BY <1>1, NavAdvanceOK, CompleteOK DEF OrComplete, MInv

\* The do command behind the last that was started, while the way is known, is the next
\* on the way.
LEMMA NextDo ==
    ASSUME total \in Nat, NEW p \in Runs, WayOK(cmds, p), p.navLoaded, p.way # <<>>,
           NEW s, SearchedOK(FALSE, Start(p.doc + 1, p.jumps), s), s.found, Cmd(s.at).kind = "do"
    PROVE  Len(p.did) + 1 <= Len(p.way) /\ s.at = p.way[Len(p.did) + 1]
<1>1. PICK n \in Nat : n = Len(p.did)
  BY LenProperties DEF Runs
<1>2. PICK k \in Nat : k = Len(p.way)
  BY LenProperties DEF Runs
<1>3. n >= 1 /\ n <= k /\ p.doc = p.way[n]
  BY <1>1, <1>2, SMT DEF WayOK
<1>4. ASSUME NEW b, StepsTo(cmds, p.doc, b) PROVE s.at = b
  <2>1. PICK j : Leads(cmds, MaxJumps, p.doc + 1, j) /\ (j = b \/ cmds[j + 1].kind # "do")
    BY <1>4 DEF StepsTo
  <2>2. s.at = j
    BY <2>1 DEF SearchedOK, Start
  <2> QED BY <2>1, <2>2 DEF Cmd
<1>5. CASE n = k
  <2>1. StepsTo(cmds, p.doc, None)
    BY <1>2, <1>3, <1>5 DEF WayOK
  <2>2. s.at = None /\ s.at \in Nat
    BY <1>4, <2>1 DEF SearchedOK
  <2> QED BY <2>2, SMT DEF None
<1>6. CASE n # k
  <2>1. n \in 1 .. k - 1
    BY <1>3, <1>6, SMT
  <2>2. StepsTo(cmds, p.way[n], p.way[n + 1])
    BY <1>2, <2>1 DEF WayOK
  <2>3. s.at = p.way[n + 1]
    BY <1>3, <1>4, <2>2
  <2> QED BY <1>1, <1>2, <2>1, <2>3, SMT
<1> QED BY <1>5, <1>6

\* advance_current_do_cmd().
LEMMA DoAdvanceOK ==
    ASSUME total \in Nat, NEW p, MInv(cmds, p), p.allDone \/ (p.state = "running" /\ p.navLoaded)
    PROVE  MInv(cmds, advance_current_do_cmd(p))
<1>1. p \in Runs /\ RunOK(cmds, p)
  BY DEF MInv, RunOK
<1>2. PICK from : from = IF p.doc = None THEN 1 ELSE p.doc + 1
  OBVIOUS
<1>3. PICK g : g = get_next_cmd(from, p.jumps, FALSE)
  OBVIOUS
<1>4. SearchedOK(FALSE, Start(from, p.jumps), g)
  <2>1. from \in Nat /\ p.jumps \in Seq(Slot)
    BY <1>1, <1>2, SMT DEF Runs, None
  <2> QED BY <1>3, <2>1, SearchFound
<1>5. PICK J \in Seq(Slot) : J = g.jumps
  BY <1>4 DEF SearchedOK
<1>6. PICK i \in Nat : i = g.at
  BY <1>4 DEF SearchedOK
<1>7. PICK b \in BOOLEAN : b = (g.found /\ Cmd(i).kind = "do")
  OBVIOUS
<1>8. get_next_do_cmd(from, p.jumps) = [g EXCEPT !.found = b]
  BY <1>3, <1>4, <1>6, <1>7 DEF get_next_do_cmd, SearchedOK
<1>9. PICK s : s = [g EXCEPT !.found = b]
  OBVIOUS
<1>10. s.found = b /\ s.at = i /\ s.jumps = J
  <2>1. g = [found |-> g.found, at |-> i, jumps |-> J, known |-> g.known]
    BY <1>4, <1>5, <1>6 DEF SearchedOK
  <2> QED BY <1>9, <2>1, SMT
<1>11. PICK q : q = [p EXCEPT !.jumps = J]
  OBVIOUS
<1>12. /\ q \in Runs /\ q.way = p.way /\ q.did = p.did /\ q.doc = p.doc /\ q.nav = p.nav
       /\ q.doLoaded = p.doLoaded /\ q.known = p.known /\ q.navLoaded = p.navLoaded
  BY <1>1, <1>11 DEF Runs
<1>13. PICK e \in Seq(Nat) : e = IF p.known THEN Append(q.did, i) ELSE <<>>
  BY <1>12, AppendProperties, EmptySeq DEF Runs
<1>14. advance_current_do_cmd(p) =
         IF p.allDone THEN p
         ELSE IF ~b THEN [q EXCEPT !.allDone = TRUE]
         ELSE [q EXCEPT !.doc = i, !.doLoaded = TRUE, !.did = e]
  BY <1>2, <1>8, <1>9, <1>10, <1>11, <1>13 DEF advance_current_do_cmd
<1>15. CASE p.allDone
  BY <1>14, <1>15
<1>16. CASE ~p.allDone /\ ~b
  <2>1. PICK y : y = [q EXCEPT !.allDone = TRUE]
    OBVIOUS
  <2>2. /\ y \in Runs /\ y.way = p.way /\ y.did = p.did /\ y.doc = p.doc /\ y.nav = p.nav
        /\ y.doLoaded = p.doLoaded /\ y.known = p.known /\ y.navLoaded = p.navLoaded
        /\ y.allDone = TRUE
    BY <1>12, <2>1 DEF Runs
  <2>3. RunOK(cmds, y)
    BY <1>1, <2>2, SameWay DEF RunOK
  <2> QED BY <1>14, <1>16, <2>1, <2>2, <2>3 DEF MInv
<1>17. CASE ~p.allDone /\ b
  <2>1. PICK y : y = [q EXCEPT !.doc = i, !.doLoaded = TRUE, !.did = e]
    OBVIOUS
  <2>2. /\ y \in Runs /\ y.way = p.way /\ y.did = e /\ y.doc = i /\ y.nav = p.nav
        /\ y.doLoaded = TRUE /\ y.known = p.known /\ y.navLoaded = p.navLoaded
    <3>1. y \in Runs
      BY <1>12, <1>13, <2>1, ZenonT(30) DEF Runs
    <3>2. /\ y.way = q.way /\ y.did = e /\ y.doc = i /\ y.nav = q.nav
          /\ y.doLoaded = TRUE /\ y.known = q.known /\ y.navLoaded = q.navLoaded
      BY <1>12, <2>1, ZenonT(30) DEF Runs
    <3> QED BY <1>12, <3>1, <3>2
  <2>3. ASSUME y.known PROVE WayOK(cmds, y) /\ y.way # <<>>
    <3>1. p.known /\ WayOK(cmds, p) /\ p.navLoaded /\ p.way # <<>>
      BY <1>1, <1>17, <2>2, <2>3 DEF RunOK, MInv
    <3>2. PICK n \in Nat : n = Len(p.did) /\ p.did \in Seq(Nat)
      BY <1>1, LenProperties DEF Runs
    <3>3. PICK k \in Nat : k = Len(p.way)
      BY <1>1, LenProperties DEF Runs
    <3>4. n >= 1 /\ n <= k /\ p.doc = p.way[n] /\ \A m \in 1 .. n : p.did[m] = p.way[m]
      BY <3>1, <3>2, <3>3, SMT DEF WayOK
    <3>5. p.way[n] \in 1 .. Len(cmds) - 1
      BY <3>1, <3>3, <3>4, SMT DEF WayOK
    <3>6. from = p.doc + 1
      BY <1>2, <3>4, <3>5, SMT DEF None, total
    <3>7. n + 1 <= k /\ i = p.way[n + 1]
      BY <1>1, <1>4, <1>6, <1>7, <1>17, <3>1, <3>2, <3>3, <3>6, NextDo
    <3>8. e = Append(p.did, i)
      BY <1>12, <1>13, <3>1
    <3>9. Len(e) = n + 1 /\ e[n + 1] = i /\ \A m \in 1 .. n : e[m] = p.did[m]
      BY <3>2, <3>8, AppendProperties, SMT
    <3>10. \A m \in 1 .. Len(e) : e[m] = p.way[m]
      BY <3>4, <3>7, <3>9, SMT
    <3> QED BY <2>2, <3>1, <3>3, <3>7, <3>9, <3>10, SMT DEF WayOK
  <2>4. MInv(cmds, y)
    BY <1>1, <2>2, <2>3 DEF MInv, RunOK
  <2> QED BY <1>14, <1>17, <2>1, <2>4
<1> QED BY <1>7, <1>15, <1>16, <1>17

\* A do command that has ended.
LEMMA DoEndedOK ==
    ASSUME NEW C, NEW p, MInv(C, p), p.doLoaded, NEW b \in BOOLEAN
    PROVE  MInv(C, [p EXCEPT !.doLoaded = b])
<1>1. PICK y : y = [p EXCEPT !.doLoaded = b]
  OBVIOUS
<1>2. /\ y \in Runs /\ y.way = p.way /\ y.did = p.did /\ y.doc = p.doc /\ y.nav = p.nav
      /\ y.state = p.state /\ y.known = p.known /\ y.navLoaded = p.navLoaded
      /\ y.allDone = p.allDone
  BY <1>1 DEF Runs, RunOK, MInv
<1>3. RunOK(C, y)
  BY <1>2, SameWay DEF RunOK, MInv
<1> QED BY <1>1, <1>2, <1>3 DEF MInv

\* update().
LEMMA UpdatedOK ==
    ASSUME total \in Nat, NEW p, MInv(cmds, p), p.state = "running",
           NEW navDone \in BOOLEAN, NEW doDone \in BOOLEAN
    PROVE  MInv(cmds, Updated(p, navDone, doDone))
<1> DEFINE A == IF ~p.navLoaded \/ p.nav = None THEN advance_current_nav_cmd(p, 0)
                ELSE IF navDone THEN advance_current_nav_cmd([p EXCEPT !.navLoaded = FALSE], 0)
                ELSE [ok |-> TRUE, run |-> p]
<1>1. PICK a : a = A
  OBVIOUS
<1>2. RunOK(cmds, p) /\ (p.nav = None => ~p.navLoaded)
  BY SMT DEF MInv, RunOK, None
<1>3. /\ a.ok \in BOOLEAN /\ RunOK(cmds, a.run)
      /\ a.ok => /\ MInv(cmds, a.run)
                 /\ \/ a.run.doLoaded \/ a.run.allDone
                    \/ a.run.state = "running" /\ a.run.navLoaded
  <2>1. CASE ~p.navLoaded
    <3>1. a = advance_current_nav_cmd(p, 0)
      BY <1>1, <2>1
    <3> QED BY <1>2, <2>1, <3>1, NavAdvanceOK DEF MInv
  <2>2. CASE p.navLoaded /\ navDone
    <3>1. PICK q : q = [p EXCEPT !.navLoaded = FALSE]
      OBVIOUS
    <3>2. RunOK(cmds, q) /\ ~q.navLoaded
      BY <1>2, <3>1, CompleteOK DEF RunOK, Runs
    <3>3. a = advance_current_nav_cmd(q, 0)
      BY <1>1, <1>2, <2>2, <3>1
    <3> QED BY <3>2, <3>3, NavAdvanceOK DEF MInv
  <2>3. CASE p.navLoaded /\ ~navDone
    <3>1. a = [ok |-> TRUE, run |-> p]
      BY <1>1, <1>2, <2>3
    <3> QED BY <1>2, <2>3, <3>1
  <2> QED BY <2>1, <2>2, <2>3
<1>4. Updated(p, navDone, doDone) =
         IF ~a.ok THEN complete(a.run)
         ELSE IF a.run.doLoaded THEN [a.run EXCEPT !.doLoaded = ~doDone]
         ELSE advance_current_do_cmd(a.run)
  BY <1>1 DEF Updated
<1>5. CASE ~a.ok
  BY <1>3, <1>4, <1>5, CompleteOK
<1>6. CASE a.ok /\ a.run.doLoaded
  <2>1. PICK b \in BOOLEAN : b = ~doDone
    OBVIOUS
  <2>2. PICK y : y = a.run
    OBVIOUS
  <2>3. MInv(cmds, y) /\ y.doLoaded /\ Updated(p, navDone, doDone) = [y EXCEPT !.doLoaded = b]
    BY <1>3, <1>4, <1>6, <2>1, <2>2
  <2> QED BY <2>3, DoEndedOK, SMT
<1>7. CASE a.ok /\ ~a.run.doLoaded
  BY <1>3, <1>4, <1>7, DoAdvanceOK
<1> QED BY <1>3, <1>5, <1>6, <1>7

\* set_current_cmd(), unless it refuses.
LEMMA SetCurrentOK ==
    ASSUME total \in Nat, NEW p, RunOK(cmds, p), NEW i \in Nat, i < total, total # 1
    PROVE  MInv(cmds, set_current_cmd(p, i))
<1>1. PICK J \in Seq(Slot) : J = IF i = 0 \/ p.state = "complete" THEN <<>> ELSE NoCommand(p).jumps
  <2>1. p \in Runs
    BY DEF RunOK
  <2>2. NoCommand(p).jumps = p.jumps
    BY <2>1 DEF NoCommand, Runs
  <2> QED BY <2>1, <2>2, EmptySeq DEF Runs
<1>2. PICK from \in Nat : from = (IF i = 0 THEN 1 ELSE i) /\ from >= 1
  BY SMT
<1>3. PICK q : q = [NoCommand(p) EXCEPT !.jumps = J]
  OBVIOUS
<1>4. q \in Runs /\ LoopOK([run |-> q, from |-> from, loops |-> 1])
  BY <1>2, <1>3, NoCommandOK DEF RunOK
<1>5. RunOK(cmds, q) /\ ~q.navLoaded
  BY <1>4 DEF LoopOK, RunOK
<1>6. set_current_cmd(p, i) = IF p.state = "running"
                              THEN OrComplete(advance_current_nav_cmd(q, from))
                              ELSE Preload(q, from)
  BY <1>1, <1>2, <1>3, SMT DEF set_current_cmd
<1>7. MInv(cmds, OrComplete(advance_current_nav_cmd(q, from)))
  BY <1>5, OrCompleteOK
<1>8. MInv(cmds, Preload(q, from))
  <2>1. PreOK(Preload(q, from))
    BY <1>2, <1>3, PreloadOK DEF RunOK
  <2> QED BY <2>1 DEF PreOK, MInv
<1> QED BY <1>6, <1>7, <1>8

\* Idle, and start().
LEMMA StartOK ==
    ASSUME total \in Nat
    PROVE  MInv(cmds, Idle) /\ MInv(cmds, start)
<1>1. PICK e : e = <<>> /\ e \in Seq(Nat) /\ e \in Seq(Slot) /\ Len(e) = 0
  BY EmptySeq
<1>2. PICK y : y = [state |-> "stopped", nav |-> None, navLoaded |-> FALSE,
                    doc |-> None, doLoaded |-> FALSE, allDone |-> FALSE, jumps |-> e,
                    way |-> e, did |-> e, known |-> TRUE]
  OBVIOUS
<1>3. Idle = y
  BY <1>1, <1>2 DEF Idle
<1>4. y \in Runs /\ ~y.navLoaded
  BY <1>1, <1>2 DEF Runs
<1>5. RunOK(cmds, y) /\ MInv(cmds, y)
  BY <1>1, <1>2, <1>4, SMT DEF RunOK, WayOK, MInv
<1>6. PICK q : q = [y EXCEPT !.state = "running"]
  OBVIOUS
<1>7. RunOK(cmds, q) /\ ~q.navLoaded
  BY <1>4, <1>5, <1>6, CompleteOK DEF Runs
<1> QED BY <1>3, <1>5, <1>6, <1>7, OrCompleteOK DEF start

\* resume().
LEMMA ResumeOK ==
    ASSUME total \in Nat, NEW p, MInv(cmds, p)
    PROVE  MInv(cmds, resume(p))
<1>1. PICK q : q = [p EXCEPT !.state = "running"]
  OBVIOUS
<1>2. p \in Runs /\ RunOK(cmds, p) /\ RunOK(cmds, q)
  BY <1>1, CompleteOK DEF MInv, RunOK
<1>3. q.navLoaded = p.navLoaded /\ q.known = p.known
  BY <1>1, <1>2 DEF Runs
<1>4. CASE p.state = "complete" \/ p.nav \notin 0 .. total - 1
  BY <1>4, StartOK DEF resume
<1>5. CASE ~(p.state = "complete" \/ p.nav \notin 0 .. total - 1) /\ ~(p.doLoaded \/ p.navLoaded)
  <2>1. resume(p) = q
    BY <1>1, <1>5 DEF resume
  <2> QED BY <1>2, <1>3, <1>5, <2>1 DEF MInv
<1>6. CASE ~(p.state = "complete" \/ p.nav \notin 0 .. total - 1) /\ (p.doLoaded \/ p.navLoaded)
  <2>1. PICK i : i = Active(p)
    OBVIOUS
  <2>2. i \in Nat
    BY <1>2, <1>6, <2>1, SMT DEF Active, Runs, None
  <2>3. resume(p) = set_current_cmd(q, i)
    BY <1>1, <1>6, <2>1 DEF resume
  <2>4. CASE i < total /\ total # 1
    BY <1>2, <2>2, <2>3, <2>4, SetCurrentOK
  <2>5. CASE ~(i < total /\ total # 1)
    <3>1. resume(p) = q
      BY <2>2, <2>3, <2>5, SMT DEF set_current_cmd
    <3>2. ASSUME q.known, q.navLoaded PROVE FALSE
      <4>1. WayOK(cmds, p) /\ p.nav >= 1 /\ p.nav \in 0 .. total - 1
        BY <1>2, <1>3, <1>6, <3>2 DEF RunOK
      <4>2. CASE p.doLoaded /\ p.doc # None
        <5>1. PICK n \in Nat : n = Len(p.did) /\ n <= Len(p.way) /\ Len(p.way) \in Nat
          BY <1>2, <4>1, LenProperties DEF Runs, WayOK
        <5>2. n >= 1 /\ p.doc = p.way[n]
          BY <4>1, <4>2, <5>1, SMT DEF WayOK
        <5>3. p.doc \in 1 .. total - 1
          BY <4>1, <5>1, <5>2, SMT DEF WayOK, total
        <5> QED BY <2>1, <2>5, <4>1, <4>2, <5>3, SMT DEF Active
      <4>3. CASE ~(p.doLoaded /\ p.doc # None)
        BY <2>1, <2>5, <4>1, <4>3, SMT DEF Active
      <4> QED BY <4>2, <4>3
    <3> QED BY <1>2, <3>1, <3>2 DEF MInv
  <2> QED BY <2>4, <2>5
<1> QED BY <1>4, <1>5, <1>6

\* The nav command e is ahead: the search comes to it with turns left.
Ahead(x, e) ==
    \E i, n \in Nat : Leads(cmds, MaxJumps, x.from, i) /\ Comes(cmds, n, i, e) /\ n + 2 <= x.loops

\* A turn of the loop of advance_current_nav_cmd() then ends with it, or has it ahead.
LEMMA AheadStep ==
    ASSUME total \in Nat, NEW B \in Nat, NEW x \in LoopSet(B),
           NEW e \in Nat, Cmd(e).kind = "nav", Ahead(x, e)
    PROVE  /\ GoesOn({"do", "refused"}, x) =>
                 Ahead(GoOn(x), e) /\ GoOn(x).run.state = x.run.state
           /\ ~GoesOn({"do", "refused"}, x) =>
                 NavOut(x).ok = TRUE /\ NavOut(x).run.nav = e /\ NavOut(x).run.state = x.run.state
<1>1. PICK i \in Nat, n \in Nat :
         Leads(cmds, MaxJumps, x.from, i) /\ Comes(cmds, n, i, e) /\ n + 2 <= x.loops
  BY DEF Ahead
<1>2. x.loops \in Nat /\ x.loops # 0 /\ x.loops # 1 /\ x.run \in Runs
  <2>1. x.loops \in 0 .. B /\ x.run \in Runs
    BY DEF LoopSet
  <2> QED BY <1>1, <2>1, SMT
<1>3. NavFound(x).found /\ NavFound(x).at = i
  <2>1. SearchedOK(TRUE, Start(x.from, x.run.jumps), NavFound(x))
    BY PassedFacts
  <2>2. /\ Start(x.from, x.run.jumps).at = x.from /\ Start(x.from, x.run.jumps).loops = MaxJumps
        /\ MaxJumps <= MaxJumps
    BY MissionAssumption, SMT DEF Start
  <2> QED BY <1>1, <2>1, <2>2 DEF SearchedOK
<1>4. PICK q \in Runs : q = Passed(x)
  BY PassedFacts
<1>5. q.state = x.run.state
  BY <1>2, <1>4, PassedFacts DEF Runs
<1>6. CASE i = e
  <2>1. ~GoesOn({"do", "refused"}, x)
    BY <1>3, <1>6 DEF GoesOn
  <2>2. NavOut(x) = [ok |-> TRUE, run |-> [q EXCEPT !.nav = e, !.navLoaded = TRUE]]
    BY <1>2, <1>3, <1>4, <1>6 DEF NavOut
  <2>3. PICK z : z = [q EXCEPT !.nav = e, !.navLoaded = TRUE]
    OBVIOUS
  <2>4. z.nav = e /\ z.state = q.state
    BY <2>3 DEF Runs
  <2>5. NavOut(x).ok = TRUE /\ NavOut(x).run = z
    BY <2>2, <2>3, SMT
  <2> QED BY <1>5, <2>1, <2>4, <2>5
<1>7. CASE i # e
  <2>1. PICK j \in Nat : n - 1 \in Nat /\ Link(cmds, i, j) /\ Comes(cmds, n - 1, j, e)
    BY <1>1, <1>7, ComesFacts
  <2>2. GoesOn({"do", "refused"}, x)
    BY <1>2, <1>3, <2>1 DEF GoesOn, Link, Cmd
  <2>3. PICK y : y = GoOn(x)
    OBVIOUS
  <2>4. y.from = i + 1 /\ y.loops = x.loops - 1
    BY <1>3, <2>3 DEF GoOn
  <2>5. (n - 1) + 2 <= y.loops
    BY <1>1, <1>2, <2>4, SMT
  <2>6. Ahead(y, e)
    BY <2>1, <2>4, <2>5 DEF Ahead, Link
  <2>7. y.run.state = q.state
    <3>1. y.run = SetDo(q, i) \/ y.run = [q EXCEPT !.nav = i]
      BY <1>3, <1>4, <2>3 DEF GoOn
    <3> QED BY <3>1 DEF SetDo, Runs
  <2> QED BY <1>5, <2>2, <2>3, <2>6, <2>7
<1> QED BY <1>6, <1>7

\* So does the loop.
LEMMA AheadIsFound ==
    ASSUME total \in Nat, NEW f, NEW x \in LoopSet(MaxSearch),
           NEW e \in Nat, Cmd(e).kind = "nav", Ahead(x, e),
           \A z \in LoopSet(MaxSearch) :
              f[z] = IF GoesOn({"do", "refused"}, z) THEN f[GoOn(z)] ELSE NavOut(z)
    PROVE  f[x].ok = TRUE /\ f[x].run.nav = e /\ f[x].run.state = x.run.state
<1> DEFINE D == LoopSet(MaxSearch)
           Z == {z \in D : ~GoesOn({"do", "refused"}, z)}
           nxt == [z \in D |-> GoOn(z)]
           m == [z \in D |-> z.loops]
           Ends(z) == f[z].ok = TRUE /\ f[z].run.nav = e /\ f[z].run.state = z.run.state
           P == {z \in D : Ahead(z, e) => Ends(z)}
<1>0. MaxSearch \in Nat
  BY MissionAssumption
<1>1. CountsDown(D, Z, nxt, m)
  BY <1>0, NavCountsDown
<1>2. ASSUME NEW z \in D, z \in Z PROVE z \in P
  <2>1. f[z] = NavOut(z) /\ ~GoesOn({"do", "refused"}, z)
    BY <1>2
  <2>2. ASSUME Ahead(z, e) PROVE Ends(z)
    <3>1. /\ NavOut(z).ok = TRUE /\ NavOut(z).run.nav = e
          /\ NavOut(z).run.state = z.run.state
      BY <1>0, <1>2, <2>1, <2>2, AheadStep
    <3> QED BY <2>1, <3>1
  <2> HIDE DEF Ends
  <2> QED BY <1>2, <2>2
<1>3. ASSUME NEW z \in D, z \notin Z, nxt[z] \in P PROVE z \in P
  <2>1. f[z] = f[GoOn(z)] /\ GoOn(z) \in P /\ GoesOn({"do", "refused"}, z)
    BY <1>3
  <2>2. ASSUME Ahead(z, e) PROVE Ahead(GoOn(z), e) /\ GoOn(z).run.state = z.run.state
    BY <1>0, <1>3, <2>1, <2>2, AheadStep
  <2> QED BY <1>3, <2>1, <2>2
<1>4. D \subseteq P
  <2> HIDE DEF D, Z, nxt, m, P
  <2> QED BY <1>1, <1>2, <1>3, LoopInduction, SMT
<1> QED BY <1>4

\* resume() starts again from a command that comes to the nav command that was flown.
LEMMA ActiveReaches ==
    ASSUME total \in Nat, NEW p \in Runs, WayOK(cmds, p), p.navLoaded, p.nav >= 1,
           Cmd(p.nav).kind = "nav"
    PROVE  /\ p.nav \in 1 .. total - 1 /\ Active(p) \in 1 .. total - 1
           /\ Reach(cmds, Active(p), p.nav) /\ Leads(cmds, MaxJumps, Active(p), Active(p))
<1>1. p.nav \in 1 .. total - 1 /\ p.nav \in Nat
  BY SMT DEF WayOK, Runs, None, total
<1>2. PICK i : i = Active(p)
  OBVIOUS
<1>3. i \in 1 .. total - 1 /\ Reach(cmds, i, p.nav)
  <2>1. CASE p.doLoaded /\ p.doc # None
    <3>1. PICK n \in Nat : n = Len(p.did) /\ n <= Len(p.way) /\ Len(p.way) \in Nat
      BY LenProperties DEF Runs, WayOK
    <3>2. n >= 1 /\ p.doc = p.way[n]
      BY <2>1, <3>1, SMT DEF WayOK
    <3>3. n \in 1 .. Len(p.way)
      BY <3>1, <3>2, SMT
    <3> QED BY <1>2, <2>1, <3>2, <3>3 DEF WayOK, total, Active
  <2>2. CASE ~(p.doLoaded /\ p.doc # None)
    BY <1>1, <1>2, <2>2, Reaches DEF Active
  <2> QED BY <2>1, <2>2
<1>4. i \in Nat /\ i < Len(cmds) /\ MaxJumps \in Nat
  BY <1>3, MissionAssumption, SMT DEF total
<1>5. Cmd(i).kind # "jump"
  <2>1. PICK n \in Nat : Comes(cmds, n, i, p.nav)
    BY <1>3 DEF Reach
  <2>2. i = p.nav \/ cmds[i + 1].kind \in {"do", "refused"}
    BY <1>1, <1>4, <2>1, ComesFacts DEF Link
  <2> QED BY <2>2 DEF Cmd
<1> QED BY <1>1, <1>2, <1>3, <1>4, <1>5, LeadsFacts DEF Cmd

\* advance_current_nav_cmd() from there ends with that nav command.
LEMMA AdvanceFinds ==
    ASSUME total \in Nat, NEW p \in Runs, p.state = "running", ~p.navLoaded,
           NEW i \in Nat, i >= 1, NEW e \in Nat, Cmd(e).kind = "nav",
           Ahead([run |-> NoCommand(p), from |-> i, loops |-> MaxSearch], e),
           NEW q, q = OrComplete(advance_current_nav_cmd(p, i))
    PROVE  q.nav = e /\ q.state = "running"
<1>1. PICK f : /\ \A x \in LoopSet(MaxSearch) :
                     f[x] = IF GoesOn({"do", "refused"}, x) THEN f[GoOn(x)] ELSE NavOut(x)
               /\ f = CHOOSE h : h = [x \in LoopSet(MaxSearch) |-> NavTurn(x, h)]
  BY NavLoops
<1>2. PICK x : x = [run |-> NoCommand(p), from |-> i, loops |-> MaxSearch]
  OBVIOUS
<1>3. x \in LoopSet(MaxSearch) /\ LoopOK(x) /\ Ahead(x, e) /\ x.run.state = "running"
  <2>1. MaxSearch \in Nat /\ p.jumps \in Seq(Slot)
    BY MissionAssumption DEF Runs
  <2>2. NoCommand(p).state = "running"
    BY <2>1, NoCommandOK
  <2> QED BY <1>2, <2>1, <2>2, NoCommandOK
<1>4. PICK z : z = f[x]
  OBVIOUS
<1>5. \A y \in LoopSet(MaxSearch) :
         f[y] = IF GoesOn({"do", "refused"}, y) THEN f[GoOn(y)] ELSE NavOut(y)
  BY <1>1
<1>6. NavOK(z)
  BY <1>3, <1>4, <1>5, NavLoopOK
<1>7. z.ok = TRUE /\ z.run.nav = e /\ z.run.state = "running"
  BY <1>3, <1>4, <1>5, AheadIsFound
<1>8. PICK y \in Runs : y = z.run /\ z = [ok |-> TRUE, run |-> y]
  BY <1>6, <1>7 DEF NavOK, RunOK
<1>9. PICK b \in BOOLEAN : b = ~y.doLoaded
  OBVIOUS
<1>10. advance_current_nav_cmd(p, i) = [z EXCEPT !.run.allDone = b]
  <2>1. f = CHOOSE h : h = [x_1 \in LoopSet(MaxSearch) |-> NavTurn(x_1, h)]
    BY <1>1
  <2>2. FindNav(NoCommand(p), i) = z
    BY <1>2, <1>4, <2>1 DEF FindNav, LoopSet, NavTurn
  <2>3. i > 0
    BY SMT
  <2> QED BY <1>7, <1>8, <1>9, <2>2, <2>3 DEF advance_current_nav_cmd
<1>11. PICK g : g = [y EXCEPT !.allDone = b]
  OBVIOUS
<1>12. g.nav = e /\ g.state = "running"
  BY <1>7, <1>8, <1>11 DEF Runs
<1>13. PICK a : a = advance_current_nav_cmd(p, i)
  OBVIOUS
<1>14. a.ok = TRUE /\ a.run = g
  <2>1. a = [z EXCEPT !.run.allDone = b] /\ z = [ok |-> TRUE, run |-> y]
    BY <1>8, <1>10, <1>13
  <2> QED BY <1>11, <2>1, SMT
<1>15. OrComplete(a) = g
  BY <1>14, SMT DEF OrComplete
<1> QED BY <1>12, <1>13, <1>15

\* So resume() ends with it, too.
LEMMA ResumeFinds ==
    ASSUME total \in Nat, total <= MaxSearch, NEW p, RunOK(cmds, p), p.known, p.navLoaded,
           p.state # "complete", Cmd(p.nav).kind = "nav"
    PROVE  resume(p).nav = p.nav /\ resume(p).state = "running"
<1>1. p \in Runs /\ WayOK(cmds, p) /\ p.nav >= 1
  BY DEF RunOK
<1>2. PICK i : i = Active(p)
  OBVIOUS
<1>3. /\ p.nav \in 1 .. total - 1 /\ i \in 1 .. total - 1
      /\ Reach(cmds, i, p.nav) /\ Leads(cmds, MaxJumps, i, i)
  BY <1>1, <1>2, ActiveReaches
<1>4. /\ p.nav \in Nat /\ p.nav < Len(cmds) /\ i \in Nat /\ i >= 1 /\ ~(i >= total) /\ i # 0
      /\ total # 1 /\ p.nav \in 0 .. total - 1 /\ Len(cmds) \in Nat
  <2>1. \A m \in 1 .. total - 1 :
           /\ m \in Nat /\ m < total /\ m >= 1 /\ ~(m >= total) /\ m # 0 /\ total # 1
           /\ m \in 0 .. total - 1
    BY SMT
  <2> QED BY <1>3, <2>1 DEF total
<1>5. PICK n \in Nat : n < Len(cmds) - 1 /\ Comes(cmds, n, i, p.nav)
  BY <1>3, <1>4, ShortWay
<1>6. n + 2 <= MaxSearch /\ MaxSearch \in Nat
  <2>1. MaxSearch \in Nat
    BY MissionAssumption
  <2> QED BY <1>4, <1>5, <2>1, SMT DEF total
<1>7. PICK q : q = [p EXCEPT !.state = "running"]
  OBVIOUS
<1>8. q \in Runs /\ q.state = "running" /\ q.jumps \in Seq(Slot)
  BY <1>1, <1>7 DEF Runs
<1>9. PICK J \in Seq(Slot) : J = NoCommand(q).jumps
  BY <1>8 DEF NoCommand, Runs
<1>10. PICK r : r = [NoCommand(q) EXCEPT !.jumps = J]
  OBVIOUS
<1>11. r \in Runs /\ r.state = "running" /\ ~r.navLoaded
  <2>1. NoCommand(q) \in Runs /\ NoCommand(q).state = "running" /\ ~NoCommand(q).navLoaded
    BY <1>4, <1>6, <1>8, NoCommandOK
  <2> QED BY <1>10, <2>1 DEF Runs
<1>12. set_current_cmd(q, i) = OrComplete(advance_current_nav_cmd(r, i))
  BY <1>4, <1>8, <1>9, <1>10 DEF set_current_cmd
<1>13. resume(p) = set_current_cmd(q, i)
  BY <1>2, <1>4, <1>7 DEF resume
<1>14. Ahead([run |-> NoCommand(r), from |-> i, loops |-> MaxSearch], p.nav)
  BY <1>3, <1>4, <1>5, <1>6 DEF Ahead
<1>15. PICK v : v = resume(p) /\ v = OrComplete(advance_current_nav_cmd(r, i))
  BY <1>12, <1>13
<1>16. PICK e \in Nat : e = p.nav
  BY <1>4
<1>17. Cmd(e).kind = "nav" /\ Ahead([run |-> NoCommand(r), from |-> i, loops |-> MaxSearch], e)
  BY <1>14, <1>16
<1>18. v.nav = e /\ v.state = "running"
  BY <1>4, <1>11, <1>15, <1>17, AdvanceFinds, SMT
<1> QED BY <1>15, <1>16, <1>18

\* The inductive invariant of the mission.
MissionInv == cmds \in Seq(Commands \cup {Home}) /\ MInv(cmds, run)

\* Orders that change the mission.
LEMMA ChangedOK ==
    ASSUME MissionInv, NEW C
    PROVE  /\ MInv(C, [run EXCEPT !.known = FALSE])
           /\ MInv(C, [run EXCEPT !.nav = None, !.doc = None, !.navLoaded = FALSE,
                                  !.doLoaded = FALSE, !.state = "stopped", !.known = FALSE])
<1>1. run \in Runs /\ (run.navLoaded => run.nav >= 1)
  BY DEF MissionInv, MInv, RunOK
<1>2. PICK y : y = [run EXCEPT !.known = FALSE]
  OBVIOUS
<1>3. y \in Runs /\ ~y.known /\ y.navLoaded = run.navLoaded /\ y.nav = run.nav
  BY <1>1, <1>2 DEF Runs
<1>4. PICK z : z = [run EXCEPT !.nav = None, !.doc = None, !.navLoaded = FALSE,
                               !.doLoaded = FALSE, !.state = "stopped", !.known = FALSE]
  OBVIOUS
<1>5. z \in Runs /\ ~z.known /\ ~z.navLoaded
  BY <1>1, <1>4 DEF Runs
<1> QED BY <1>1, <1>2, <1>3, <1>4, <1>5 DEF MInv, RunOK

\* They keep the invariant.
LEMMA EditedOK ==
    ASSUME MissionInv, truncate \/ add_cmd \/ replace_cmd \/ clear_mission
    PROVE  MissionInv'
<1> DEFINE S == Commands \cup {Home}
<1>1. cmds \in Seq(S) /\ total \in Nat /\ Home \in S /\ Commands \subseteq S
  BY LenProperties DEF MissionInv, total
<1>2. CASE truncate
  <2>1. PICK n \in 0 .. total - 1 : cmds' = SubSeq(cmds, 1, n)
    BY <1>2 DEF truncate
  <2>2. cmds' \in Seq(S)
    <3> HIDE DEF S
    <3> QED BY <1>1, <2>1, SubSeqProperties, SMT DEF total
  <2>3. MInv(cmds', run')
    BY <1>2, ChangedOK DEF truncate, Changed
  <2> QED BY <2>2, <2>3 DEF MissionInv
<1>3. CASE add_cmd
  <2>1. PICK c \in Commands : cmds' = (IF total = 0 THEN <<Home>> ELSE cmds) \o <<c>>
    BY <1>3 DEF add_cmd
  <2>2. cmds' \in Seq(S)
    <3>1. PICK g \in Seq(S) : g = IF total = 0 THEN <<Home>> ELSE cmds
      <4>1. PICK h : h = Home /\ h \in S
        BY <1>1
      <4> HIDE DEF S
      <4>2. <<h>> \in Seq(S)
        BY <4>1, SMT
      <4> QED BY <1>1, <4>1, <4>2
    <3>2. c \in S
      BY <1>1
    <3> HIDE DEF S
    <3> QED BY <2>1, <3>1, <3>2, SMT
  <2>3. MInv(cmds', run')
    BY <1>3, ChangedOK DEF add_cmd, Changed
  <2> QED BY <2>2, <2>3 DEF MissionInv
<1>4. CASE replace_cmd
  <2>1. PICK k \in 2 .. total, c \in Commands : cmds' = [cmds EXCEPT ![k] = c]
    BY <1>4 DEF replace_cmd
  <2>2. cmds' \in Seq(S)
    <3>1. c \in S
      BY <1>1
    <3> HIDE DEF S
    <3>2. k \in 1 .. Len(cmds)
      BY <1>1, SMT DEF total
    <3> QED BY <1>1, <2>1, <3>1, <3>2, ExceptSeq
  <2>3. MInv(cmds', run')
    BY <1>4, ChangedOK DEF replace_cmd, Changed
  <2> QED BY <2>2, <2>3 DEF MissionInv
<1>5. CASE clear_mission
  <2>1. cmds' \in Seq(S)
    BY <1>5, EmptySeq DEF clear_mission
  <2>2. MInv(cmds', run')
    BY <1>5, ChangedOK DEF clear_mission
  <2> QED BY <2>1, <2>2 DEF MissionInv
<1> QED BY <1>2, <1>3, <1>4, <1>5

\* It is inductive.
LEMMA MissionStep == MissionInv /\ [MissionNext]_missionVars => MissionInv'
<1> SUFFICES ASSUME MissionInv, [MissionNext]_missionVars PROVE MissionInv'
  OBVIOUS
<1>1. total \in Nat /\ MInv(cmds, run) /\ RunOK(cmds, run) /\ cmds \in Seq(Commands \cup {Home})
  BY LenProperties DEF MissionInv, MInv, total
<1>2. ASSUME UNCHANGED cmds, MInv(cmds, run') PROVE MissionInv'
  BY <1>1, <1>2 DEF MissionInv
<1>3. ASSUME NEW navDone \in BOOLEAN, NEW doDone \in BOOLEAN, update_mission(navDone, doDone)
      PROVE  MissionInv'
  <2>1. UNCHANGED cmds /\ run' = IF run.state = "running" /\ total # 0
                                 THEN Updated(run, navDone, doDone) ELSE run
    BY <1>3 DEF update_mission
  <2> QED BY <1>1, <1>2, <2>1, UpdatedOK
<1>4. CASE Resume
  BY <1>1, <1>2, <1>4, ResumeOK DEF Resume
<1>5. CASE Control
  <2>1. UNCHANGED cmds
    BY <1>5 DEF Control
  <2>2. CASE run' = start
    BY <1>1, <1>2, <2>1, <2>2, StartOK
  <2>3. CASE run' = [run EXCEPT !.state = "stopped"]
    <3>1. RunOK(cmds, run') /\ run'.state = "stopped"
      BY <1>1, <2>3, CompleteOK DEF RunOK, Runs
    <3> QED BY <1>2, <2>1, <3>1 DEF MInv
  <2>4. ASSUME NEW i \in 0 .. total, run' = set_current_cmd(run, i) PROVE MissionInv'
    <3>1. CASE i < total /\ total # 1
      BY <1>1, <1>2, <2>1, <2>4, <3>1, SetCurrentOK, SMT
    <3>2. CASE ~(i < total /\ total # 1)
      <4>1. run' = run
        BY <1>1, <2>4, <3>2, SMT DEF set_current_cmd
      <4> QED BY <1>1, <1>2, <2>1, <4>1
    <3> QED BY <3>1, <3>2
  <2> QED BY <1>5, <2>2, <2>3, <2>4 DEF Control
<1>6. CASE Reboot
  BY <1>1, <1>2, <1>6, StartOK DEF Reboot
<1>7. CASE UNCHANGED missionVars
  BY <1>1, <1>2, <1>7 DEF missionVars
<1> QED BY <1>3, <1>4, <1>5, <1>6, <1>7, EditedOK DEF MissionNext

\* It holds at the start.
LEMMA MissionStarts == MissionInit => MissionInv
<1> SUFFICES ASSUME MissionInit PROVE MissionInv
  OBVIOUS
<1> DEFINE S == Commands \cup {Home}
<1>1. PICK g \in Missions : cmds = <<Home>> \o g
  BY DEF MissionInit
<1>2. g \in Seq(Commands) /\ Home \in S /\ Commands \subseteq S
  BY <1>1, MissionAssumption
<1>3. g \in Seq(S)
  <2> HIDE DEF S
  <2> QED BY <1>2, SMT
<1>4. cmds \in Seq(S)
  <2> HIDE DEF S
  <2> QED BY <1>1, <1>2, <1>3, SMT
<1>5. MInv(cmds, run)
  BY <1>4, StartOK, LenProperties DEF MissionInit, total
<1> QED BY <1>4, <1>5 DEF MissionInv

\* While the way is known, the commands that were started are the first on it.
LEMMA StartedAreFirst == MissionInv => DoInOrder
<1> SUFFICES ASSUME MissionInv, run.known
             PROVE  \E n \in 0 .. Len(run.way) : run.did = SubSeq(run.way, 1, n)
  BY DEF DoInOrder
<1>1. PICK g \in Seq(Nat) : g = run.way
  BY DEF MissionInv, MInv, RunOK, Runs
<1>2. PICK d \in Seq(Nat) : d = run.did
  BY DEF MissionInv, MInv, RunOK, Runs
<1>3. Len(d) <= Len(g) /\ \A k \in 1 .. Len(d) : d[k] = g[k]
  BY <1>1, <1>2 DEF MissionInv, MInv, RunOK, WayOK
<1>4. PICK z : z = SubSeq(g, 1, Len(d))
  OBVIOUS
<1>5. /\ z \in Seq(Nat) /\ Len(z) = Len(d) /\ \A k \in 1 .. Len(d) : z[k] = g[k]
      /\ Len(d) \in 0 .. Len(g)
  BY <1>1, <1>2, <1>3, <1>4, SubSeqProperties, LenProperties, SMTT(20)
<1>6. d = z
  <2>1. Len(d) = Len(z) /\ \A k \in 1 .. Len(d) : d[k] = z[k]
    BY <1>3, <1>5
  <2> QED BY <1>5, <2>1, SeqEqual
<1> QED BY <1>1, <1>2, <1>4, <1>5, <1>6

\* The do commands that were started are the first of those that the search for the nav
\* command has passed, in this order and each once, as long as no jump with a limit was
\* passed and the mission in storage is the same.
THEOREM DoAlwaysInOrder == MissionSpec => []DoInOrder
BY MissionStarts, MissionStep, StartedAreFirst, PTL DEF MissionSpec

\* resume() goes on to the nav command that was flown, if the way to it is known (no jump
\* with a limit lies on it, and the mission is the same) and the mission has no more
\* commands than advance_current_nav_cmd() may pass: the search comes to it again from each
\* do command on the way.
THEOREM ResumeAlwaysKeepsTarget == MissionSpec => ResumeKeepsTarget
<1>1. ASSUME MissionInv, [MissionNext]_missionVars
      PROVE  [Resume /\ run.state # "complete" /\ run.known /\ run.navLoaded
                 /\ Cmd(run.nav).kind = "nav" /\ total <= MaxSearch
              => run'.nav = run.nav /\ run'.state = "running"]_missionVars
  <2>1. total \in Nat /\ RunOK(cmds, run)
    BY <1>1, LenProperties DEF MissionInv, MInv, total
  <2> QED BY <2>1, ResumeFinds DEF Resume
<1>2. MissionSpec => []MissionInv
  BY MissionStarts, MissionStep, PTL DEF MissionSpec
<1> QED BY <1>1, <1>2, PTL DEF MissionSpec, ResumeKeepsTarget
=============================================================================
