---------------------------- MODULE ParamProofs -----------------------------
(***************************************************************************)
(* Proofs about parameters in storage, for any parameters, values, sizes   *)
(* of the storage and of its lines, and any number of changes, erasures    *)
(* and power failures.                                                     *)
(*                                                                         *)
(* The invariant says what the list is made of, in storage and on the      *)
(* device, what a thread in save_sync() still relies on, and where the     *)
(* value of a parameter is that is not yet in storage.  It holds until two *)
(* threads have met in save_sync(), or a power failure has torn a variable *)
(* (harm): every step either keeps it or adds to what has come to harm.    *)
(***************************************************************************)
EXTENDS ParamStore, WellFoundedInduction, FiniteSetTheorems, TLAPS

\* A leaf is proved by Zenon unless it names SMT, which does the arithmetic.
USE Zenon

-----------------------------------------------------------------------------
(* What scan() comes to                                                    *)

\* Every nonempty set of natural numbers has a least element.
LEMMA Least ==
  ASSUME NEW T \in SUBSET Nat, T # {}
  PROVE  \E x \in T : \A y \in T : x <= y
<1> DEFINE R == {ss \in Nat \X Nat : ss[1] < ss[2]}
<1>1. IsWellFoundedOn(R, Nat)
  BY NatLessThanWellFounded DEF OpToRel
<1>2. \E x \in T : \A y \in T : ~ (<<y, x>> \in R)
  <2> HIDE DEF R
  <2> QED BY <1>1, WFMin
<1>3. PICK x \in T : \A y \in T : ~ (<<y, x>> \in R)
  BY <1>2
<1>4. ASSUME NEW y \in T PROVE x <= y
  <2>1. ~ (<<y, x>> \in R)
    BY <1>3
  <2>2. x \in Nat /\ y \in Nat
    OBVIOUS
  <2>3. ~ (y < x)
    BY <2>1, <2>2
  <2> QED BY <2>2, <2>3, SMT
<1> QED BY <1>4

\* Induction over a set: the library's induction theorems take an operator, this one
\* a set, which the provers can instantiate.
LEMMA NatSetInduction ==
  ASSUME NEW S, 0 \in S, \A n \in Nat : n \in S => n + 1 \in S
  PROVE  \A n \in Nat : n \in S
<1> SUFFICES ASSUME Nat \ S # {} PROVE FALSE
  OBVIOUS
<1>1. PICK x \in Nat \ S : \A y \in Nat \ S : x <= y
  BY Least
<1>2. x # 0 /\ x \in Nat
  OBVIOUS
<1>3. x - 1 \in Nat
  BY <1>2, SMT
<1>4. x - 1 \in S
  BY <1>1, <1>3, SMT
<1>5. (x - 1) + 1 \in S
  BY <1>3, <1>4
<1> QED BY <1>2, <1>5, SMT
-----------------------------------------------------------------------------
\* The sizes, and what can be in a cell.
LEMMA SizeFacts ==
    /\ Size \in Nat \ {0} /\ LineLen \in Nat \ {0}
    /\ \A p : type_size(p) \in {1, 2}
    /\ \A x : StepOver(x) \in {1, 2, 3}
    /\ \A p : StepOver(Header(p)) = 1 + type_size(p)
BY ParamAssumption, SMT DEF type_size, StepOver, Header

\* Where scan() stops.
Stops(m, o) == o >= Size \/ is_sentinel(m[o])

\* Where it can get.
Top == Size + 2
Places == 0 .. Top

\* The recursion of Walk(), from position k on.
WalkTurn(m, o, f) == IF Stops(m, o) THEN <<o>> ELSE <<o>> \o f[o + StepOver(m[o])]
IsWalk(m, k, f) == f = [o \in k .. Top |-> WalkTurn(m, o, f)]

\* The recursion of Walk() defines a function, whatever is in storage.
LEMMA WalkExists ==
    ASSUME NEW m
    PROVE  \E f : IsWalk(m, 0, f)
<1> DEFINE S == {j \in Nat : j <= Top => \E f : IsWalk(m, Top - j, f)}
<1>0. Top \in Nat /\ Size \in Nat /\ Top = Size + 2 BY SizeFacts, SMT DEF Top
<1>1. 0 \in S
  <2> DEFINE f == [o \in Top .. Top |-> <<o>>]
  <2>1. Stops(m, Top) BY <1>0, SMT DEF Stops
  <2>2. f = [o \in Top .. Top |-> WalkTurn(m, o, f)]
    <3>1. ASSUME NEW o \in Top .. Top PROVE WalkTurn(m, o, f) = <<o>>
      <4>1. o = Top BY <1>0, SMT
      <4> QED BY <2>1, <4>1 DEF WalkTurn
    <3> QED BY <3>1
  <2>3. IsWalk(m, Top - 0, f) BY <2>2, <1>0, SMT DEF IsWalk
  <2> QED BY <2>3
<1>2. ASSUME NEW j \in Nat, j \in S PROVE j + 1 \in S
  <2> SUFFICES ASSUME j + 1 <= Top PROVE \E f : IsWalk(m, Top - (j + 1), f)
    BY SMT
  <2>1. PICK f : IsWalk(m, Top - j, f)
    BY <1>0, <1>2, SMT
  <2> DEFINE k == Top - (j + 1)
  <2>2. k \in Nat /\ k + 1 = Top - j BY <1>0, SMT
  <2> HIDE DEF k
  <2> DEFINE g == [o \in k .. Top |-> IF o = k THEN WalkTurn(m, k, f) ELSE f[o]]
  <2>3. ASSUME NEW o \in k .. Top PROVE WalkTurn(m, o, g) = WalkTurn(m, o, f)
    <3>1. CASE Stops(m, o) BY <3>1 DEF WalkTurn
    <3>2. CASE ~Stops(m, o)
      <4>1. o < Size /\ o \in Nat BY <3>2, <2>2, <1>0, SMT DEF Stops
      <4>2. PICK z \in Int : z = o + StepOver(m[o]) BY <4>1, SizeFacts, SMT
      <4>3. z \in k .. Top /\ z # k BY <4>1, <4>2, <2>2, <1>0, SizeFacts, SMT
      <4>4. g[z] = f[z] BY <4>3
      <4> HIDE DEF g
      <4>5. WalkTurn(m, o, g) = <<o>> \o g[z] BY <4>2, <3>2 DEF WalkTurn
      <4>6. WalkTurn(m, o, f) = <<o>> \o f[z] BY <4>2, <3>2 DEF WalkTurn
      <4> QED BY <4>4, <4>5, <4>6
    <3> QED BY <3>1, <3>2
  <2>4. ASSUME NEW o \in k .. Top PROVE g[o] = WalkTurn(m, o, g)
    <3>1. CASE o = k BY <3>1, <2>3
    <3>2. CASE o # k
      <4>1. o \in Top - j .. Top BY <3>2, <2>2, <1>0, SMT
      <4>2. f[o] = WalkTurn(m, o, f) BY <4>1, <2>1 DEF IsWalk
      <4>3. g[o] = f[o] BY <3>2
      <4> QED BY <4>2, <4>3, <2>3
    <3> QED BY <3>1, <3>2
  <2>5. g = [o \in k .. Top |-> WalkTurn(m, o, g)]
    <3>1. g = [o \in k .. Top |-> g[o]] OBVIOUS
    <3> HIDE DEF g
    <3> QED BY <3>1, <2>4
  <2>6. IsWalk(m, k, g) BY <2>5 DEF IsWalk
  <2> QED BY <2>6 DEF k
<1> HIDE DEF S
<1>3. \A j \in Nat : j \in S BY <1>1, <1>2, NatSetInduction
<1>4. Top \in S /\ Top - Top = 0 /\ Top <= Top BY <1>0, <1>3, SMT
<1> QED BY <1>4 DEF S

\* Walk() is what that function returns at the start of storage.
LEMMA WalkIs ==
    ASSUME NEW m
    PROVE  \E f : IsWalk(m, 0, f) /\ Walk(m) = f[0]
<1> DEFINE f == CHOOSE f : f = [o \in 0 .. Size + 2 |->
                IF o >= Size \/ is_sentinel(m[o]) THEN <<o>>
                ELSE <<o>> \o f[o + StepOver(m[o])]]
           g == CHOOSE g : IsWalk(m, 0, g)
<1>1. Walk(m) = f[0] BY DEF Walk
<1>2. f = g BY DEF IsWalk, WalkTurn, Stops, Top
<1>3. IsWalk(m, 0, g) BY WalkExists
<1> QED BY <1>1, <1>2, <1>3

\* A walk from position o: each position but the last is stepped over.
IsPath(m, o, w) ==
    /\ w \in Seq(Places) /\ Len(w) >= 1 /\ w[1] = o
    /\ \A i \in 1 .. Len(w) - 1 : ~Stops(m, w[i]) /\ w[i + 1] = w[i] + StepOver(m[w[i]])
    /\ Stops(m, w[Len(w)])

\* A path, with one more position in front.
LEMMA PathCons ==
    ASSUME NEW m, NEW o \in Places, ~Stops(m, o), NEW w,
           IsPath(m, o + StepOver(m[o]), w)
    PROVE  IsPath(m, o, <<o>> \o w)
<1>1. w \in Seq(Places) /\ Len(w) \in Nat \ {0} /\ w[1] = o + StepOver(m[o])
      /\ Stops(m, w[Len(w)])
  BY SMT DEF IsPath
<1>2. PICK x : x = <<o>> \o w OBVIOUS
<1>3. x \in Seq(Places) /\ Len(x) = Len(w) + 1 /\ x[1] = o
      /\ \A i \in 1 .. Len(w) : x[i + 1] = w[i]
  BY <1>1, <1>2, SMT
<1>4. ASSUME NEW i \in 1 .. Len(x) - 1
      PROVE  ~Stops(m, x[i]) /\ x[i + 1] = x[i] + StepOver(m[x[i]])
  <2>1. CASE i = 1 BY <2>1, <1>1, <1>3, SMT
  <2>2. CASE i # 1
    <3>1. PICK j \in 1 .. Len(w) - 1 : i = j + 1 BY <2>2, <1>1, <1>3, SMT
    <3>2. x[i] = w[j] /\ x[i + 1] = w[j + 1] BY <3>1, <1>1, <1>3, SMT
    <3> QED BY <3>1, <3>2 DEF IsPath
  <2> QED BY <2>1, <2>2
<1>5. x[Len(x)] = w[Len(w)] BY <1>1, <1>3, SMT
<1> QED BY <1>1, <1>2, <1>3, <1>4, <1>5, SMT DEF IsPath

\* The positions of Walk() are a path from the start.
LEMMA WalkPath ==
    ASSUME NEW m
    PROVE  IsPath(m, 0, Walk(m))
<1>0. Top \in Nat /\ Size \in Nat /\ Top = Size + 2 BY SizeFacts, SMT DEF Top
<1>1. PICK f : IsWalk(m, 0, f) /\ Walk(m) = f[0] BY WalkIs
<1> DEFINE S == {j \in Nat : \A o \in Places : o >= Top - j => IsPath(m, o, f[o])}
<1>2. \A o \in Places : f[o] = WalkTurn(m, o, f) BY <1>1 DEF IsWalk, Places
<1>3. ASSUME NEW o \in Places, Stops(m, o) PROVE IsPath(m, o, f[o])
  <2>1. f[o] = <<o>> BY <1>2, <1>3 DEF WalkTurn
  <2>2. <<o>> \in Seq(Places) /\ Len(<<o>>) = 1 /\ <<o>>[1] = o BY SMT
  <2> QED BY <2>1, <2>2, <1>3, SMT DEF IsPath
<1>4. 0 \in S
  <2> SUFFICES ASSUME NEW o \in Places, o >= Top - 0 PROVE IsPath(m, o, f[o]) OBVIOUS
  <2>1. Stops(m, o) BY <1>0, SMT DEF Stops, Places
  <2> QED BY <2>1, <1>3
<1>5. ASSUME NEW j \in Nat, j \in S PROVE j + 1 \in S
  <2> SUFFICES ASSUME NEW o \in Places, o >= Top - (j + 1), ~Stops(m, o)
               PROVE  IsPath(m, o, f[o])
    BY <1>3, SMT
  <2>1. o < Size /\ o \in Nat BY <1>0, SMT DEF Stops, Places
  <2>2. PICK z \in Nat : z = o + StepOver(m[o]) BY <2>1, SizeFacts, SMT
  <2>3. z \in Places /\ z >= Top - j BY <1>0, <2>1, <2>2, SizeFacts, SMT DEF Places
  <2>4. IsPath(m, z, f[z]) BY <2>3, <1>5
  <2>5. f[o] = <<o>> \o f[z] BY <1>2, <2>2 DEF WalkTurn
  <2> QED BY <2>2, <2>4, <2>5, PathCons
<1> HIDE DEF S
<1>6. \A j \in Nat : j \in S BY <1>4, <1>5, NatSetInduction
<1>7. Top \in S /\ 0 \in Places /\ 0 >= Top - Top BY <1>0, <1>6, SMT DEF Places
<1>8. IsPath(m, 0, f[0]) BY <1>7 DEF S
<1> QED BY <1>1, <1>8

\* The positions of a walk.
LEMMA PathTypes ==
    ASSUME NEW m, NEW w, IsPath(m, 0, w)
    PROVE  /\ w \in Seq(Places) /\ Len(w) \in Nat \ {0}
           /\ \A i \in 1 .. Len(w) : w[i] \in Places /\ w[i] \in Nat
<1>1. w \in Seq(Places) /\ Len(w) \in Nat \ {0} BY SMT DEF IsPath
<1>2. \A i \in 1 .. Len(w) : w[i] \in Places BY <1>1, SMT
<1>3. Places \subseteq Nat BY SizeFacts, SMT DEF Places, Top
<1> QED BY <1>1, <1>2, <1>3

\* A walk goes up, from each position to the next one.
LEMMA PathRises ==
    ASSUME NEW m, NEW w, IsPath(m, 0, w)
    PROVE  \A i, j \in 1 .. Len(w) : i < j => w[i] + StepOver(m[w[i]]) <= w[j]
<1>0. w \in Seq(Places) /\ Len(w) \in Nat \ {0} /\ \A i \in 1 .. Len(w) : w[i] \in Nat
  BY PathTypes
<1> DEFINE S == {k \in Nat : \A i \in 1 .. Len(w) :
                     i + 1 + k <= Len(w) => w[i] + StepOver(m[w[i]]) <= w[i + 1 + k]}
<1>1. 0 \in S
  <2> SUFFICES ASSUME NEW i \in 1 .. Len(w), i + 1 <= Len(w)
               PROVE  w[i] + StepOver(m[w[i]]) <= w[i + 1]
    BY <1>0, SMT
  <2>1. i \in 1 .. Len(w) - 1 /\ i + 1 \in 1 .. Len(w) BY <1>0, SMT
  <2>2. w[i + 1] = w[i] + StepOver(m[w[i]]) /\ w[i + 1] \in Nat BY <1>0, <2>1 DEF IsPath
  <2> QED BY <2>2, SMT
<1>2. ASSUME NEW k \in Nat, k \in S PROVE k + 1 \in S
  <2> SUFFICES ASSUME NEW i \in 1 .. Len(w), i + 1 + (k + 1) <= Len(w)
               PROVE  w[i] + StepOver(m[w[i]]) <= w[i + 1 + (k + 1)]
    BY SMT
  <2>1. PICK j \in 1 .. Len(w) - 1 : j = i + 1 + k BY <1>0, SMT
  <2>2. w[i] + StepOver(m[w[i]]) <= w[j] BY <2>1, <1>0, <1>2, SMT
  <2>3. w[j + 1] = w[j] + StepOver(m[w[j]]) BY <2>1 DEF IsPath
  <2>4. w[j] \in Nat /\ w[i] \in Nat BY <1>0, <2>1, SMT
  <2>5. i + 1 + (k + 1) = j + 1 BY <2>1, SMT
  <2> QED BY <2>2, <2>3, <2>4, <2>5, SizeFacts, SMT
<1> HIDE DEF S
<1>3. \A k \in Nat : k \in S BY <1>1, <1>2, NatSetInduction
<1>4. ASSUME NEW i \in 1 .. Len(w), NEW j \in 1 .. Len(w), i < j
      PROVE  w[i] + StepOver(m[w[i]]) <= w[j]
  <2>1. PICK k \in Nat : j = i + 1 + k BY <1>0, <1>4, SMT
  <2> QED BY <2>1, <1>3, <1>4, SMT DEF S
<1> QED BY <1>4

\* The positions that scan() comes to.
Reach(m) == {Walk(m)[i] : i \in 1 .. Len(Walk(m))}

\* What is next to a position that scan() steps over.
After(m, o) == o + StepOver(m[o])

\* scan() comes from each position to the next and stops at the last one, End().
LEMMA ReachFacts ==
    ASSUME NEW m
    PROVE  /\ Reach(m) \subseteq Places /\ 0 \in Reach(m)
           /\ End(m) \in Reach(m) /\ Stops(m, End(m))
           /\ \A o \in Reach(m) : ~Stops(m, o) => After(m, o) \in Reach(m)
           /\ \A o \in Reach(m) : o <= End(m) /\ (Stops(m, o) => o = End(m))
           /\ \A o, x \in Reach(m) : ~Stops(m, o) /\ o < x => After(m, o) <= x
<1>1. PICK w : w = Walk(m) OBVIOUS
<1>2. IsPath(m, 0, w) BY <1>1, WalkPath
<1>3. /\ w \in Seq(Places) /\ Len(w) \in Nat \ {0}
      /\ \A i \in 1 .. Len(w) : w[i] \in Places /\ w[i] \in Nat
  BY <1>2, PathTypes
<1>4. Reach(m) = {w[i] : i \in 1 .. Len(w)} BY <1>1 DEF Reach
<1>5. End(m) = w[Len(w)] BY <1>1 DEF End
<1>6. \A i, j \in 1 .. Len(w) : i < j => w[i] + StepOver(m[w[i]]) <= w[j] BY <1>2, PathRises
<1>7. \A i, j \in 1 .. Len(w) : i < j => w[i] < w[j] BY <1>3, <1>6, SizeFacts, SMT
<1>8. w[1] = 0 /\ Stops(m, w[Len(w)]) /\ 1 \in 1 .. Len(w) /\ Len(w) \in 1 .. Len(w)
  BY <1>2, <1>3, SMT DEF IsPath
<1>9. \A i \in 1 .. Len(w) - 1 : ~Stops(m, w[i]) /\ w[i + 1] = w[i] + StepOver(m[w[i]])
  BY <1>2 DEF IsPath
<1>10. Reach(m) \subseteq Places /\ 0 \in Reach(m) /\ End(m) \in Reach(m) /\ Stops(m, End(m))
  BY <1>3, <1>4, <1>5, <1>8
<1>11. ASSUME NEW o \in Reach(m), ~Stops(m, o) PROVE After(m, o) \in Reach(m)
  <2>1. PICK i \in 1 .. Len(w) : o = w[i] BY <1>4
  <2>2. i # Len(w) BY <2>1, <1>8, <1>11
  <2>3. i \in 1 .. Len(w) - 1 /\ i + 1 \in 1 .. Len(w) BY <2>2, <1>3, SMT
  <2>4. w[i + 1] = After(m, o) BY <2>1, <2>3, <1>9 DEF After
  <2> QED BY <2>3, <2>4, <1>4
<1>12. ASSUME NEW o \in Reach(m) PROVE o <= End(m) /\ (Stops(m, o) => o = End(m))
  <2>1. PICK i \in 1 .. Len(w) : o = w[i] BY <1>4
  <2>2. CASE i = Len(w) BY <2>1, <2>2, <1>5, <1>3, SMT
  <2>3. CASE i # Len(w)
    <3>1. i < Len(w) /\ i \in 1 .. Len(w) - 1 BY <2>3, <1>3, SMT
    <3>2. w[i] < w[Len(w)] BY <3>1, <1>7, <1>8
    <3>3. ~Stops(m, o) BY <3>1, <2>1, <1>9
    <3> QED BY <3>2, <3>3, <2>1, <1>5, <1>3, <1>8, SMT
  <2> QED BY <2>2, <2>3
<1>13. ASSUME NEW o \in Reach(m), NEW x \in Reach(m), ~Stops(m, o), o < x PROVE After(m, o) <= x
  <2>1. PICK i \in 1 .. Len(w) : o = w[i] BY <1>4
  <2>2. PICK j \in 1 .. Len(w) : x = w[j] BY <1>4
  <2>3. ~(j < i) /\ i # j BY <2>1, <2>2, <1>13, <1>7, <1>3, SMT
  <2>4. i < j BY <2>3, SMT
  <2> QED BY <2>1, <2>2, <2>4, <1>6 DEF After
<1> QED BY <1>10, <1>11, <1>12, <1>13

\* A set with the start of storage, and with each position's next one, has all of them.
LEMMA ReachLeast ==
    ASSUME NEW m, NEW T, 0 \in T,
           \A o \in Reach(m) : o \in T /\ ~Stops(m, o) => After(m, o) \in T
    PROVE  Reach(m) \subseteq T
<1>1. PICK w : w = Walk(m) OBVIOUS
<1>2. IsPath(m, 0, w) BY <1>1, WalkPath
<1>3. Len(w) \in Nat \ {0} BY <1>2, SMT DEF IsPath
<1>4. Reach(m) = {w[i] : i \in 1 .. Len(w)} BY <1>1 DEF Reach
<1> DEFINE S == {k \in Nat : k + 1 <= Len(w) => w[k + 1] \in T}
<1>5. 0 \in S BY <1>2, SMT DEF IsPath
<1>6. ASSUME NEW k \in Nat, k \in S PROVE k + 1 \in S
  <2> SUFFICES ASSUME (k + 1) + 1 <= Len(w) PROVE w[(k + 1) + 1] \in T BY SMT
  <2>1. PICK i \in 1 .. Len(w) - 1 : i = k + 1 BY <1>3, SMT
  <2>2. i \in 1 .. Len(w) /\ w[i] \in T BY <2>1, <1>3, <1>6, SMT
  <2>3. w[i] \in Reach(m) BY <2>2, <1>4
  <2>4. ~Stops(m, w[i]) /\ w[i + 1] = After(m, w[i]) BY <1>2 DEF IsPath, After
  <2> QED BY <2>1, <2>2, <2>3, <2>4
<1> HIDE DEF S
<1>7. \A k \in Nat : k \in S BY <1>5, <1>6, NatSetInduction
<1>8. ASSUME NEW i \in 1 .. Len(w) PROVE w[i] \in T
  <2>1. PICK k \in Nat : i = k + 1 BY <1>3, SMT
  <2> QED BY <2>1, <1>7, <1>3, SMT DEF S
<1> QED BY <1>4, <1>8

\* What can be in a cell.
LEMMA CellFacts ==
    /\ \A p : ~is_sentinel(Header(p)) /\ Header(p).kind = "header" /\ Header(p).p = p
    /\ \A p, q : Header(p) = Header(q) => p = q
    /\ \A p, q, v : Header(p) # Word(q, v)
    /\ \A p, q, v, u : Word(p, v) = Word(q, u) => p = q /\ v = u
    /\ \A p : Header(p) # Sentinel /\ Header(p) # Fill
    /\ \A p, v : Word(p, v) # Fill
    /\ is_sentinel(Sentinel) /\ is_sentinel(Fill)
BY DEF is_sentinel, Header, Word, Sentinel, Fill

\* The variables that scan() finds.
LEMMA FoundIs ==
    ASSUME NEW m, NEW p
    PROVE  Found(m, p) = {o \in Reach(m) : o < Size /\ m[o] = Header(p)}
<1>1. PICK w : w = Walk(m) OBVIOUS
<1>2. IsPath(m, 0, w) BY <1>1, WalkPath
<1>3. w \in Seq(Places) /\ Len(w) \in Nat \ {0} /\ \A i \in 1 .. Len(w) : w[i] \in Nat
  BY <1>2, PathTypes
<1>4. Reach(m) = {w[i] : i \in 1 .. Len(w)} BY <1>1 DEF Reach
<1>5. Found(m, p) = {o \in {w[i] : i \in 1 .. Len(w) - 1} : m[o] = Header(p)} BY <1>1 DEF Found
<1>6. ASSUME NEW i \in 1 .. Len(w) - 1 PROVE i \in 1 .. Len(w) /\ w[i] < Size
  <2>1. i \in 1 .. Len(w) BY <1>3, SMT
  <2>2. ~Stops(m, w[i]) BY <1>2 DEF IsPath
  <2> QED BY <2>1, <2>2, <1>3, SizeFacts, SMT DEF Stops
<1>7. ASSUME NEW i \in 1 .. Len(w), w[i] < Size, m[w[i]] = Header(p) PROVE i \in 1 .. Len(w) - 1
  <2>1. ~Stops(m, w[i]) BY <1>7, <1>3, CellFacts, SizeFacts, SMT DEF Stops
  <2>2. i # Len(w) BY <2>1, <1>2 DEF IsPath
  <2> QED BY <2>2, <1>3, SMT
<1> QED BY <1>4, <1>5, <1>6, <1>7

-----------------------------------------------------------------------------
(* Parameters: sound lists                                                 *)

\* The data of a variable at o is the value v.
Holds(m, o, p, v) == \A c \in o + 1 .. o + type_size(p) : c < Size /\ m[c] = Word(p, v)

\* The list is sound as far as it is in front of cell n: headers of different
\* parameters, room for the sentinel behind each, and data of one value.
SoundTo(m, n) ==
    /\ \A o \in Reach(m) :
          o < n /\ ~is_sentinel(m[o]) =>
              \E p \in Params :
                  /\ m[o] = Header(p) /\ o + type_size(p) + 1 < Size
                  /\ o + type_size(p) + 1 < n => \E v \in ParamValues : Holds(m, o, p, v)
    /\ \A o, x \in Reach(m) : o < n /\ x < n /\ ~is_sentinel(m[o]) /\ m[o] = m[x] => o = x

\* Positions are numbers.
LEMMA PlaceFacts == Places \subseteq Nat /\ \A m : Reach(m) \subseteq Nat
<1>1. Places \subseteq Nat BY SizeFacts, SMT DEF Places, Top
<1> QED BY <1>1, ReachFacts

\* Two memories that agree where scan() comes along have the same list.
LEMMA SameWalk ==
    ASSUME NEW m, NEW k, \A o \in Reach(m) : o < Size => k[o] = m[o]
    PROVE  Reach(k) = Reach(m) /\ End(k) = End(m) /\ \A p : Found(k, p) = Found(m, p)
<1>1. ASSUME NEW o \in Reach(m)
      PROVE  (Stops(k, o) <=> Stops(m, o)) /\ (~Stops(m, o) => After(k, o) = After(m, o))
  <2>1. o \in Nat /\ Size \in Nat BY PlaceFacts, SizeFacts
  <2>2. CASE o < Size BY <2>1, <2>2 DEF Stops, After
  <2>3. CASE o >= Size BY <2>1, <2>3 DEF Stops
  <2> QED BY <2>1, <2>2, <2>3, SMT
<1>2. Reach(k) \subseteq Reach(m)
  <2>1. 0 \in Reach(m) BY ReachFacts
  <2>2. \A o \in Reach(k) : o \in Reach(m) /\ ~Stops(k, o) => After(k, o) \in Reach(m)
    BY <1>1, ReachFacts
  <2> QED BY <2>1, <2>2, ReachLeast
<1>3. Reach(m) \subseteq Reach(k)
  <2>1. 0 \in Reach(k) BY ReachFacts
  <2>2. \A o \in Reach(m) : o \in Reach(k) /\ ~Stops(m, o) => After(m, o) \in Reach(k)
    BY <1>1, ReachFacts
  <2> QED BY <2>1, <2>2, ReachLeast
<1>4. Reach(k) = Reach(m) BY <1>2, <1>3
<1>5. End(k) = End(m)
  <2>1. End(m) \in Reach(m) /\ Stops(m, End(m)) BY ReachFacts
  <2>2. End(m) \in Reach(k) /\ Stops(k, End(m)) BY <2>1, <1>1, <1>4
  <2> QED BY <2>2, ReachFacts
<1>6. ASSUME NEW p PROVE Found(k, p) = Found(m, p) BY <1>4, FoundIs
<1> QED BY <1>4, <1>5, <1>6

\* Two memories that agree in front of cell n have the same list there.
LEMMA SamePrefix ==
    ASSUME NEW m, NEW k, NEW n \in 0 .. Size, \A c \in 0 .. n - 1 : k[c] = m[c]
    PROVE  \A o \in Reach(k) : o < n => o \in Reach(m)
<1>0. n \in Nat /\ Size \in Nat /\ n <= Size BY SizeFacts, SMT
<1> DEFINE T == {o \in Nat : o < n => o \in Reach(m)}
<1>1. 0 \in T BY ReachFacts
<1>2. ASSUME NEW o \in Reach(k), o \in T, ~Stops(k, o) PROVE After(k, o) \in T
  <2>1. o \in Nat /\ After(k, o) \in Nat /\ o < After(k, o)
    BY PlaceFacts, SizeFacts, SMT DEF After
  <2>2. CASE o < n
    <3>1. o \in Reach(m) /\ k[o] = m[o] BY <1>0, <1>2, <2>1, <2>2, SMT
    <3>2. ~Stops(m, o) /\ After(m, o) = After(k, o) BY <3>1, <1>2 DEF Stops, After
    <3>3. After(k, o) \in Reach(m) BY <3>1, <3>2, ReachFacts
    <3> QED BY <3>3, <2>1
  <2>3. CASE ~(o < n)
    <3>1. ~(After(k, o) < n) BY <2>1, <2>3, <1>0, SMT
    <3> QED BY <3>1, <2>1
  <2> QED BY <2>2, <2>3
<1> HIDE DEF T
<1>3. Reach(k) \subseteq T BY <1>1, <1>2, ReachLeast
<1> QED BY <1>3 DEF T

\* ... and it is sound in one if it is in the other.
LEMMA SoundPrefix ==
    ASSUME NEW m, NEW k, NEW n \in 0 .. Size, \A c \in 0 .. n - 1 : k[c] = m[c], SoundTo(m, n)
    PROVE  SoundTo(k, n)
<1>0. n \in Nat /\ Size \in Nat /\ n <= Size BY SizeFacts, SMT
<1>1. ASSUME NEW o \in Reach(k), o < n PROVE o \in Reach(m) /\ k[o] = m[o] /\ o \in Nat
  <2>1. o \in Nat BY PlaceFacts
  <2>2. o \in Reach(m) BY <1>1, SamePrefix
  <2> QED BY <2>1, <2>2, <1>0, <1>1, SMT
<1>2. ASSUME NEW o \in Reach(k), o < n, ~is_sentinel(k[o])
      PROVE  \E p \in Params :
                  /\ k[o] = Header(p) /\ o + type_size(p) + 1 < Size
                  /\ o + type_size(p) + 1 < n => \E v \in ParamValues : Holds(k, o, p, v)
  <2>1. o \in Reach(m) /\ k[o] = m[o] /\ o \in Nat BY <1>1, <1>2
  <2>2. PICK p \in Params :
                  /\ m[o] = Header(p) /\ o + type_size(p) + 1 < Size
                  /\ o + type_size(p) + 1 < n => \E v \in ParamValues : Holds(m, o, p, v)
    BY <2>1, <1>2 DEF SoundTo
  <2>3. ASSUME o + type_size(p) + 1 < n, NEW v \in ParamValues, Holds(m, o, p, v)
        PROVE  Holds(k, o, p, v)
    <3>1. \A c \in o + 1 .. o + type_size(p) : c \in 0 .. n - 1
      BY <2>1, <2>3, <1>0, SizeFacts, SMT
    <3> QED BY <3>1, <2>3 DEF Holds
  <2> QED BY <2>1, <2>2, <2>3
<1>3. ASSUME NEW o \in Reach(k), NEW x \in Reach(k), o < n, x < n, ~is_sentinel(k[o]), k[o] = k[x]
      PROVE  o = x
  BY <1>1, <1>3 DEF SoundTo
<1> QED BY <1>2, <1>3 DEF SoundTo

\* A list that begins with the sentinel is empty.
LEMMA EmptyList ==
    ASSUME NEW m, is_sentinel(m[0])
    PROVE  /\ Reach(m) = {0} /\ End(m) = 0 /\ \A p : Found(m, p) = {} /\ load(m, p) = 0
           /\ \A n : SoundTo(m, n)
<1>1. Stops(m, 0) BY DEF Stops
<1>2. Reach(m) \subseteq {0} BY <1>1, ReachLeast
<1>3. Reach(m) = {0} /\ End(m) = 0 BY <1>2, ReachFacts
<1>4. ASSUME NEW p PROVE Found(m, p) = {} BY <1>3, FoundIs, CellFacts, SMT
<1>5. ASSUME NEW p PROVE load(m, p) = 0 BY <1>4 DEF load
<1>6. ASSUME NEW n PROVE SoundTo(m, n) BY <1>3 DEF SoundTo
<1> QED BY <1>3, <1>4, <1>5, <1>6

\* A sound list: what is at each position, and that it ends inside storage.
LEMMA SoundFacts ==
    ASSUME NEW m, SoundTo(m, Size)
    PROVE  /\ Reach(m) \subseteq Cells /\ End(m) \in Cells /\ is_sentinel(m[End(m)])
           /\ \A o \in Reach(m) : ~is_sentinel(m[o]) =>
                 \E p \in Params :
                     /\ m[o] = Header(p) /\ After(m, o) = o + type_size(p) + 1
                     /\ After(m, o) \in Reach(m) /\ After(m, o) <= End(m)
                     /\ \E v \in ParamValues : Holds(m, o, p, v)
           /\ \A p : \A o \in Found(m, p) : Found(m, p) = {o}
<1>0. Size \in Nat \ {0} BY SizeFacts
<1>1. ASSUME NEW o \in Reach(m), o < Size, ~is_sentinel(m[o])
      PROVE  \E p \in Params :
                     /\ m[o] = Header(p) /\ After(m, o) = o + type_size(p) + 1
                     /\ After(m, o) \in Reach(m) /\ After(m, o) <= End(m) /\ After(m, o) \in Cells
                     /\ \E v \in ParamValues : Holds(m, o, p, v)
  <2>1. PICK p \in Params :
                  /\ m[o] = Header(p) /\ o + type_size(p) + 1 < Size
                  /\ o + type_size(p) + 1 < Size => \E v \in ParamValues : Holds(m, o, p, v)
    BY <1>1 DEF SoundTo
  <2>2. o \in Nat /\ After(m, o) = o + type_size(p) + 1
    BY <2>1, PlaceFacts, SizeFacts, SMT DEF After
  <2>3. ~Stops(m, o) BY <1>1, <2>2, <1>0, SMT DEF Stops
  <2>4. After(m, o) \in Reach(m) BY <2>3, ReachFacts
  <2>5. After(m, o) <= End(m) BY <2>4, ReachFacts
  <2>6. After(m, o) \in Cells BY <2>1, <2>2, <1>0, SizeFacts, SMT DEF Cells
  <2> QED BY <2>1, <2>2, <2>4, <2>5, <2>6
<1>2. Reach(m) \subseteq Cells
  <2>1. 0 \in Cells BY <1>0, SMT DEF Cells
  <2>2. \A o \in Reach(m) : o \in Cells /\ ~Stops(m, o) => After(m, o) \in Cells
    BY <1>1, <1>0, SMT DEF Cells, Stops
  <2> QED BY <2>1, <2>2, ReachLeast
<1>3. End(m) \in Cells /\ is_sentinel(m[End(m)])
  <2>1. End(m) \in Cells /\ Stops(m, End(m)) BY <1>2, ReachFacts
  <2> QED BY <2>1, <1>0, SMT DEF Stops, Cells
<1>4. \A o \in Reach(m) : o < Size BY <1>2, <1>0, SMT DEF Cells
<1>5. ASSUME NEW p, NEW o \in Found(m, p), NEW x \in Found(m, p) PROVE o = x
  <2>1. o \in Reach(m) /\ x \in Reach(m) /\ m[o] = Header(p) /\ m[x] = Header(p) BY FoundIs
  <2> QED BY <2>1, <1>4, CellFacts, SMT DEF SoundTo
<1>6. \A p : \A o \in Found(m, p) : Found(m, p) = {o} BY <1>5
<1> QED BY <1>1, <1>2, <1>3, <1>4, <1>6

\* read_block() of a variable whose words have one value.
LEMMA DataIs ==
    ASSUME NEW m, NEW o \in Nat, NEW p, NEW v \in ParamValues, Holds(m, o, p, v)
    PROVE  Data(m, o, p) = v
<1> DEFINE D == {IF c < Size THEN m[c] ELSE Fill : c \in o + 1 .. o + type_size(p)}
<1>1. o + 1 \in o + 1 .. o + type_size(p) BY SizeFacts, SMT
<1>2. D = {Word(p, v)} BY <1>1 DEF Holds
<1>3. \A u \in ParamValues : D = {Word(p, u)} => u = v BY <1>2, CellFacts
<1>4. Data(m, o, p) = IF \E u \in ParamValues : D = {Word(p, u)}
                      THEN CHOOSE u \in ParamValues : D = {Word(p, u)} ELSE Bad
  BY DEF Data
<1> HIDE DEF D
<1> QED BY <1>2, <1>3, <1>4

\* load() of a variable that is in the list.
LEMMA LoadIs ==
    ASSUME NEW m, SoundTo(m, Size), NEW p, NEW o \in Found(m, p)
    PROVE  load(m, p) = Data(m, o, p)
<1>1. Found(m, p) = {o} BY SoundFacts
<1>2. o \in Nat BY FoundIs, PlaceFacts
<1>3. First({o}) = o BY <1>2, SMT DEF First
<1> QED BY <1>1, <1>3 DEF load

\* load() returns a value of the parameter.
LEMMA LoadType ==
    ASSUME NEW m, SoundTo(m, Size), NEW p \in Params
    PROVE  load(m, p) \in ParamValues
<1>1. CASE Found(m, p) = {} BY <1>1, ParamAssumption DEF load
<1>2. CASE Found(m, p) # {}
  <2>1. PICK o \in Found(m, p) : TRUE BY <1>2
  <2>2. o \in Reach(m) /\ m[o] = Header(p) /\ o \in Nat BY FoundIs, PlaceFacts
  <2>3. PICK v \in ParamValues : Holds(m, o, p, v)
    <3>1. PICK q \in Params : m[o] = Header(q) /\ \E v \in ParamValues : Holds(m, o, q, v)
      BY <2>2, SoundFacts, CellFacts
    <3>2. q = p BY <3>1, <2>2, CellFacts
    <3> QED BY <3>1, <3>2
  <2> QED BY <2>1, <2>2, <2>3, DataIs, LoadIs, SMT
<1> QED BY <1>1, <1>2

\* What Readable says, of any memory.
LEMMA SoundIsSound ==
    ASSUME NEW m, SoundTo(m, Size)
    PROVE  LET w == Walk(m) IN
           /\ w[Len(w)] < Size
           /\ \A i \in 1 .. Len(w) - 1 :
                 /\ m[w[i]].kind = "header" /\ Data(m, w[i], m[w[i]].p) # Bad
                 /\ \A j \in 1 .. i - 1 : m[w[i]] # m[w[j]]
<1>1. PICK w : w = Walk(m) OBVIOUS
<1>2. IsPath(m, 0, w) BY <1>1, WalkPath
<1>3. Len(w) \in Nat \ {0} /\ \A i \in 1 .. Len(w) : w[i] \in Nat BY <1>2, PathTypes
<1>4. Reach(m) = {w[i] : i \in 1 .. Len(w)} /\ End(m) = w[Len(w)] BY <1>1 DEF Reach, End
<1>5. Size \in Nat BY SizeFacts
<1>6. w[Len(w)] < Size BY <1>4, <1>5, SoundFacts, SMT DEF Cells
<1>7. ASSUME NEW i \in 1 .. Len(w) - 1
      PROVE  /\ m[w[i]].kind = "header" /\ Data(m, w[i], m[w[i]].p) # Bad
             /\ \A j \in 1 .. i - 1 : m[w[i]] # m[w[j]]
  <2>1. i \in 1 .. Len(w) /\ w[i] \in Reach(m) /\ ~Stops(m, w[i])
    BY <1>2, <1>3, <1>4, SMT DEF IsPath
  <2>2. ~is_sentinel(m[w[i]]) BY <2>1 DEF Stops
  <2>3. PICK p \in Params : m[w[i]] = Header(p) /\ \E v \in ParamValues : Holds(m, w[i], p, v)
    BY <2>1, <2>2, SoundFacts
  <2>4. PICK v \in ParamValues : Holds(m, w[i], p, v) BY <2>3
  <2>5. m[w[i]].kind = "header" /\ m[w[i]].p = p BY <2>3, CellFacts
  <2>6. Data(m, w[i], p) = v BY <2>1, <2>4, <1>3, DataIs
  <2>7. Data(m, w[i], m[w[i]].p) # Bad BY <2>5, <2>6, ParamAssumption
  <2>8. ASSUME NEW j \in 1 .. i - 1 PROVE m[w[i]] # m[w[j]]
    <3>1. j \in 1 .. Len(w) /\ j < i BY <1>3, SMT
    <3>2. w[j] \in Reach(m) BY <3>1, <1>4
    <3>3. w[j] + StepOver(m[w[j]]) <= w[i] BY <3>1, <2>1, <1>2, PathRises
    <3>4. w[j] # w[i] BY <3>1, <3>3, <2>1, <1>3, SizeFacts, SMT
    <3>5. w[i] < Size /\ w[j] < Size BY <2>1, <3>2, SoundFacts, <1>5, SMT DEF Cells
    <3> QED BY <2>1, <2>2, <3>2, <3>4, <3>5 DEF SoundTo
  <2> QED BY <2>5, <2>7, <2>8
<1> QED BY <1>1, <1>6, <1>7

\* Two memories that agree on the positions and on the data of all variables but p have the
\* same list; it is sound, if p has data of one value.
LEMMA SameList ==
    ASSUME NEW m, SoundTo(m, Size), NEW k, NEW p,
           \A o \in Reach(m) : k[o] = m[o],
           \A q \in Params : q # p => \A o \in Found(m, q) :
               \A c \in o + 1 .. o + type_size(q) : k[c] = m[c],
           \A o \in Found(m, p) : \E v \in ParamValues : Holds(k, o, p, v)
    PROVE  /\ SoundTo(k, Size) /\ Reach(k) = Reach(m) /\ End(k) = End(m)
           /\ \A q : Found(k, q) = Found(m, q)
           /\ \A q \in Params : q # p => load(k, q) = load(m, q)
<1>1. Reach(k) = Reach(m) /\ End(k) = End(m) /\ \A q : Found(k, q) = Found(m, q) BY SameWalk
<1>2. ASSUME NEW q \in Params, NEW o \in Found(m, q), q # p,
             NEW v \in ParamValues, Holds(m, o, q, v)
      PROVE  Holds(k, o, q, v)
  BY <1>2 DEF Holds
<1>3. ASSUME NEW o \in Reach(m), ~is_sentinel(m[o])
      PROVE  \E q \in Params :
                  /\ m[o] = Header(q) /\ o + type_size(q) + 1 < Size
                  /\ \E v \in ParamValues : Holds(k, o, q, v)
  <2>1. PICK q \in Params :
             /\ m[o] = Header(q) /\ After(m, o) = o + type_size(q) + 1
             /\ After(m, o) \in Reach(m) /\ \E v \in ParamValues : Holds(m, o, q, v)
    BY <1>3, SoundFacts
  <2>2. o + type_size(q) + 1 < Size /\ o < Size
    BY <2>1, SoundFacts, SizeFacts, SMT DEF Cells
  <2>3. o \in Found(m, q) BY <2>1, <2>2, FoundIs
  <2>4. \E v \in ParamValues : Holds(k, o, q, v)
    <3>1. CASE q = p BY <3>1, <2>3
    <3>2. CASE q # p BY <3>2, <2>1, <2>3, <1>2
    <3> QED BY <3>1, <3>2
  <2> QED BY <2>1, <2>2, <2>4
<1>4. SoundTo(k, Size) BY <1>1, <1>3 DEF SoundTo
<1>5. ASSUME NEW q \in Params, q # p PROVE load(k, q) = load(m, q)
  <2>1. CASE Found(m, q) = {} BY <2>1, <1>1 DEF load
  <2>2. CASE Found(m, q) # {}
    <3>1. PICK o \in Found(m, q) : TRUE BY <2>2
    <3>2. o \in Reach(m) /\ m[o] = Header(q) /\ o \in Nat BY FoundIs, PlaceFacts
    <3>3. PICK v \in ParamValues : Holds(m, o, q, v)
      BY <3>2, SoundFacts, CellFacts, SMT
    <3>4. Holds(k, o, q, v) BY <3>1, <3>3, <1>2, <1>5
    <3>5. Data(m, o, q) = v /\ Data(k, o, q) = v BY <3>2, <3>3, <3>4, DataIs
    <3>6. o \in Found(k, q) BY <3>1, <1>1
    <3> QED BY <3>1, <3>5, <3>6, <1>4, LoadIs
  <2> QED BY <2>1, <2>2
<1> QED BY <1>1, <1>4, <1>5

-----------------------------------------------------------------------------
(* Parameters: writing to the list                                         *)

\* What is written behind the end of the list does not change it.
LEMMA WriteBehind ==
    ASSUME NEW m, SoundTo(m, Size), NEW k, \A c \in 0 .. End(m) : k[c] = m[c]
    PROVE  /\ SoundTo(k, Size) /\ Reach(k) = Reach(m) /\ End(k) = End(m)
           /\ \A q : Found(k, q) = Found(m, q)
           /\ \A q \in Params : load(k, q) = load(m, q)
<1>0. End(m) \in Nat /\ Reach(m) \subseteq Nat BY PlaceFacts, ReachFacts
<1>1. ASSUME NEW o \in Reach(m) PROVE k[o] = m[o]
  <2>1. o <= End(m) /\ o \in Nat BY <1>0, ReachFacts
  <2> QED BY <2>1, <1>0, SMT
<1>2. ASSUME NEW q \in Params, NEW o \in Found(m, q), NEW c \in o + 1 .. o + type_size(q)
      PROVE  k[c] = m[c]
  <2>1. o \in Reach(m) /\ m[o] = Header(q) /\ o \in Nat BY <1>0, FoundIs
  <2>2. After(m, o) <= End(m) /\ After(m, o) = o + type_size(q) + 1
    BY <2>1, SoundFacts, CellFacts, SMT
  <2>3. c \in 0 .. End(m) BY <2>1, <2>2, <1>0, SizeFacts, SMT
  <2> QED BY <2>3
<1>3. PICK n : n = NoParam OBVIOUS
<1>4. Found(m, n) = {}
  <2> SUFFICES ASSUME NEW o \in Found(m, n) PROVE FALSE OBVIOUS
  <2>1. o \in Reach(m) /\ m[o] = Header(n) BY FoundIs
  <2>2. PICK q \in Params : m[o] = Header(q) BY <2>1, SoundFacts, CellFacts
  <2> QED BY <2>1, <2>2, <1>3, CellFacts, ParamAssumption
<1>5. \A q \in Params : q # n BY <1>3, ParamAssumption
<1>6. \A q \in Params : q # n => \A o \in Found(m, q) :
          \A c \in o + 1 .. o + type_size(q) : k[c] = m[c]
  BY <1>2
<1>7. /\ SoundTo(k, Size) /\ Reach(k) = Reach(m) /\ End(k) = End(m)
      /\ \A q : Found(k, q) = Found(m, q)
      /\ \A q \in Params : q # n => load(k, q) = load(m, q)
  BY <1>1, <1>4, <1>6, SameList, SMT
<1> QED BY <1>5, <1>7

\* A variable in the list gets another value.
LEMMA WriteVariable ==
    ASSUME NEW m, SoundTo(m, Size), NEW p \in Params, NEW o \in Found(m, p),
           NEW v \in ParamValues, NEW k,
           k = [c \in Cells |-> IF c \in o + 1 .. o + type_size(p) THEN Word(p, v) ELSE m[c]]
    PROVE  /\ SoundTo(k, Size) /\ Reach(k) = Reach(m) /\ End(k) = End(m)
           /\ \A q : Found(k, q) = Found(m, q)
           /\ \A q \in Params : load(k, q) = IF q = p THEN v ELSE load(m, q)
<1>0. Reach(m) \subseteq Nat /\ Reach(m) \subseteq Cells /\ Size \in Nat
  BY PlaceFacts, SoundFacts, SizeFacts
<1>1. o \in Reach(m) /\ m[o] = Header(p) /\ o \in Nat /\ o < Size BY <1>0, FoundIs
<1>2. After(m, o) = o + type_size(p) + 1 /\ After(m, o) \in Reach(m)
  BY <1>1, SoundFacts, CellFacts, SMT
<1>3. ~Stops(m, o) BY <1>1, <1>0, CellFacts, SMT DEF Stops
<1>4. ASSUME NEW x \in Reach(m) PROVE k[x] = m[x]
  <2>1. x \in Nat /\ x \in Cells BY <1>0
  <2>2. o < x => o + type_size(p) + 1 <= x BY <1>1, <1>2, <1>3, ReachFacts
  <2>3. ~(x \in o + 1 .. o + type_size(p)) BY <2>1, <2>2, <1>1, SizeFacts, SMT
  <2> QED BY <2>1, <2>3
<1>5. ASSUME NEW q \in Params, q # p, NEW x \in Found(m, q), NEW c \in x + 1 .. x + type_size(q)
      PROVE  k[c] = m[c]
  <2>1. x \in Reach(m) /\ m[x] = Header(q) /\ x \in Nat /\ x < Size BY <1>0, FoundIs
  <2>2. After(m, x) = x + type_size(q) + 1 /\ After(m, x) \in Reach(m)
    BY <2>1, SoundFacts, CellFacts, SMT
  <2>3. ~Stops(m, x) BY <2>1, <1>0, CellFacts, SMT DEF Stops
  <2>4. x # o BY <2>1, <1>1, <1>5, CellFacts
  <2>5. o < x => o + type_size(p) + 1 <= x BY <2>1, <1>1, <1>2, <1>3, ReachFacts
  <2>6. x < o => x + type_size(q) + 1 <= o BY <2>1, <2>2, <2>3, <1>1, ReachFacts
  <2>7. c \in Nat /\ x < c /\ c < x + type_size(q) + 1 BY <2>1, SizeFacts, SMT
  <2>8. x + type_size(q) + 1 \in Cells BY <2>2, <1>0
  <2>9. c \in Cells BY <2>7, <2>8, <2>1, <1>0, SizeFacts, SMT DEF Cells
  <2>10. ~(c \in o + 1 .. o + type_size(p)) BY <2>1, <2>4, <2>5, <2>6, <2>7, <1>1, SizeFacts, SMT
  <2> QED BY <2>9, <2>10
<1>6. Holds(k, o, p, v)
  <2>1. ASSUME NEW c \in o + 1 .. o + type_size(p) PROVE c < Size /\ k[c] = Word(p, v)
    <3>1. c \in Nat /\ c < o + type_size(p) + 1 BY <1>1, SizeFacts, SMT
    <3>2. o + type_size(p) + 1 \in Cells BY <1>2, <1>0
    <3>3. c \in Cells /\ c < Size BY <3>1, <3>2, <1>0, <1>1, SizeFacts, SMT DEF Cells
    <3> QED BY <3>3
  <2> QED BY <2>1 DEF Holds
<1> HIDE DEF Found
<1>7. \A x \in Found(m, p) : x = o BY SoundFacts, SMT
<1>8. /\ SoundTo(k, Size) /\ Reach(k) = Reach(m) /\ End(k) = End(m)
      /\ \A q : Found(k, q) = Found(m, q)
      /\ \A q \in Params : q # p => load(k, q) = load(m, q)
  BY <1>4, <1>5, <1>6, <1>7, SameList, SMT
<1>9. load(k, p) = v
  <2>1. o \in Found(k, p) BY <1>8
  <2> QED BY <2>1, <1>1, <1>6, <1>8, DataIs, LoadIs, SMT
<1> QED BY <1>8, <1>9

\* A variable that was not in the list is added at its end.
LEMMA AddVariable ==
    ASSUME NEW m, SoundTo(m, Size), NEW p \in Params, Found(m, p) = {}, NEW v \in ParamValues,
           Holds(m, End(m), p, v), m[End(m) + 1 + type_size(p)] = Sentinel,
           End(m) + 1 + type_size(p) < Size,
           NEW k, k[End(m)] = Header(p), \A c \in Cells : c # End(m) => k[c] = m[c]
    PROVE  /\ SoundTo(k, Size)
           /\ \A q \in Params : load(k, q) = IF q = p THEN v ELSE load(m, q)
<1>0. Reach(m) \subseteq Nat /\ Reach(m) \subseteq Cells /\ Size \in Nat
  BY PlaceFacts, SoundFacts, SizeFacts
<1>1. PICK e \in Cells : e = End(m) BY SoundFacts
<1>2. PICK z \in Cells : z = e + 1 + type_size(p) BY <1>0, <1>1, SizeFacts, SMT DEF Cells
<1>3. e \in Nat /\ z \in Nat /\ e < z /\ z < Size BY <1>0, <1>2, SizeFacts, SMT DEF Cells
<1>4. k[e] = Header(p) /\ k[z] = Sentinel /\ e \in Reach(m)
  BY <1>1, <1>2, <1>3, ReachFacts, SMT
<1>5. ~Stops(k, e) /\ After(k, e) = z /\ Stops(k, z)
  <2>1. ~is_sentinel(k[e]) /\ is_sentinel(k[z]) BY <1>4, CellFacts
  <2>2. e + StepOver(k[e]) = z BY <1>2, <1>3, <1>4, SizeFacts, SMT
  <2> QED BY <2>1, <2>2, <1>3, <1>0, SMT DEF Stops, After
<1>6. ASSUME NEW o \in Reach(m), o # e
      PROVE  k[o] = m[o] /\ ~Stops(m, o) /\ ~Stops(k, o) /\ After(k, o) = After(m, o)
             /\ After(m, o) \in Reach(m)
  <2>1. k[o] = m[o] BY <1>0, <1>1, <1>6
  <2>2. ~Stops(m, o) BY <1>1, <1>6, ReachFacts
  <2>3. After(m, o) \in Reach(m) BY <2>2, ReachFacts
  <2> QED BY <2>1, <2>2, <2>3 DEF Stops, After
<1>7. Reach(k) \subseteq Reach(m) \cup {z}
  <2>1. 0 \in Reach(m) \cup {z} BY ReachFacts
  <2>2. \A o \in Reach(k) : o \in Reach(m) \cup {z} /\ ~Stops(k, o)
                              => After(k, o) \in Reach(m) \cup {z}
    BY <1>5, <1>6
  <2> QED BY <2>1, <2>2, ReachLeast
<1>8. Reach(m) \subseteq Reach(k)
  <2>1. 0 \in Reach(k) BY ReachFacts
  <2>2. ASSUME NEW o \in Reach(m), o \in Reach(k), ~Stops(m, o) PROVE After(m, o) \in Reach(k)
    <3>1. o # e BY <2>2, <1>1, ReachFacts
    <3> QED BY <3>1, <2>2, <1>6, ReachFacts
  <2> QED BY <2>1, <2>2, ReachLeast
<1>9. ASSUME NEW o \in Reach(m), o # e
      PROVE  \E q \in Params :
                  /\ k[o] = Header(q) /\ o + type_size(q) + 1 < Size
                  /\ \A u \in ParamValues : Holds(m, o, q, u) => Holds(k, o, q, u)
                  /\ \E u \in ParamValues : Holds(k, o, q, u)
  <2>1. ~is_sentinel(m[o]) /\ o \in Cells /\ o \in Nat BY <1>0, <1>6, <1>9 DEF Stops
  <2>2. PICK q \in Params :
             /\ m[o] = Header(q) /\ After(m, o) = o + type_size(q) + 1
             /\ After(m, o) \in Reach(m) /\ After(m, o) <= End(m)
             /\ \E u \in ParamValues : Holds(m, o, q, u)
    BY <2>1, SoundFacts
  <2>3. o + type_size(q) + 1 <= e BY <2>2, <1>1
  <2>4. \A c \in o + 1 .. o + type_size(q) : c \in Cells /\ c # End(m)
    BY <2>1, <2>3, <1>1, <1>3, <1>0, SizeFacts, SMT DEF Cells
  <2>5. \A u \in ParamValues : Holds(m, o, q, u) => Holds(k, o, q, u) BY <2>4 DEF Holds
  <2>6. o + type_size(q) + 1 < Size BY <2>1, <2>3, <1>3, <1>0, SizeFacts, SMT
  <2> QED BY <2>2, <2>5, <2>6, <1>6, <1>9
<1>10. Holds(k, e, p, v)
  <2>1. \A c \in e + 1 .. e + type_size(p) : c \in Cells /\ c # End(m)
    BY <1>1, <1>2, <1>3, <1>0, SizeFacts, SMT DEF Cells
  <2> QED BY <2>1, <1>1 DEF Holds
<1>11. ASSUME NEW o \in Reach(m), k[o] = Header(p) PROVE o = e
  <2> SUFFICES ASSUME o # e PROVE FALSE OBVIOUS
  <2>1. m[o] = Header(p) /\ o < Size BY <1>6, <1>11, <1>0, SMT DEF Cells
  <2> QED BY <2>1, FoundIs
<1>12. SoundTo(k, Size)
  <2>1. ASSUME NEW o \in Reach(k), ~is_sentinel(k[o])
        PROVE  /\ o \in Reach(m)
               /\ \E q \in Params :
                     /\ k[o] = Header(q) /\ o + type_size(q) + 1 < Size
                     /\ \E u \in ParamValues : Holds(k, o, q, u)
    <3>1. o # z BY <2>1, <1>4, CellFacts
    <3>2. o \in Reach(m) BY <3>1, <1>7
    <3>3. CASE o = e
      <4>1. e + type_size(p) + 1 < Size BY <1>2, <1>3, SizeFacts, SMT
      <4> QED BY <3>2, <3>3, <4>1, <1>4, <1>10
    <3>4. CASE o # e BY <3>2, <3>4, <1>9
    <3> QED BY <3>3, <3>4
  <2>2. ASSUME NEW o \in Reach(k), NEW x \in Reach(k), ~is_sentinel(k[o]), k[o] = k[x]
        PROVE  o = x
    <3>1. o \in Reach(m) /\ x \in Reach(m) BY <2>1, <2>2
    <3>2. CASE o = e \/ x = e BY <3>1, <3>2, <2>2, <1>4, <1>11
    <3>3. CASE o # e /\ x # e
      <4>1. m[o] = m[x] /\ ~is_sentinel(m[o]) /\ o < Size /\ x < Size
        BY <3>1, <3>3, <2>2, <1>6, <1>0, SMT DEF Cells
      <4> QED BY <4>1, <3>1 DEF SoundTo
    <3> QED BY <3>2, <3>3
  <2> QED BY <2>1, <2>2 DEF SoundTo
<1>13. load(k, p) = v
  <2>0. e \in Reach(k) /\ e < Size BY <1>0, <1>3, <1>4, <1>8, SMT
  <2>1. e \in Found(k, p) BY <2>0, <1>4, FoundIs
  <2> QED BY <2>1, <1>3, <1>10, <1>12, DataIs, LoadIs, SMT
<1>14. ASSUME NEW q \in Params, q # p PROVE load(k, q) = load(m, q)
  <2>1. Found(k, q) = Found(m, q)
    <3>1. ASSUME NEW o \in Found(k, q) PROVE o \in Found(m, q)
      <4>1. o \in Reach(k) /\ o < Size /\ k[o] = Header(q) BY FoundIs
      <4>2. o # z /\ o # e BY <4>1, <1>4, <1>14, CellFacts
      <4> QED BY <4>1, <4>2, <1>6, <1>7, FoundIs
    <3>2. ASSUME NEW o \in Found(m, q) PROVE o \in Found(k, q)
      <4>1. o \in Reach(m) /\ o < Size /\ m[o] = Header(q) BY FoundIs
      <4>2. o # e BY <4>1, <1>1, SoundFacts, CellFacts, SMT
      <4> QED BY <4>1, <4>2, <1>6, <1>8, FoundIs
    <3> QED BY <3>1, <3>2
  <2>2. CASE Found(m, q) = {} BY <2>1, <2>2 DEF load
  <2>3. CASE Found(m, q) # {}
    <3>1. PICK o \in Found(m, q) : TRUE BY <2>3
    <3>2. o \in Reach(m) /\ m[o] = Header(q) /\ o \in Nat BY <1>0, FoundIs
    <3>3. PICK u \in ParamValues : Holds(m, o, q, u) BY <3>2, SoundFacts, CellFacts, SMT
    <3>4. o # e BY <3>2, <1>1, SoundFacts, CellFacts, SMT
    <3>5. Holds(k, o, q, u) BY <3>2, <3>3, <3>4, <1>6, <1>9, CellFacts, SMT
    <3>6. Data(m, o, q) = u /\ Data(k, o, q) = u BY <3>2, <3>3, <3>5, DataIs
    <3> QED BY <3>1, <3>6, <2>1, <1>12, LoadIs
  <2> QED BY <2>2, <2>3
<1> QED BY <1>12, <1>13, <1>14

-----------------------------------------------------------------------------
(* Parameters: power failures                                              *)

\* The first line, as far as there is storage.
FirstLine == IF LineLen < Size THEN LineLen ELSE Size

\* The line of a cell.
LEMMA LineFacts ==
    /\ FirstLine \in 1 .. Size
    /\ \A c \in Nat : c \div LineLen \in Nat
    /\ \A c \in Nat : (c \div LineLen = 0) <=> c < LineLen
<1>0. LineLen \in Nat \ {0} /\ Size \in Nat \ {0} BY SizeFacts
<1>1. FirstLine \in 1 .. Size BY <1>0, SMT DEF FirstLine
<1>2. ASSUME NEW c \in Nat PROVE c \div LineLen \in Nat /\ ((c \div LineLen = 0) <=> c < LineLen)
  BY <1>0, SMT
<1> QED BY <1>1, <1>2

\* A set with two elements.
LEMMA TwoElements ==
    ASSUME NEW S, IsFiniteSet(S), NEW a \in S, NEW b \in S, a # b
    PROVE  Cardinality(S) > 1
<1>1. {a, b} \subseteq S OBVIOUS
<1>2. IsFiniteSet({a}) /\ Cardinality({a}) = 1 BY FS_Singleton
<1>3. Cardinality({a} \cup {b}) = 2 /\ IsFiniteSet({a} \cup {b})
  BY <1>2, FS_AddElement, SMT
<1>4. {a, b} = {a} \cup {b} OBVIOUS
<1>5. Cardinality({a, b}) <= Cardinality(S) BY <1>1, FS_Subset
<1>6. Cardinality(S) \in Nat BY FS_CardinalityType
<1> QED BY <1>3, <1>4, <1>5, <1>6, SMT

\* Unless Straddles, the lines of a variable are not dirty if they are two.
LEMMA NotStraddled ==
    ASSUME ~Straddles, NEW p \in Params, NEW o \in Nat,
           o \in Found(storage, p) \cup Found(durable, p),
           NEW c \in Extent(p, o), NEW d \in Extent(p, o), c \div LineLen # d \div LineLen
    PROVE  c \div LineLen \notin Dirty
<1>1. PICK E : E = Extent(p, o) OBVIOUS
<1>2. PICK L : L = {x \div LineLen : x \in E} OBVIOUS
<1>3. E \in InStorage
  <2>1. PICK B : B = {Extent(p, x) : x \in Found(storage, p) \cup Found(durable, p)} OBVIOUS
  <2>2. E \in B BY <1>1, <2>1
  <2>3. B \in {{Extent(q, x) : x \in Found(storage, q) \cup Found(durable, q)} : q \in Params}
    BY <2>1
  <2>4. E \in UNION {{Extent(q, x) : x \in Found(storage, q) \cup Found(durable, q)} : q \in Params}
    BY <2>2, <2>3
  <2> QED BY <2>4 DEF InStorage
<1>4. IsFiniteSet(E)
  <2>1. E = o .. o + type_size(p) + 1 BY <1>1 DEF Extent
  <2>2. o \in Int /\ o + type_size(p) + 1 \in Int BY SizeFacts, SMT
  <2> QED BY <2>1, <2>2, FS_Interval
<1>5. IsFiniteSet(L)
  <2> DEFINE f == [x \in E |-> x \div LineLen]
  <2>1. f \in Surjection(E, L) BY <1>2 DEF Surjection
  <2> QED BY <2>1, <1>4, FS_Surjection
<1>6. c \div LineLen \in L /\ d \div LineLen \in L BY <1>1, <1>2
<1>7. Cardinality(L) > 1 BY <1>5, <1>6, TwoElements
<1>8. ~(Cardinality(L) > 1 /\ L \cap Dirty # {}) BY <1>2, <1>3 DEF Straddles
<1> QED BY <1>6, <1>7, <1>8

\* What is not dirty is durable.
LEMMA CleanCell ==
    ASSUME NEW c \in Cells, c \div LineLen \notin Dirty
    PROVE  storage[c] = durable[c]
BY DEF Dirty, StorageLines, CellsOf

\* When power fails at a moment at which no variable is durable in part, the list on
\* the device is sound: it is that of storage, or it lies in the first line, which is
\* as it was when it was written.
LEMMA DurableSound ==
    ASSUME SoundTo(storage, Size), SoundTo(durable, FirstLine), ~Straddles
    PROVE  SoundTo(durable, Size)
<1>0. /\ LineLen \in Nat \ {0} /\ Size \in Nat \ {0} /\ FirstLine \in 1 .. Size
      /\ FirstLine = (IF LineLen < Size THEN LineLen ELSE Size)
  BY SizeFacts, LineFacts DEF FirstLine
<1>1. CASE 0 \in Dirty
  <2> DEFINE T == {o \in Nat : o < FirstLine}
  <2>1. ASSUME NEW o \in Reach(durable), o < FirstLine, ~is_sentinel(durable[o])
        PROVE  \E p \in Params :
                   /\ durable[o] = Header(p) /\ After(durable, o) = o + type_size(p) + 1
                   /\ o + type_size(p) + 1 < FirstLine
    <3>0. o \in Nat BY PlaceFacts
    <3>1. PICK p \in Params : durable[o] = Header(p) /\ o + type_size(p) + 1 < Size
      BY <2>1 DEF SoundTo
    <3>2. After(durable, o) = o + type_size(p) + 1 BY <3>0, <3>1, SizeFacts, SMT DEF After
    <3>3. o \in Found(durable, p) BY <3>0, <3>1, <2>1, <1>0, FoundIs, SMT
    <3>4. PICK z \in Nat : z = o + type_size(p) + 1 BY <3>0, SizeFacts, SMT
    <3>5. o \in Extent(p, o) /\ z \in Extent(p, o) BY <3>0, <3>4, SizeFacts, SMT DEF Extent
    <3>6. o \div LineLen = 0 BY <3>0, <2>1, <1>0, LineFacts, SMT
    <3>7. z \div LineLen = 0
      <4> SUFFICES ASSUME z \div LineLen # 0 PROVE FALSE OBVIOUS
      <4>1. o \div LineLen \notin Dirty BY <3>0, <3>3, <3>5, <3>6, NotStraddled
      <4> QED BY <4>1, <3>6, <1>1
    <3>8. z < LineLen BY <3>4, <3>7, LineFacts
    <3>9. z < FirstLine BY <3>1, <3>4, <3>8, <1>0
    <3> QED BY <3>1, <3>2, <3>4, <3>9
  <2>2. 0 \in T BY <1>0, SMT
  <2>3. ASSUME NEW o \in Reach(durable), o \in T, ~Stops(durable, o) PROVE After(durable, o) \in T
    <3>1. PICK p \in Params : /\ After(durable, o) = o + type_size(p) + 1
                              /\ o + type_size(p) + 1 < FirstLine
      BY <2>1, <2>3 DEF Stops
    <3> QED BY <3>1, <2>3, SizeFacts, SMT
  <2> HIDE DEF T
  <2>4. Reach(durable) \subseteq T BY <2>2, <2>3, ReachLeast
  <2>5. \A o \in Reach(durable) : o \in Nat /\ o < FirstLine BY <2>4 DEF T
  <2>6. ASSUME NEW o \in Reach(durable), ~is_sentinel(durable[o])
        PROVE  \E p \in Params :
                  /\ durable[o] = Header(p) /\ o + type_size(p) + 1 < Size
                  /\ \E v \in ParamValues : Holds(durable, o, p, v)
    <3>1. PICK p \in Params :
              /\ durable[o] = Header(p) /\ o + type_size(p) + 1 < Size
              /\ o + type_size(p) + 1 < FirstLine => \E v \in ParamValues : Holds(durable, o, p, v)
      BY <2>5, <2>6 DEF SoundTo
    <3>2. o + type_size(p) + 1 < FirstLine BY <3>1, <2>1, <2>5, <2>6, CellFacts
    <3> QED BY <3>1, <3>2
  <2>7. \A o, x \in Reach(durable) : ~is_sentinel(durable[o]) /\ durable[o] = durable[x] => o = x
    BY <2>5 DEF SoundTo
  <2> QED BY <2>6, <2>7 DEF SoundTo
<1>2. CASE 0 \notin Dirty
  <2> DEFINE T == {o \in Cells : o \div LineLen \notin Dirty}
  <2>0. Reach(storage) \subseteq Cells /\ Cells \subseteq Nat BY SoundFacts, SMT DEF Cells
  <2>1. 0 \in T
    <3>1. 0 \div LineLen = 0 BY <1>0, LineFacts, SMT
    <3> QED BY <3>1, <1>0, <1>2, SMT DEF Cells
  <2>2. ASSUME NEW p \in Params, NEW o \in Found(storage, p), o \div LineLen \notin Dirty,
               NEW c \in Extent(p, o), c \in Nat
        PROVE  c \div LineLen \notin Dirty
    <3>1. o \in Nat BY FoundIs, PlaceFacts
    <3>2. o \in Extent(p, o) BY <3>1, SizeFacts, SMT DEF Extent
    <3>3. CASE c \div LineLen = o \div LineLen BY <3>3, <2>2
    <3>4. CASE c \div LineLen # o \div LineLen BY <3>1, <3>2, <3>4, <2>2, NotStraddled
    <3> QED BY <3>3, <3>4
  <2>3. ASSUME NEW o \in Reach(storage), o \in T, ~is_sentinel(storage[o])
        PROVE  \E p \in Params :
                   /\ storage[o] = Header(p) /\ After(storage, o) = o + type_size(p) + 1
                   /\ After(storage, o) \in Reach(storage)
                   /\ \A c \in Extent(p, o) : c \in T
                   /\ After(storage, o) \in T
                   /\ \E v \in ParamValues : Holds(storage, o, p, v)
    <3>1. PICK p \in Params :
                   /\ storage[o] = Header(p) /\ After(storage, o) = o + type_size(p) + 1
                   /\ After(storage, o) \in Reach(storage)
                   /\ \E v \in ParamValues : Holds(storage, o, p, v)
      BY <2>3, SoundFacts
    <3>2. o \in Nat /\ o < Size /\ o \in Found(storage, p)
      BY <3>1, <2>0, <1>0, FoundIs, SMT DEF Cells
    <3>3. o + type_size(p) + 1 \in Cells BY <3>1, <2>0
    <3>4. ASSUME NEW c \in Extent(p, o) PROVE c \in T
      <4>1. c \in Nat /\ c <= o + type_size(p) + 1 BY <3>2, SizeFacts, SMT DEF Extent
      <4>2. c \in Cells BY <4>1, <3>2, <3>3, <1>0, SizeFacts, SMT DEF Cells
      <4> QED BY <4>1, <4>2, <3>2, <2>2, <2>3
    <3>5. o + type_size(p) + 1 \in Extent(p, o) BY <3>2, SizeFacts, SMT DEF Extent
    <3> QED BY <3>1, <3>4, <3>5
  <2>4. Reach(storage) \subseteq T
    <3>1. \A o \in Reach(storage) : o \in T /\ ~Stops(storage, o) => After(storage, o) \in T
      BY <2>3 DEF Stops
    <3> HIDE DEF T
    <3> QED BY <3>1, <2>1, ReachLeast
  <2>5. \A c \in T : durable[c] = storage[c] BY CleanCell
  <2> HIDE DEF T
  <2>6. Reach(durable) = Reach(storage) BY <2>4, <2>5, SameWalk
  <2>7. ASSUME NEW o \in Reach(storage), ~is_sentinel(storage[o])
        PROVE  \E p \in Params :
                  /\ durable[o] = Header(p) /\ o + type_size(p) + 1 < Size
                  /\ \E v \in ParamValues : Holds(durable, o, p, v)
    <3>1. PICK p \in Params :
                   /\ storage[o] = Header(p) /\ After(storage, o) = o + type_size(p) + 1
                   /\ After(storage, o) \in Reach(storage)
                   /\ \A c \in Extent(p, o) : c \in T
                   /\ \E v \in ParamValues : Holds(storage, o, p, v)
      BY <2>3, <2>4, <2>7
    <3>2. o + type_size(p) + 1 < Size /\ o \in Nat BY <3>1, <2>0, <1>0, SMT DEF Cells
    <3>3. \A c \in o + 1 .. o + type_size(p) : c \in Extent(p, o)
      BY <3>2, SizeFacts, SMT DEF Extent
    <3>4. \A v \in ParamValues : Holds(storage, o, p, v) => Holds(durable, o, p, v)
      BY <3>1, <3>3, <2>5 DEF Holds
    <3>5. durable[o] = storage[o] BY <2>4, <2>5
    <3> QED BY <3>1, <3>2, <3>4, <3>5
  <2>8. \A o \in Reach(storage) : durable[o] = storage[o] /\ o < Size
    BY <2>0, <2>4, <2>5, <1>0, SMT DEF Cells
  <2>9. \A o, x \in Reach(storage) : ~is_sentinel(durable[o]) /\ durable[o] = durable[x] => o = x
    BY <2>8 DEF SoundTo
  <2> QED BY <2>6, <2>7, <2>8, <2>9 DEF SoundTo
<1> QED BY <1>1, <1>2

-----------------------------------------------------------------------------
(* Parameters: the invariant of the parameters                             *)

\* A save_sync() in state s has memory m as it needs it: one of a new variable is at the
\* end of the list, with the sentinel, then the data where they belong; one of a variable
\* in the list is at its header.
LiveAt(m, s) ==
    /\ s.pc = "update" => s.ofs \in Found(m, s.p)
    /\ s.pc \in {"sentinel", "data", "header"} =>
         s.ofs = End(m) /\ Found(m, s.p) = {} /\ Room(s.ofs, s.p)
    /\ s.pc \in {"data", "header"} => m[s.ofs + 1 + type_size(s.p)] = Sentinel
    /\ s.pc = "header" => \E v \in ParamValues : Holds(m, s.ofs, s.p, v)

\* Everything was erased since the search: what save_sync() writes is behind the end.
StaleAt(m, s) == is_sentinel(m[0]) /\ (s.ofs > 0 \/ s.pc = "update")

\* Where save_sync() knows what to do: it is one or the other.
Busy == {"sentinel", "data", "header", "update"}
SaversOK ==
    \A t \in Threads :
        saver[t].pc \in Busy => LiveAt(storage, saver[t]) \/ StaleAt(storage, saver[t])

\* The parameter is about to be queued, or in the queue.
Waiting(p) == saving = p \/ \E i \in 1 .. Len(queue) : queue[i] = p

\* save_sync() is going to leave the present value of the parameter in storage.
Written(p) ==
    \E t \in Threads :
        /\ saver[t].p = p /\ saver[t].pc \in Busy \cup {"scan"}
        /\ saver[t].pc # "scan" => LiveAt(storage, saver[t])

\* No change is lost: the value is in storage, or it is going to be.
Kept == \A p \in Params \ dropped : load(storage, p) = value[p] \/ Waiting(p) \/ Written(p)

\* Nor one that comes when the data was written already.
NoneLate ==
    \A t \in Threads :
        saver[t].pc = "header" /\ saver[t].p \notin dropped /\ LiveAt(storage, saver[t]) =>
            \/ Holds(storage, saver[t].ofs, saver[t].p, value[saver[t].p])
            \/ Waiting(saver[t].p)

\* The types.
PTypes ==
    /\ value \in [Params -> ParamValues]
    /\ queue \in Seq(Params) /\ saving \in Params \cup {NoParam}
    /\ saver \in [Threads -> {Done} \cup [pc : Busy \cup {"scan"}, p : Params, ofs : Cells]]
    /\ left \in [sets : Int, erases : Int, crashes : Int]

\* The inductive invariant, when one thread at most is in save_sync().
PInv ==
    /\ PTypes
    /\ saver["io"] = Done \/ saver["ftp"] = Done
    /\ SoundTo(storage, Size) /\ SoundTo(durable, FirstLine)
    /\ SaversOK /\ Kept /\ NoneLate

-----------------------------------------------------------------------------
(* Parameters: the steps of the main thread                                *)

\* What a thread in save_sync() has.
LEMMA SaverFacts ==
    ASSUME PTypes
    PROVE  /\ DOMAIN saver = Threads
           /\ \A t \in Threads :
                 /\ saver[t] = Done \/ saver[t].pc \in Busy \cup {"scan"}
                 /\ saver[t].pc \in Busy \cup {"scan"} =>
                       saver[t] # Done /\ saver[t].p \in Params /\ saver[t].ofs \in Cells
           /\ Done.pc \notin Busy \cup {"scan"} /\ "scan" \notin Busy
BY SMT DEF PTypes, Done, Busy

\* When one is, the other is not.
LEMMA OtherDone ==
    ASSUME PInv, NEW t \in Threads, saver[t].pc \in Busy \cup {"scan"},
           NEW u \in Threads, u # t
    PROVE  saver[u] = Done
<1>1. saver[t] # Done BY SaverFacts DEF PInv
<1> QED BY <1>1 DEF PInv, Threads

\* What is sound is sound as far as any cell.
LEMMA SoundShorter ==
    ASSUME NEW m, SoundTo(m, Size), NEW n \in 0 .. Size
    PROVE  SoundTo(m, n)
<1>0. Size \in Nat /\ Reach(m) \subseteq Nat BY SizeFacts, PlaceFacts
<1>1. \A o \in Reach(m) : o < n => o < Size BY <1>0, SMT
<1>2. ASSUME NEW o \in Reach(m), ~is_sentinel(m[o])
      PROVE  \E p \in Params :
                  /\ m[o] = Header(p) /\ o + type_size(p) + 1 < Size
                  /\ \E v \in ParamValues : Holds(m, o, p, v)
  <2>1. PICK p \in Params :
             /\ m[o] = Header(p) /\ After(m, o) = o + type_size(p) + 1 /\ After(m, o) \in Reach(m)
             /\ \E v \in ParamValues : Holds(m, o, p, v)
    BY <1>2, SoundFacts
  <2>2. o + type_size(p) + 1 < Size BY <2>1, <1>0, SoundFacts, SMT DEF Cells
  <2> QED BY <2>1, <2>2
<1> QED BY <1>1, <1>2 DEF SoundTo

\* An action that leaves storage, the device and save_sync() alone.
LEMMA SameSavers ==
    ASSUME PInv, UNCHANGED <<storage, durable, saver>>
    PROVE  /\ saver'["io"] = Done \/ saver'["ftp"] = Done
           /\ SoundTo(storage, Size)' /\ SoundTo(durable, FirstLine)'
           /\ SaversOK' /\ \A p : Written(p)' <=> Written(p)
<1>1. storage' = storage /\ durable' = durable /\ saver' = saver OBVIOUS
<1>2. SoundTo(storage, Size)' /\ SoundTo(durable, FirstLine)' BY <1>1 DEF PInv
<1>3. SaversOK' BY <1>1 DEF PInv, SaversOK
<1>4. \A p : Written(p)' <=> Written(p) BY <1>1 DEF Written
<1> QED BY <1>1, <1>2, <1>3, <1>4 DEF PInv

\* The main thread changes a parameter.
LEMMA SetKeeps ==
    ASSUME PInv, NEW p \in Params, NEW v \in ParamValues, set(p, v)
    PROVE  PInv'
<1>1. /\ saving = NoParam /\ value' = [value EXCEPT ![p] = v] /\ saving' = p
      /\ dropped' = dropped \ {p} /\ left' = [left EXCEPT !.sets = @ - 1]
      /\ storage' = storage /\ saver' = saver /\ queue' = queue
  BY DEF set
<1>2. PTypes' BY <1>1, SMT DEF PInv, PTypes
<1>3. /\ saver'["io"] = Done \/ saver'["ftp"] = Done
      /\ SoundTo(storage, Size)' /\ SoundTo(durable, FirstLine)'
      /\ SaversOK' /\ \A q : Written(q)' <=> Written(q)
  BY SameSavers DEF set
<1>4. Waiting(p)' BY <1>1 DEF Waiting
<1>5. ASSUME NEW q \in Params, q # p
      PROVE  /\ value'[q] = value[q] /\ (Waiting(q) => Waiting(q)')
             /\ (q \notin dropped' => q \notin dropped)
  BY <1>1, <1>5, ParamAssumption DEF Waiting, PInv, PTypes
<1>6. Kept'
  <2> SUFFICES ASSUME NEW q \in Params, q \notin dropped'
               PROVE  load(storage, q)' = value'[q] \/ Waiting(q)' \/ Written(q)'
    BY DEF Kept
  <2>1. CASE q = p BY <2>1, <1>4
  <2>2. CASE q # p BY <2>2, <1>1, <1>3, <1>5 DEF PInv, Kept
  <2> QED BY <2>1, <2>2
<1>7. NoneLate'
  <2> SUFFICES ASSUME NEW t \in Threads, NEW q, q = saver[t].p, saver[t].pc = "header",
                      q \notin dropped', LiveAt(storage, saver[t])
               PROVE  Holds(storage, saver[t].ofs, q, value'[q]) \/ Waiting(q)'
    BY <1>1 DEF NoneLate
  <2>0. q \in Params BY SaverFacts DEF PInv, Busy
  <2>1. CASE q = p BY <2>1, <1>4
  <2>2. CASE q # p BY <2>0, <2>2, <1>5 DEF PInv, NoneLate
  <2> QED BY <2>1, <2>2
<1> QED BY <1>2, <1>3, <1>6, <1>7 DEF PInv

\* The main thread queues it, or gives up.
LEMMA SaveKeeps ==
    ASSUME PInv, save
    PROVE  PInv'
<1>1. /\ saving # NoParam /\ saving' = NoParam /\ value' = value /\ storage' = storage
      /\ saver' = saver /\ left' = left /\ durable' = durable
  BY DEF save
<1>2. saving \in Params /\ queue \in Seq(Params) /\ Len(queue) \in Nat
  BY <1>1, SMT DEF PInv, PTypes
<1>3. \/ AtHead(saving) /\ queue' = queue /\ dropped' = dropped
      \/ queue' = Append(queue, saving) /\ dropped' = dropped
      \/ queue' = queue /\ dropped' = dropped \cup {saving}
  BY DEF save
<1>4. queue' \in Seq(Params) BY <1>2, <1>3, SMT
<1>5. PTypes' BY <1>1, <1>4 DEF PInv, PTypes
<1>6. /\ saver'["io"] = Done \/ saver'["ftp"] = Done
      /\ SoundTo(storage, Size)' /\ SoundTo(durable, FirstLine)'
      /\ SaversOK' /\ \A q : Written(q)' <=> Written(q)
  BY <1>1, SameSavers
<1>7. ASSUME NEW q, q \notin dropped', Waiting(q) PROVE Waiting(q)'
  <2>1. CASE q = saving
    <3>1. CASE AtHead(saving) /\ queue' = queue
      <4>1. Len(queue) >= 1 /\ queue[1] = q BY <3>1, <2>1, <1>2, SMT DEF AtHead
      <4>2. 1 \in 1 .. Len(queue') /\ queue'[1] = q BY <4>1, <3>1, <1>2, SMT
      <4> QED BY <4>2 DEF Waiting
    <3>2. CASE queue' = Append(queue, saving)
      <4>1. Len(queue') = Len(queue) + 1 /\ queue'[Len(queue) + 1] = q BY <3>2, <2>1, <1>2, SMT
      <4>2. Len(queue) + 1 \in 1 .. Len(queue') BY <4>1, <1>2, SMT
      <4> QED BY <4>1, <4>2 DEF Waiting
    <3> QED BY <3>1, <3>2, <2>1, <1>3, <1>7
  <2>2. CASE q # saving
    <3>1. PICK i \in 1 .. Len(queue) : queue[i] = q BY <2>2, <1>7 DEF Waiting
    <3>2. i \in 1 .. Len(queue') /\ queue'[i] = queue[i] BY <1>2, <1>3, SMT
    <3> QED BY <3>1, <3>2 DEF Waiting
  <2> QED BY <2>1, <2>2
<1>8. dropped \subseteq dropped' BY <1>3
<1>9. Kept' BY <1>1, <1>6, <1>7, <1>8 DEF PInv, Kept
<1>10. NoneLate' BY <1>1, <1>7, <1>8 DEF PInv, NoneLate
<1> QED BY <1>5, <1>6, <1>9, <1>10 DEF PInv

\* All is erased, also while save_sync() goes on.
LEMMA EraseKeeps ==
    ASSUME PInv, erase_all
    PROVE  PInv'
<1>0. Size \in Nat \ {0} /\ 0 \in Cells BY SizeFacts, SMT DEF Cells
<1>1. /\ storage' = [c \in Cells |-> IF c \in {0} THEN Sentinel ELSE storage[c]]
      /\ dropped' = Params /\ left' = [left EXCEPT !.erases = @ - 1]
      /\ value' = value /\ durable' = durable
      /\ queue' = queue /\ saving' = saving /\ saver' = saver
  BY DEF erase_all, eeprom_write_check
<1>2. PTypes' BY <1>1, SMT DEF PInv, PTypes
<1>3. is_sentinel(storage'[0]) BY <1>0, <1>1, CellFacts
<1>4. /\ End(storage') = 0 /\ \A p : Found(storage', p) = {} /\ SoundTo(storage', Size)
  BY <1>3, EmptyList
<1>5. ASSUME NEW t \in Threads, saver[t].pc \in Busy
      PROVE  LiveAt(storage', saver[t]) \/ StaleAt(storage', saver[t])
  <2>0. PICK s : s = saver[t] OBVIOUS
  <2>1. s.p \in Params /\ s.ofs \in Cells /\ s.ofs \in Nat
    BY <2>0, <1>5, SaverFacts, SMT DEF PInv, Cells
  <2>2. CASE s.ofs > 0 \/ s.pc = "update" BY <2>0, <2>2, <1>3 DEF StaleAt
  <2>3. CASE s.ofs = 0 /\ s.pc # "update"
    <3>1. LiveAt(storage, s) BY <2>0, <2>3, <1>5, SMT DEF PInv, SaversOK, StaleAt
    <3>2. Room(s.ofs, s.p) BY <2>0, <2>3, <3>1, <1>5 DEF LiveAt, Busy
    <3>3. s.ofs + 1 + type_size(s.p) \in Cells /\ s.ofs + 1 + type_size(s.p) # 0
      BY <2>1, <3>2, <1>0, SizeFacts, SMT DEF Room, Cells
    <3>4. storage'[s.ofs + 1 + type_size(s.p)] = storage[s.ofs + 1 + type_size(s.p)]
      BY <3>3, <1>1
    <3>5. ASSUME NEW v \in ParamValues, Holds(storage, s.ofs, s.p, v)
          PROVE  Holds(storage', s.ofs, s.p, v)
      <4>1. \A c \in s.ofs + 1 .. s.ofs + type_size(s.p) : c \in Cells /\ c # 0
        BY <2>1, <3>2, <1>0, SizeFacts, SMT DEF Room, Cells
      <4> QED BY <4>1, <3>5, <1>1 DEF Holds
    <3>6. LiveAt(storage', s) BY <2>3, <3>1, <3>2, <3>4, <3>5, <1>4 DEF LiveAt
    <3> QED BY <3>6, <2>0
  <2> QED BY <2>1, <2>2, <2>3, SMT
<1>6. SaversOK' BY <1>1, <1>5 DEF SaversOK
<1>7. Kept' BY <1>1 DEF Kept
<1>8. NoneLate'
  <2>1. \A t \in Threads : saver[t].pc = "header" => saver[t].p \in Params
    BY SaverFacts DEF PInv, Busy
  <2> QED BY <2>1, <1>1 DEF NoneLate
<1>9. SoundTo(storage, Size)' /\ SoundTo(durable, FirstLine)' BY <1>1, <1>4 DEF PInv
<1>10. saver'["io"] = Done \/ saver'["ftp"] = Done BY <1>1 DEF PInv
<1> QED BY <1>2, <1>6, <1>7, <1>8, <1>9, <1>10 DEF PInv

-----------------------------------------------------------------------------
(* Parameters: the steps of save_sync()                                    *)

\* The states of a thread.
States == {Done} \cup [pc : Busy \cup {"scan"}, p : Params, ofs : Cells]

\* save_sync() begins, in a thread when it is the only one.
LEMMA BeginKeeps ==
    ASSUME PInv, NEW t \in Threads, NEW p \in Params,
           \A u \in Threads : saver[u] = Done,
           saver' = [saver EXCEPT ![t] = [pc |-> "scan", p |-> p, ofs |-> 0]],
           UNCHANGED <<storage, durable, saving>>, PTypes',
           dropped' = dropped \/ dropped' = dropped \ {p},
           \A q \in Params : q # p => value'[q] = value[q] /\ (Waiting(q) => Waiting(q)')
    PROVE  PInv'
<1>0. PTypes BY DEF PInv
<1>1. DOMAIN saver = Threads BY <1>0, SaverFacts
<1>2. /\ saver'[t] = [pc |-> "scan", p |-> p, ofs |-> 0]
      /\ \A u \in Threads : u # t => saver'[u] = Done
  BY <1>1
<1>3. saver'["io"] = Done \/ saver'["ftp"] = Done BY <1>2 DEF Threads
<1>4. \A u \in Threads : saver'[u].pc \notin Busy BY <1>2, <1>0, SaverFacts
<1>5. SaversOK' BY <1>4 DEF SaversOK
<1>6. NoneLate' BY <1>4 DEF NoneLate, Busy
<1>7. Written(p)' BY <1>2, SMT DEF Written
<1>8. ASSUME NEW q PROVE ~Written(q)
  BY <1>0, SaverFacts DEF Written
<1>9. Kept'
  <2> SUFFICES ASSUME NEW q \in Params, q \notin dropped'
               PROVE  load(storage, q)' = value'[q] \/ Waiting(q)' \/ Written(q)'
    BY DEF Kept
  <2>1. CASE q = p BY <2>1, <1>7
  <2>2. CASE q # p BY <2>2, <1>8 DEF PInv, Kept
  <2> QED BY <2>1, <2>2
<1>10. SoundTo(storage, Size)' /\ SoundTo(durable, FirstLine)' BY DEF PInv
<1> QED BY <1>3, <1>5, <1>6, <1>9, <1>10 DEF PInv

\* A call of save_sync() that does no harm finds no other thread in it.
LEMMA CallAlone ==
    ASSUME NEW t, NEW p, save_sync(t, p), harm' = {}
    PROVE  \A u \in Threads : saver[u] = Done
BY DEF save_sync

\* The IO thread takes a parameter from the queue.
LEMMA HandlerKeeps ==
    ASSUME PInv, harm' = {}, save_io_handler
    PROVE  PInv'
<1>0. PTypes /\ queue \in Seq(Params) /\ Len(queue) \in Nat BY SMT DEF PInv, PTypes
<1>1. /\ queue # <<>> /\ queue' = Tail(queue)
      /\ saver' = [saver EXCEPT !["io"] = [pc |-> "scan", p |-> queue[1], ofs |-> 0]]
      /\ value' = value /\ storage' = storage /\ durable' = durable /\ saving' = saving
      /\ dropped' = dropped /\ left' = left
  BY DEF save_io_handler, save_sync
<1>2. PICK p \in Params : p = queue[1] BY <1>0, <1>1, SMT
<1>3. 0 \in Cells BY SizeFacts, SMT DEF Cells
<1>4. queue' \in Seq(Params) /\ Len(queue') = Len(queue) - 1
      /\ \A i \in 1 .. Len(queue') : queue'[i] = queue[i + 1]
  BY <1>0, <1>1, SMT
<1>5. PTypes'
  <2>1. [pc |-> "scan", p |-> p, ofs |-> 0] \in [pc : Busy \cup {"scan"}, p : Params, ofs : Cells]
    BY <1>3
  <2>2. saver' \in [Threads -> {Done} \cup [pc : Busy \cup {"scan"}, p : Params, ofs : Cells]]
    BY <2>1, <1>0, <1>1, <1>2 DEF PTypes
  <2> QED BY <2>2, <1>0, <1>1, <1>4 DEF PTypes
<1>6. ASSUME NEW q \in Params, q # p PROVE value'[q] = value[q] /\ (Waiting(q) => Waiting(q)')
  <2> SUFFICES ASSUME NEW i \in 1 .. Len(queue), queue[i] = q PROVE Waiting(q)'
    BY <1>1 DEF Waiting
  <2>1. i # 1 BY <1>2, <1>6
  <2>2. PICK j \in 1 .. Len(queue') : i = j + 1 BY <2>1, <1>0, <1>4, SMT
  <2>3. queue'[j] = q BY <2>2, <1>4
  <2> QED BY <2>3 DEF Waiting
<1>7. \A u \in Threads : saver[u] = Done BY CallAlone DEF save_io_handler
<1>8. "io" \in Threads BY DEF Threads
<1> QED BY <1>1, <1>2, <1>5, <1>6, <1>7, <1>8, BeginKeeps

\* An upload sets a parameter and saves it.
LEMMA UploadKeeps ==
    ASSUME PInv, harm' = {}, NEW p \in Params, NEW v \in ParamValues, upload(p, v)
    PROVE  PInv'
<1>0. PTypes BY DEF PInv
<1>1. /\ saver' = [saver EXCEPT !["ftp"] = [pc |-> "scan", p |-> p, ofs |-> 0]]
      /\ value' = [value EXCEPT ![p] = v] /\ storage' = storage /\ durable' = durable
      /\ saving' = saving /\ queue' = queue /\ dropped' = dropped \ {p}
      /\ left' = [left EXCEPT !.sets = @ - 1]
  BY DEF upload, save_sync
<1>2. 0 \in Cells BY SizeFacts, SMT DEF Cells
<1>3. PTypes'
  <2>1. [pc |-> "scan", p |-> p, ofs |-> 0] \in [pc : Busy \cup {"scan"}, p : Params, ofs : Cells]
    BY <1>2
  <2>2. saver' \in [Threads -> {Done} \cup [pc : Busy \cup {"scan"}, p : Params, ofs : Cells]]
    BY <2>1, <1>0, <1>1 DEF PTypes
  <2>3. value' \in [Params -> ParamValues] /\ left' \in [sets : Int, erases : Int, crashes : Int]
    BY <1>0, <1>1, SMT DEF PTypes
  <2> QED BY <2>2, <2>3, <1>0, <1>1 DEF PTypes
<1>4. ASSUME NEW q \in Params, q # p PROVE value'[q] = value[q] /\ (Waiting(q) => Waiting(q)')
  BY <1>0, <1>1, <1>4 DEF Waiting, PTypes
<1>5. \A u \in Threads : saver[u] = Done BY CallAlone DEF upload
<1>6. "ftp" \in Threads BY DEF Threads
<1> QED BY <1>1, <1>3, <1>4, <1>5, <1>6, BeginKeeps

\* A step of save_sync(): what it must leave.
LEMMA StepKeeps ==
    ASSUME PInv, NEW t \in Threads, NEW p, p = saver[t].p, saver[t].pc \in Busy \cup {"scan"},
           NEW s \in States, saver' = [saver EXCEPT ![t] = s],
           UNCHANGED <<value, durable, queue, saving, left>>, dropped \subseteq dropped',
           SoundTo(storage', Size),
           \A q \in Params : q # p => load(storage', q) = load(storage, q),
           s.pc # "scan",
           s.pc \in Busy => s.p = p /\ (LiveAt(storage', s) \/ StaleAt(storage', s)),
           \/ p \in dropped' \/ load(storage', p) = value[p] \/ Waiting(p)
           \/ s.pc \in Busy /\ LiveAt(storage', s),
           s.pc = "header" /\ LiveAt(storage', s) =>
               p \in dropped' \/ Holds(storage', s.ofs, p, value[p]) \/ Waiting(p)
    PROVE  PInv' /\ \A u \in Threads : u # t => saver'[u] = saver[u]
<1>0. PTypes /\ DOMAIN saver = Threads BY SaverFacts DEF PInv
<1>1. saver'[t] = s /\ \A u \in Threads : u # t => saver'[u] = saver[u] /\ saver[u] = Done
  BY <1>0, OtherDone
<1>2. PTypes'
  <2>1. saver' \in [Threads -> {Done} \cup [pc : Busy \cup {"scan"}, p : Params, ofs : Cells]]
    BY <1>0 DEF PTypes, States
  <2> QED BY <2>1, <1>0 DEF PTypes
<1>3. saver'["io"] = Done \/ saver'["ftp"] = Done BY <1>1 DEF Threads
<1>4. \A u \in Threads : u # t => /\ saver'[u].pc \notin Busy \cup {"scan"}
                                  /\ saver[u].pc \notin Busy \cup {"scan"}
  BY <1>0, <1>1, SaverFacts
<1>5. SaversOK' BY <1>1, <1>4 DEF SaversOK
<1>6. \A q : Waiting(q)' <=> Waiting(q) BY DEF Waiting
<1>7. NoneLate'
  <2> SUFFICES ASSUME NEW u \in Threads, NEW q, q = saver'[u].p, saver'[u].pc = "header",
                      q \notin dropped', LiveAt(storage', saver'[u])
               PROVE  Holds(storage', saver'[u].ofs, q, value[q]) \/ Waiting(q)
    BY <1>6 DEF NoneLate
  <2>1. u = t BY <1>4 DEF Busy
  <2>2. q = p BY <2>1, <1>1 DEF Busy
  <2> QED BY <2>1, <2>2, <1>1
<1>8. ASSUME NEW q, q # p PROVE ~Written(q) BY <1>4, <1>8 DEF Written
<1>9. s.pc \in Busy /\ LiveAt(storage', s) => Written(p)' BY <1>1 DEF Written
<1>10. Kept'
  <2> SUFFICES ASSUME NEW q \in Params, q \notin dropped'
               PROVE  load(storage', q) = value[q] \/ Waiting(q) \/ Written(q)'
    BY <1>6 DEF Kept
  <2>1. CASE q = p BY <2>1, <1>9
  <2>2. CASE q # p BY <2>2, <1>8 DEF PInv, Kept
  <2> QED BY <2>1, <2>2
<1>11. SoundTo(storage, Size)' /\ SoundTo(durable, FirstLine)' BY DEF PInv
<1> QED BY <1>1, <1>2, <1>3, <1>5, <1>7, <1>10, <1>11 DEF PInv

\* scan() ends, and save_sync() knows what to do.
LEMMA ScanKeeps ==
    ASSUME PInv, NEW t \in Threads, Scan(t)
    PROVE  /\ PInv' /\ \A u \in Threads : u # t => saver'[u] = saver[u]
           /\ \A q \in Params : q # saver[t].p => load(storage', q) = load(storage, q)
<1>0. PTypes /\ SoundTo(storage, Size) /\ Size \in Nat BY SizeFacts DEF PInv
<1>1. saver[t].pc = "scan" BY DEF Scan, At
<1>2. PICK p \in Params : p = saver[t].p BY <1>0, <1>1, SaverFacts
<1>3. PICK o : o = scan(storage, p) OBVIOUS
<1>4. PICK plan : plan = Plan(t, p, o) OBVIOUS
<1>5. PICK s : s = IF plan \in {"skip", "full"} THEN Done ELSE [pc |-> plan, p |-> p, ofs |-> o]
  OBVIOUS
<1>6. /\ saver' = [saver EXCEPT ![t] = s]
      /\ dropped' = IF plan = "full" THEN dropped \cup {p} ELSE dropped
      /\ value' = value /\ storage' = storage /\ durable' = durable /\ queue' = queue
      /\ saving' = saving /\ left' = left
  BY <1>2, <1>3, <1>4, <1>5 DEF Scan
<1>7. CASE Found(storage, p) # {}
  <2>1. PICK x \in Found(storage, p) : TRUE BY <1>7
  <2>2. Found(storage, p) = {x} /\ x \in Nat /\ x \in Cells /\ x < Size /\ storage[x] = Header(p)
    BY <1>0, SoundFacts, FoundIs, PlaceFacts, SMT
  <2>3. First({x}) = x BY <2>2, SMT DEF First
  <2>4. o = x BY <2>2, <2>3, <1>3 DEF scan
  <2>5. plan = "update" BY <2>2, <2>4, <1>4 DEF Plan, IsAt
  <2>6. s = [pc |-> "update", p |-> p, ofs |-> o] BY <2>5, <1>5
  <2>7. s \in States /\ s.pc = "update" /\ s.p = p BY <2>2, <2>4, <2>6 DEF States, Busy
  <2>8. LiveAt(storage', s) BY <2>2, <2>4, <2>6, <1>6 DEF LiveAt
  <2>9. dropped' = dropped BY <2>5, <1>6
  <2> QED BY <2>7, <2>8, <2>9, <1>0, <1>1, <1>2, <1>6, StepKeeps DEF Busy
<1>8. CASE Found(storage, p) = {}
  <2>1. o = End(storage) BY <1>8, <1>3 DEF scan
  <2>2. o \in Cells /\ o \in Nat /\ o < Size /\ is_sentinel(storage[o])
    BY <2>1, <1>0, SoundFacts, SMT DEF Cells
  <2>3. ~IsAt(o, p) BY <2>2, CellFacts, SMT DEF IsAt
  <2>4. \/ plan = "skip" /\ AtDefault(t, p)
        \/ plan = "full"
        \/ plan = "sentinel" /\ Room(o, p)
    BY <2>2, <2>3, <1>0, <1>4 DEF Plan
  <2>5. CASE plan = "skip" /\ AtDefault(t, p)
    <3>1. s = Done BY <2>5, <1>5
    <3>2. load(storage', p) = value[p] BY <2>5, <1>6, <1>8 DEF load, AtDefault
    <3>3. s \in States /\ s.pc \notin Busy /\ s.pc # "scan" BY <3>1, <1>0, SaverFacts DEF States
    <3>4. dropped' = dropped BY <2>5, <1>6
    <3> QED BY <3>2, <3>3, <3>4, <1>0, <1>1, <1>2, <1>6, StepKeeps DEF Busy
  <2>6. CASE plan = "full"
    <3>1. s = Done BY <2>6, <1>5
    <3>2. p \in dropped' /\ dropped \subseteq dropped' BY <2>6, <1>6
    <3>3. s \in States /\ s.pc \notin Busy /\ s.pc # "scan" BY <3>1, <1>0, SaverFacts DEF States
    <3> QED BY <3>2, <3>3, <1>0, <1>1, <1>2, <1>6, StepKeeps DEF Busy
  <2>7. CASE plan = "sentinel" /\ Room(o, p)
    <3>1. s = [pc |-> "sentinel", p |-> p, ofs |-> o] BY <2>7, <1>5
    <3>2. s \in States /\ s.pc = "sentinel" /\ s.p = p BY <2>2, <3>1 DEF States, Busy
    <3>3. LiveAt(storage', s) BY <2>1, <2>7, <3>1, <1>6, <1>8 DEF LiveAt
    <3>4. dropped' = dropped BY <2>7, <1>6
    <3> QED BY <3>2, <3>3, <3>4, <1>0, <1>1, <1>2, <1>6, StepKeeps DEF Busy
  <2> QED BY <2>4, <2>5, <2>6, <2>7
<1> QED BY <1>7, <1>8

\* What is behind the end of the list for a save_sync() that is adding a variable, or for
\* one in an erased storage.
LEMMA WhereItWrites ==
    ASSUME PInv, NEW t \in Threads, saver[t].pc \in Busy, NEW s, s = saver[t]
    PROVE  /\ s.p \in Params /\ s.ofs \in Cells /\ s.ofs \in Nat /\ End(storage) \in Nat
           /\ LiveAt(storage, s) \/ StaleAt(storage, s)
           /\ StaleAt(storage, s) => End(storage) = 0 /\ (s.pc # "update" => s.ofs > 0)
           /\ LiveAt(storage, s) /\ s.pc # "update" =>
                 /\ s.ofs = End(storage) /\ Found(storage, s.p) = {}
                 /\ s.ofs + type_size(s.p) + 2 < Size
<1>1. s.p \in Params /\ s.ofs \in Cells BY SaverFacts DEF PInv
<1>2. s.ofs \in Nat /\ End(storage) \in Nat BY <1>1, PlaceFacts, ReachFacts, SMT DEF Cells
<1>3. LiveAt(storage, s) \/ StaleAt(storage, s) BY DEF PInv, SaversOK
<1>4. StaleAt(storage, s) => End(storage) = 0 /\ (s.pc # "update" => s.ofs > 0)
  BY EmptyList DEF StaleAt
<1>5. LiveAt(storage, s) /\ s.pc # "update" =>
                 /\ s.ofs = End(storage) /\ Found(storage, s.p) = {}
                 /\ s.ofs + type_size(s.p) + 2 < Size
  BY DEF LiveAt, Room, Busy
<1> QED BY <1>1, <1>2, <1>3, <1>4, <1>5

\* A save_sync() in an erased storage has nothing to do with its parameter any more.
LEMMA StaleKept ==
    ASSUME PInv, NEW t \in Threads, saver[t].pc \in Busy, NEW p, p = saver[t].p,
           StaleAt(storage, saver[t])
    PROVE  p \in dropped \/ load(storage, p) = value[p] \/ Waiting(p)
<1>1. PICK s : s = saver[t] OBVIOUS
<1>2. p \in Params /\ End(storage) = 0 /\ s.ofs \in Nat
  BY <1>1, WhereItWrites
<1>3. ~LiveAt(storage, s)
  <2>1. Found(storage, s.p) = {} BY <1>1, EmptyList DEF StaleAt
  <2>2. s.pc # "update" => s.ofs > 0 BY <1>1 DEF StaleAt
  <2> QED BY <2>1, <2>2, <1>1, <1>2, SMT DEF LiveAt, Busy
<1>4. ~Written(p)
  <2> SUFFICES ASSUME NEW u \in Threads, saver[u].p = p, saver[u].pc \in Busy \cup {"scan"},
                      saver[u].pc # "scan" => LiveAt(storage, saver[u])
               PROVE  FALSE
    BY DEF Written
  <2>1. u = t BY OtherDone, SaverFacts DEF PInv
  <2>2. saver[t].pc # "scan" BY SaverFacts DEF PInv
  <2> QED BY <2>1, <2>2, <1>1, <1>3
<1> QED BY <1>2, <1>4 DEF PInv, Kept

\* What a write behind the end of the list leaves as it was.
LEMMA BehindEnd ==
    ASSUME PInv, NEW C, NEW x, \A c \in C : c \in Nat /\ c > End(storage),
           storage' = [c \in Cells |-> IF c \in C THEN x ELSE storage[c]]
    PROVE  /\ SoundTo(storage', Size) /\ End(storage') = End(storage)
           /\ \A q : Found(storage', q) = Found(storage, q)
           /\ \A q \in Params : load(storage', q) = load(storage, q)
           /\ storage'[0] = storage[0]
<1>0. SoundTo(storage, Size) /\ Size \in Nat \ {0} BY SizeFacts DEF PInv
<1>1. End(storage) \in Cells /\ End(storage) \in Nat BY <1>0, SoundFacts, SMT DEF Cells
<1>2. ASSUME NEW c \in 0 .. End(storage) PROVE storage'[c] = storage[c]
  <2>1. c \in Cells /\ c \notin C BY <1>0, <1>1, SMT DEF Cells
  <2> QED BY <2>1
<1>3. /\ SoundTo(storage', Size) /\ End(storage') = End(storage)
      /\ \A q : Found(storage', q) = Found(storage, q)
      /\ \A q \in Params : load(storage', q) = load(storage, q)
  BY <1>0, <1>2, WriteBehind
<1> QED BY <1>1, <1>2, <1>3, SMT

\* The sentinel is written behind where the variable is going to be.
LEMMA SentinelKeeps ==
    ASSUME PInv, NEW t \in Threads, write_sentinel(t)
    PROVE  /\ PInv' /\ \A u \in Threads : u # t => saver'[u] = saver[u]
           /\ \A q \in Params : q # saver[t].p => load(storage', q) = load(storage, q)
<1>0. PTypes /\ Size \in Nat \ {0} BY SizeFacts DEF PInv
<1>1. saver[t].pc = "sentinel" BY DEF write_sentinel, At
<1>2. saver[t].pc \in Busy BY <1>1 DEF Busy
<1>3. PICK s : s = saver[t] OBVIOUS
<1>4. PICK r : r = [s EXCEPT !.pc = "data"] OBVIOUS
<1>5. PICK p : p = s.p OBVIOUS
<1>6. s \in [pc : Busy \cup {"scan"}, p : Params, ofs : Cells]
  BY <1>0, <1>2, <1>3, SaverFacts DEF PTypes
<1>7. r \in States /\ r.pc = "data" /\ r.p = p /\ r.ofs = s.ofs
  BY <1>4, <1>5, <1>6 DEF States, Busy
<1>8. /\ saver' = [saver EXCEPT ![t] = r]
      /\ value' = value /\ durable' = durable /\ queue' = queue /\ saving' = saving
      /\ dropped' = dropped /\ left' = left
  BY <1>3, <1>4, <1>0 DEF write_sentinel, Goto, PTypes
<1>9. PICK z : z = s.ofs + 1 + type_size(p) OBVIOUS
<1>10. storage' = [c \in Cells |-> IF c \in {z} THEN Sentinel ELSE storage[c]]
  BY <1>3, <1>5, <1>9 DEF write_sentinel, eeprom_write_check
<1>11. /\ p \in Params /\ s.ofs \in Nat /\ End(storage) \in Nat
       /\ LiveAt(storage, s) \/ StaleAt(storage, s)
       /\ StaleAt(storage, s) => End(storage) = 0 /\ s.ofs > 0
       /\ LiveAt(storage, s) => /\ s.ofs = End(storage) /\ Found(storage, p) = {}
                                /\ s.ofs + type_size(p) + 2 < Size
  BY <1>1, <1>2, <1>3, <1>5, WhereItWrites
<1>12. z \in Nat /\ z > End(storage) BY <1>9, <1>11, SizeFacts, SMT
<1>13. /\ SoundTo(storage', Size) /\ End(storage') = End(storage)
       /\ \A q : Found(storage', q) = Found(storage, q)
       /\ \A q \in Params : load(storage', q) = load(storage, q)
       /\ storage'[0] = storage[0]
  <2>1. PICK C : C = {z} OBVIOUS
  <2>2. \A c \in C : c \in Nat /\ c > End(storage) BY <2>1, <1>12
  <2>3. storage' = [c \in Cells |-> IF c \in C THEN Sentinel ELSE storage[c]] BY <2>1, <1>10
  <2> QED BY <2>2, <2>3, BehindEnd
<1>14. CASE LiveAt(storage, s)
  <2>1. z \in Cells BY <1>9, <1>11, <1>12, <1>14, <1>0, SizeFacts, SMT DEF Cells
  <2>2. storage'[r.ofs + 1 + type_size(r.p)] = Sentinel BY <2>1, <1>7, <1>9, <1>10
  <2>3. LiveAt(storage', r) BY <2>2, <1>7, <1>11, <1>13, <1>14 DEF LiveAt, Room
  <2>4. r.pc \in Busy BY <1>7 DEF Busy
  <2> QED BY <2>3, <2>4, <1>2, <1>3, <1>5, <1>7, <1>8, <1>13, StepKeeps
<1>15. CASE StaleAt(storage, s)
  <2>1. StaleAt(storage', r) BY <1>7, <1>11, <1>13, <1>15 DEF StaleAt
  <2>2. p \in dropped \/ load(storage, p) = value[p] \/ Waiting(p)
    BY <1>2, <1>3, <1>5, <1>15, StaleKept
  <2> QED BY <2>1, <2>2, <1>2, <1>3, <1>5, <1>7, <1>8, <1>11, <1>13, StepKeeps
<1> QED BY <1>11, <1>14, <1>15

\* The data is written, with the value of now.
LEMMA DataKeeps ==
    ASSUME PInv, NEW t \in Threads, WriteData(t)
    PROVE  /\ PInv' /\ \A u \in Threads : u # t => saver'[u] = saver[u]
           /\ \A q \in Params : q # saver[t].p => load(storage', q) = load(storage, q)
<1>0. PTypes /\ Size \in Nat \ {0} BY SizeFacts DEF PInv
<1>1. saver[t].pc \in {"data", "update"} BY DEF WriteData, At
<1>2. saver[t].pc \in Busy BY <1>1 DEF Busy
<1>3. PICK s : s = saver[t] OBVIOUS
<1>4. PICK r : r = IF s.pc = "data" THEN [s EXCEPT !.pc = "header"] ELSE Done OBVIOUS
<1>5. PICK p : p = s.p OBVIOUS
<1>6. s \in [pc : Busy \cup {"scan"}, p : Params, ofs : Cells]
  BY <1>0, <1>2, <1>3, SaverFacts DEF PTypes
<1>7. /\ r \in States /\ r.pc # "scan"
      /\ s.pc = "data" => r.pc = "header" /\ r.p = p /\ r.ofs = s.ofs
      /\ s.pc = "update" => r.pc \notin Busy
  BY <1>4, <1>5, <1>6 DEF States, Busy, Done
<1>8. /\ saver' = [saver EXCEPT ![t] = r]
      /\ value' = value /\ durable' = durable /\ queue' = queue /\ saving' = saving
      /\ dropped' = dropped /\ left' = left
  <2>1. IF s.pc = "data" THEN Goto(t, "header") ELSE Leave(t) BY <1>3 DEF WriteData, At
  <2>2. saver' = [saver EXCEPT ![t] = r] BY <2>1, <1>0, <1>3, <1>4 DEF Goto, Leave, PTypes
  <2> QED BY <2>2 DEF WriteData
<1>9. PICK v \in ParamValues : v = value[p] BY <1>0, <1>5, <1>6 DEF PTypes
<1>10. storage' = [c \in Cells |-> IF c \in s.ofs + 1 .. s.ofs + type_size(p)
                                  THEN Word(p, v) ELSE storage[c]]
  BY <1>3, <1>5, <1>9 DEF WriteData, eeprom_write_check
<1>11. /\ p \in Params /\ s.ofs \in Nat /\ End(storage) \in Nat
       /\ LiveAt(storage, s) \/ StaleAt(storage, s)
       /\ StaleAt(storage, s) => End(storage) = 0 /\ (s.pc # "update" => s.ofs > 0)
       /\ LiveAt(storage, s) /\ s.pc # "update" =>
             /\ s.ofs = End(storage) /\ Found(storage, p) = {}
             /\ s.ofs + type_size(p) + 2 < Size
  BY <1>2, <1>3, <1>5, WhereItWrites
<1>12. CASE LiveAt(storage, s) /\ s.pc = "update"
  <2>1. s.ofs \in Found(storage, p) BY <1>5, <1>12 DEF LiveAt
  <2>2. /\ SoundTo(storage', Size)
        /\ \A q \in Params : load(storage', q) = IF q = p THEN v ELSE load(storage, q)
    <3>1. SoundTo(storage, Size) BY DEF PInv
    <3> QED BY <2>1, <3>1, <1>9, <1>10, <1>11, WriteVariable, SMT
  <2>3. r.pc \notin Busy BY <1>7, <1>12
  <2>4. r.pc # "header" BY <2>3 DEF Busy
  <2> QED BY <2>2, <2>3, <2>4, <1>2, <1>3, <1>5, <1>7, <1>8, <1>9, <1>11, StepKeeps
<1>13. CASE ~(LiveAt(storage, s) /\ s.pc = "update")
  <2>0. s.pc = "data" \/ s.pc = "update" BY <1>1, <1>3
  <2>1. \A c \in s.ofs + 1 .. s.ofs + type_size(p) : c \in Nat /\ c > End(storage)
    BY <1>11, <1>13, SizeFacts, SMT
  <2>2. /\ SoundTo(storage', Size) /\ End(storage') = End(storage)
        /\ \A q : Found(storage', q) = Found(storage, q)
        /\ \A q \in Params : load(storage', q) = load(storage, q)
        /\ storage'[0] = storage[0]
    BY <2>1, <1>10, BehindEnd
  <2>3. CASE LiveAt(storage, s)
    <3>0. s.pc = "data" BY <2>0, <2>3, <1>13
    <3>1. \A c \in s.ofs + 1 .. s.ofs + type_size(p) : c \in Cells /\ c < Size
      BY <3>0, <2>3, <1>11, <1>0, SizeFacts, SMT DEF Cells
    <3>2. Holds(storage', s.ofs, p, v) BY <3>1, <1>10 DEF Holds
    <3>3. /\ s.ofs + 1 + type_size(p) \in Cells
          /\ s.ofs + 1 + type_size(p) \notin s.ofs + 1 .. s.ofs + type_size(p)
      BY <3>0, <2>3, <1>11, <1>0, SizeFacts, SMT DEF Cells
    <3>4. storage'[s.ofs + 1 + type_size(p)] = storage[s.ofs + 1 + type_size(p)]
      BY <3>3, <1>10
    <3>5. storage'[s.ofs + 1 + type_size(p)] = Sentinel BY <3>0, <3>4, <2>3, <1>5 DEF LiveAt
    <3>6. r.pc = "header" /\ r.p = p /\ r.ofs = s.ofs BY <3>0, <1>7
    <3>7. LiveAt(storage', r) BY <3>0, <3>2, <3>5, <3>6, <2>2, <2>3, <1>9, <1>11 DEF LiveAt, Room
    <3>8. r.pc \in Busy BY <3>6 DEF Busy
    <3> QED BY <3>2, <3>6, <3>7, <3>8, <2>2, <1>2, <1>3, <1>5, <1>7, <1>8, <1>9, StepKeeps
  <2>4. CASE StaleAt(storage, s) /\ ~LiveAt(storage, s)
    <3>1. p \in dropped \/ load(storage, p) = value[p] \/ Waiting(p)
      BY <1>2, <1>3, <1>5, <2>4, StaleKept
    <3>2. r.pc \in Busy => r.p = p /\ StaleAt(storage', r)
      BY <2>0, <2>2, <2>4, <1>7, <1>11 DEF StaleAt
    <3>3. r.pc = "header" => ~LiveAt(storage', r)
      <4> SUFFICES ASSUME r.pc = "header", LiveAt(storage', r) PROVE FALSE OBVIOUS
      <4>1. s.pc = "data" BY <2>0, <1>7 DEF Busy
      <4>2. r.ofs > 0 /\ r.ofs = End(storage') BY <4>1, <2>4, <1>7, <1>11 DEF LiveAt
      <4> QED BY <4>2, <2>2, <2>4, <1>11, SMT
    <3> QED BY <3>1, <3>2, <3>3, <2>2, <1>2, <1>3, <1>5, <1>7, <1>8, <1>11, StepKeeps
  <2> QED BY <2>3, <2>4, <1>11
<1> QED BY <1>12, <1>13

\* The header is written, which adds the variable to the list.
LEMMA HeaderKeeps ==
    ASSUME PInv, NEW t \in Threads, WriteHeader(t)
    PROVE  /\ PInv' /\ \A u \in Threads : u # t => saver'[u] = saver[u]
           /\ \A q \in Params : q # saver[t].p => load(storage', q) = load(storage, q)
<1>0. PTypes /\ Size \in Nat \ {0} BY SizeFacts DEF PInv
<1>1. saver[t].pc = "header" BY DEF WriteHeader, At
<1>2. saver[t].pc \in Busy BY <1>1 DEF Busy
<1>3. PICK s : s = saver[t] OBVIOUS
<1>4. PICK r : r = Done OBVIOUS
<1>5. PICK p : p = s.p OBVIOUS
<1>6. r \in States /\ r.pc # "scan" /\ r.pc # "header" /\ r.pc \notin Busy
  BY <1>4 DEF States, Busy, Done
<1>7. /\ saver' = [saver EXCEPT ![t] = r]
      /\ value' = value /\ durable' = durable /\ queue' = queue /\ saving' = saving
      /\ dropped' = dropped /\ left' = left
  BY <1>4 DEF WriteHeader, Leave
<1>8. storage' = [c \in Cells |-> IF c \in {s.ofs} THEN Header(p) ELSE storage[c]]
  BY <1>3, <1>5 DEF WriteHeader, eeprom_write_check
<1>9. /\ p \in Params /\ s.ofs \in Nat /\ s.ofs \in Cells /\ End(storage) \in Nat
      /\ LiveAt(storage, s) \/ StaleAt(storage, s)
      /\ StaleAt(storage, s) => End(storage) = 0 /\ s.ofs > 0
      /\ LiveAt(storage, s) => /\ s.ofs = End(storage) /\ Found(storage, p) = {}
                               /\ s.ofs + type_size(p) + 2 < Size
  BY <1>1, <1>2, <1>3, <1>5, WhereItWrites
<1>10. CASE LiveAt(storage, s)
  <2>1. /\ storage[End(storage) + 1 + type_size(p)] = Sentinel
        /\ \E v \in ParamValues : Holds(storage, End(storage), p, v)
    BY <1>1, <1>3, <1>5, <1>9, <1>10 DEF LiveAt
  <2>2. /\ storage'[End(storage)] = Header(p)
        /\ \A c \in Cells : c # End(storage) => storage'[c] = storage[c]
    BY <1>8, <1>9, <1>10
  <2>3. SoundTo(storage, Size) /\ Found(storage, p) = {} /\ End(storage) + 1 + type_size(p) < Size
    BY <1>0, <1>9, <1>10, SizeFacts, SMT DEF PInv
  <2>4. ASSUME NEW v \in ParamValues, Holds(storage, End(storage), p, v)
        PROVE  /\ SoundTo(storage', Size)
               /\ \A q \in Params : load(storage', q) = IF q = p THEN v ELSE load(storage, q)
    BY <2>1, <2>2, <2>3, <2>4, <1>9, AddVariable, SMT
  <2>5. /\ SoundTo(storage', Size)
        /\ \A q \in Params : q # p => load(storage', q) = load(storage, q)
    BY <2>1, <2>4
  <2>6. p \in dropped \/ Holds(storage, End(storage), p, value[p]) \/ Waiting(p)
    BY <1>1, <1>3, <1>5, <1>9, <1>10 DEF PInv, NoneLate
  <2>7. value[p] \in ParamValues BY <1>0, <1>9 DEF PTypes
  <2>8. p \in dropped \/ load(storage', p) = value[p] \/ Waiting(p) BY <2>4, <2>6, <2>7, <1>9
  <2> QED BY <2>5, <2>8, <1>2, <1>3, <1>5, <1>6, <1>7, StepKeeps
<1>11. CASE StaleAt(storage, s)
  <2>1. PICK C : C = {s.ofs} OBVIOUS
  <2>2. /\ SoundTo(storage', Size) /\ \A q \in Params : load(storage', q) = load(storage, q)
    <3>1. \A c \in C : c \in Nat /\ c > End(storage) BY <2>1, <1>9, <1>11
    <3>2. storage' = [c \in Cells |-> IF c \in C THEN Header(p) ELSE storage[c]] BY <2>1, <1>8
    <3> QED BY <3>1, <3>2, BehindEnd
  <2>3. p \in dropped \/ load(storage, p) = value[p] \/ Waiting(p)
    BY <1>2, <1>3, <1>5, <1>11, StaleKept
  <2> QED BY <2>2, <2>3, <1>2, <1>3, <1>5, <1>6, <1>7, <1>9, StepKeeps
<1> QED BY <1>9, <1>10, <1>11

-----------------------------------------------------------------------------
(* Parameters: storage, power and the theorems                             *)

\* A line becomes durable.
LEMMA FlushKeeps ==
    ASSUME PInv, NEW l \in StorageLines, Flush(l)
    PROVE  PInv'
<1>0. /\ Size \in Nat \ {0} /\ FirstLine \in 0 .. Size /\ LineLen \in Nat \ {0}
      /\ FirstLine = (IF LineLen < Size THEN LineLen ELSE Size)
  BY SizeFacts, LineFacts, SMT DEF FirstLine
<1>1. /\ durable' = [c \in Cells |-> IF c \in CellsOf(l) THEN storage[c] ELSE durable[c]]
      /\ value' = value /\ storage' = storage /\ queue' = queue /\ saving' = saving
      /\ saver' = saver /\ dropped' = dropped /\ left' = left
  BY DEF Flush
<1>2. \A c \in 0 .. FirstLine - 1 : c \in Cells /\ c \div LineLen = 0
  BY <1>0, LineFacts, SMT DEF Cells
<1>3. SoundTo(durable', FirstLine)
  <2>1. CASE l = 0
    <3>1. \A c \in 0 .. FirstLine - 1 : durable'[c] = storage[c] BY <2>1, <1>1, <1>2 DEF CellsOf
    <3>2. SoundTo(storage, FirstLine) BY <1>0, SoundShorter DEF PInv
    <3> QED BY <3>1, <3>2, <1>0, SoundPrefix
  <2>2. CASE l # 0
    <3>1. \A c \in 0 .. FirstLine - 1 : durable'[c] = durable[c] BY <2>2, <1>1, <1>2 DEF CellsOf
    <3>2. SoundTo(durable, FirstLine) BY DEF PInv
    <3> QED BY <3>1, <3>2, <1>0, SoundPrefix
  <2> QED BY <2>1, <2>2
<1>4. PTypes' BY <1>1 DEF PInv, PTypes
<1>5. SaversOK' BY <1>1 DEF PInv, SaversOK
<1>6. /\ \A p : (Waiting(p)' <=> Waiting(p)) /\ (Written(p)' <=> Written(p))
  BY <1>1 DEF Waiting, Written
<1>7. Kept' BY <1>1, <1>6 DEF PInv, Kept
<1>8. NoneLate' BY <1>1, <1>6 DEF PInv, NoneLate
<1>9. SoundTo(storage, Size)' /\ SoundTo(durable, FirstLine)' BY <1>1, <1>3 DEF PInv
<1>10. saver'["io"] = Done \/ saver'["ftp"] = Done BY <1>1 DEF PInv
<1> QED BY <1>4, <1>5, <1>7, <1>8, <1>9, <1>10 DEF PInv

\* Power fails at a moment at which no variable is durable in part.
LEMMA PowerKeeps ==
    ASSUME PInv, harm' = {}, PowerFails
    PROVE  PInv'
<1>1. /\ ~Straddles /\ storage' = durable /\ durable' = durable
      /\ value' = [p \in Params |-> load(durable, p)] /\ queue' = <<>> /\ saving' = NoParam
      /\ saver' = [t \in Threads |-> Done] /\ left' = [left EXCEPT !.crashes = @ - 1]
  BY DEF PowerFails
<1>2. SoundTo(durable, Size) BY <1>1, DurableSound DEF PInv
<1>3. PTypes'
  <2>1. value' \in [Params -> ParamValues] BY <1>1, <1>2, LoadType
  <2>2. queue' \in Seq(Params) BY <1>1, SMT
  <2>3. left' \in [sets : Int, erases : Int, crashes : Int] BY <1>1, SMTT(20) DEF PInv, PTypes
  <2> QED BY <2>1, <2>2, <2>3, <1>1 DEF PTypes
<1>4. \A t \in Threads : saver'[t] = Done /\ saver'[t].pc \notin Busy
  BY <1>1 DEF Done, Busy
<1>5. SaversOK' BY <1>4 DEF SaversOK
<1>6. NoneLate' BY <1>4 DEF NoneLate, Busy
<1>7. Kept' BY <1>1 DEF Kept
<1>8. SoundTo(storage, Size)' /\ SoundTo(durable, FirstLine)' BY <1>1, <1>2 DEF PInv
<1>9. saver'["io"] = Done BY <1>4 DEF Threads
<1> QED BY <1>3, <1>5, <1>6, <1>7, <1>8, <1>9 DEF PInv

\* No step undoes harm.
LEMMA HarmStays ==
    ASSUME [ParamNext]_paramVars
    PROVE  harm \subseteq harm'
BY DEF ParamNext, paramVars, set, upload, save, erase_all, save_io_handler, NothingToSave,
       PowerFails, SaveSync, Scan, write_sentinel, WriteData, WriteHeader, Flush, save_sync

\* Every step that does no harm keeps the invariant.
LEMMA ParamStep ==
    ASSUME PInv, harm' = {}, [ParamNext]_paramVars
    PROVE  PInv'
<1>1. CASE UNCHANGED paramVars
  <2>1. /\ value' = value /\ storage' = storage /\ queue' = queue /\ saving' = saving
        /\ saver' = saver /\ dropped' = dropped /\ left' = left /\ durable' = durable
    BY <1>1 DEF paramVars
  <2>2. PTypes' BY <2>1 DEF PInv, PTypes
  <2>3. /\ \A p : (Waiting(p)' <=> Waiting(p)) /\ (Written(p)' <=> Written(p))
    BY <2>1 DEF Waiting, Written
  <2>4. SaversOK' BY <2>1 DEF PInv, SaversOK
  <2>5. Kept' BY <2>1, <2>3 DEF PInv, Kept
  <2>6. NoneLate' BY <2>1, <2>3 DEF PInv, NoneLate
  <2>7. SoundTo(storage, Size)' /\ SoundTo(durable, FirstLine)' BY <2>1 DEF PInv
  <2> QED BY <2>1, <2>2, <2>4, <2>5, <2>6, <2>7 DEF PInv
<1>2. ASSUME NEW p \in Params, NEW v \in ParamValues, set(p, v) PROVE PInv'
  BY <1>2, SetKeeps
<1>3. ASSUME NEW p \in Params, NEW v \in ParamValues, upload(p, v) PROVE PInv'
  BY <1>3, UploadKeeps
<1>4. CASE save BY <1>4, SaveKeeps
<1>5. CASE erase_all BY <1>5, EraseKeeps
<1>6. CASE save_io_handler BY <1>6, HandlerKeeps
<1>7. CASE NothingToSave BY <1>1, <1>7 DEF NothingToSave
<1>8. CASE PowerFails BY <1>8, PowerKeeps
<1>9. ASSUME NEW t \in Threads, SaveSync(t) PROVE PInv'
  BY <1>9, ScanKeeps, SentinelKeeps, DataKeeps, HeaderKeeps DEF SaveSync
<1>10. ASSUME NEW l \in StorageLines, Flush(l) PROVE PInv' BY <1>10, FlushKeeps
<1> QED BY <1>1, <1>2, <1>3, <1>4, <1>5, <1>6, <1>7, <1>8, <1>9, <1>10 DEF ParamNext

\* An empty storage.
LEMMA ParamInitially == ParamInit => PInv
<1> SUFFICES ASSUME ParamInit PROVE PInv OBVIOUS
<1>0. Size \in Nat \ {0} /\ 0 \in Cells BY SizeFacts, SMT DEF Cells
<1>1. storage[0] = Sentinel /\ durable = storage BY <1>0 DEF ParamInit
<1>2. is_sentinel(storage[0]) BY <1>1, CellFacts
<1>3. SoundTo(storage, Size) /\ SoundTo(durable, FirstLine) BY <1>1, <1>2, EmptyList
<1>4. \A p : load(storage, p) = 0 BY <1>2, EmptyList
<1>5. \A t \in Threads : saver[t] = Done /\ saver[t].pc \notin Busy BY DEF ParamInit, Done, Busy
<1>6. PTypes
  <2>1. value \in [Params -> ParamValues] BY ParamAssumption DEF ParamInit
  <2>2. left \in [sets : Int, erases : Int, crashes : Int] BY ParamAssumption, SMT DEF ParamInit
  <2>3. queue \in Seq(Params) /\ saving \in Params \cup {NoParam} BY SMT DEF ParamInit
  <2> QED BY <2>1, <2>2, <2>3 DEF ParamInit, PTypes
<1>7. SaversOK /\ NoneLate BY <1>5 DEF SaversOK, NoneLate, Busy
<1>8. Kept BY <1>4 DEF Kept, ParamInit
<1>9. saver["io"] = Done BY <1>5 DEF Threads
<1> QED BY <1>3, <1>6, <1>7, <1>8, <1>9 DEF PInv

\* What holds of every list that has come to no harm.
ParamSafe == harm = {} => PInv

\* The invariant, for any number of parameters, values, lines, changes and power failures.
THEOREM ParamInvariant == ParamSpec => []ParamSafe
<1>1. ParamInit => ParamSafe BY ParamInitially DEF ParamSafe
<1>2. ParamSafe /\ [ParamNext]_paramVars => ParamSafe'
  <2> SUFFICES ASSUME ParamSafe, [ParamNext]_paramVars, harm' = {} PROVE PInv'
    BY DEF ParamSafe
  <2>1. harm = {} BY HarmStays
  <2> QED BY <2>1, ParamStep DEF ParamSafe
<1> QED BY <1>1, <1>2, PTL DEF ParamSpec

\* scan() always gets to the sentinel, over sound variables, in a list that has come to no
\* harm by two threads in save_sync() or by a power failure.
THEOREM ListAlwaysSound == ParamSpec => []ListSound
<1>1. ParamSafe => ListSound
  <2> SUFFICES ASSUME SoundTo(storage, Size) PROVE Readable BY DEF ParamSafe, ListSound, PInv
  <2> QED BY SoundIsSound DEF Readable
<1> QED BY <1>1, ParamInvariant, PTL

\* When nothing is left to save, everything is saved, in a list that has come to no harm.
THEOREM AllAreSaved == ParamSpec => []AllSaved
<1>1. ParamSafe => AllSaved
  <2> SUFFICES ASSUME PInv, Resting, NEW p \in Params, p \notin dropped
               PROVE  load(storage, p) = value[p]
    BY DEF AllSaved, ParamSafe
  <2>1. ~Waiting(p) BY ParamAssumption, SMT DEF Resting, Waiting
  <2>2. ~Written(p) BY SMT DEF Resting, Written, Done, Busy
  <2> QED BY <2>1, <2>2 DEF PInv, Kept
<1> QED BY <1>1, ParamInvariant, PTL
=============================================================================
