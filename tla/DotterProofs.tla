----------------------------- MODULE DotterProofs -----------------------------
(***************************************************************************)
(* Proofs about Dotter: its types, and CountsConserved, for any finite     *)
(* numbers of clients and servers, any dots, and any number of counts and  *)
(* of failures.                                                            *)
(*                                                                         *)
(* CountsConserved relates sums over the members in redis, the clients and *)
(* the servers; the first part of the module is what the proof needs of    *)
(* SumFunction: the recursive function behind it exists, and a sum changes *)
(* by what one of its values changes (SumChanges).                         *)
(*                                                                         *)
(* The invariant, DotterInv, says in addition what a report is while it is *)
(* served (Served) and what a server knows of the dot it works on          *)
(* (Adding), and that a dot that is not disturbed has one member at most   *)
(* and one server at most, whose origin is that member until it is removed *)
(* (Undisturbed): without it a server could replace another count than the *)
(* one it has read.                                                        *)
(***************************************************************************)
EXTENDS Dotter, FiniteSetTheorems, NaturalsInduction, WellFoundedInduction, TLAPS

-----------------------------------------------------------------------------
(***************************************************************************)
(* Induction on numbers and on the subsets of a finite set.                *)
(***************************************************************************)
\* A set of numbers has a least one.
LEMMA LeastNumber ==
  ASSUME NEW S, S \subseteq Nat, S # {}
  PROVE  \E m \in S : \A n \in S : m <= n
<1> DEFINE Below == {x \in Nat \X Nat : x[1] < x[2]}
<1>1. IsWellFoundedOn(Below, Nat)
  BY NatLessThanWellFounded DEF OpToRel
<1>2. \A m, n \in Nat : n < m => <<n, m>> \in Below
  OBVIOUS
<1> HIDE DEF Below
<1>3. PICK m \in S : \A n \in S : <<n, m>> \notin Below
  BY <1>1, WFMin
<1>4. \A n \in S : ~(n < m)
  BY <1>2, <1>3
<1>5. \A n \in S : m <= n
  BY <1>4
<1> QED BY <1>5

\* A set that has 0 and each successor of its numbers has all numbers.
LEMMA NumberInduction ==
  ASSUME NEW S, 0 \in S, \A n \in Nat : n \in S => n + 1 \in S
  PROVE  \A n \in Nat : n \in S
<1> DEFINE Others == Nat \ S
<1> SUFFICES ASSUME Others # {} PROVE FALSE
  OBVIOUS
<1>1. \A n \in Others : n \in Nat /\ n \notin S
  OBVIOUS
<1>2. Others \subseteq Nat /\ \A n \in Nat : n \notin S => n \in Others
  OBVIOUS
<1> HIDE DEF Others
<1>3. PICK m \in Others : \A n \in Others : m <= n
  BY <1>2, LeastNumber
<1>4. m # 0 /\ m - 1 \in Nat
  BY <1>1, <1>3
<1>5. m - 1 \in S
  BY <1>2, <1>3, <1>4
<1> QED BY <1>1, <1>3, <1>4, <1>5

\* What holds of a subset of S when it holds of the subset without each of its
\* elements holds of all subsets of S.
LEMMA SubsetInduction ==
  ASSUME NEW S, IsFiniteSet(S), NEW G,
         \A T \in SUBSET S : (\A x \in T : T \ {x} \in G) => T \in G
  PROVE  \A T \in SUBSET S : T \in G
<1> DEFINE Others == {T \in SUBSET S : T \notin G}
<1> SUFFICES ASSUME Others # {} PROVE FALSE
  OBVIOUS
<1>1. \A T \in Others : T \in SUBSET S /\ T \notin G
  OBVIOUS
<1>2. \A T \in SUBSET S : T \notin G => T \in Others
  OBVIOUS
<1>3. Others \subseteq FiniteSubsetsOf(S)
  BY FS_FiniteSubsetsOfFinite
<1> HIDE DEF Others
<1>4. PICK T \in Others : \A U \in Others : <<U, T>> \notin StrictSubsetOrdering(S)
  BY <1>3, FS_StrictSubsetOrderingWellFounded, WFMin
<1>5. ASSUME NEW x \in T PROVE T \ {x} \in G
  <2>1. T \ {x} \in SUBSET S /\ T \in SUBSET S /\ T \ {x} # T
    BY <1>1, <1>4
  <2>2. <<T \ {x}, T>> \in StrictSubsetOrdering(S)
    BY <2>1 DEF StrictSubsetOrdering
  <2> QED BY <1>2, <1>4, <2>1, <2>2
<1> QED BY <1>1, <1>4, <1>5

-----------------------------------------------------------------------------
(***************************************************************************)
(* Sums.                                                                   *)
(***************************************************************************)

\* One step of the recursive function in SumFunctionOnSet, and the function.
Pick(s) == CHOOSE x \in s : TRUE
Step(g, f, s) == IF s = {} THEN 0 ELSE f[Pick(s)] + g[s \ {Pick(s)}]
Follows(g, f, F) == g = [s \in F |-> Step(g, f, s)]

LEMMA PickIsIn == \A s : s # {} => Pick(s) \in s
BY DEF Pick

LEMMA SumIsChosen ==
  ASSUME NEW f, NEW S
  PROVE  SumFunctionOnSet(f, S) = (CHOOSE g : Follows(g, f, SUBSET S))[S]
BY DEF SumFunctionOnSet, FoldFunctionOnSet, MapThenFoldSet, Step, Follows, Pick

\* The function exists: on the sets of at most n elements, for each n.
LEMMA SumExists ==
  ASSUME NEW f, NEW S, IsFiniteSet(S)
  PROVE  \E g : Follows(g, f, SUBSET S)
<1> DEFINE D(n) == {T \in SUBSET S : Cardinality(T) <= n}
           Defined == {n \in Nat : \E g : Follows(g, f, D(n))}
<1>0. \A T \in SUBSET S : IsFiniteSet(T) /\ Cardinality(T) \in Nat
  BY FS_Subset, FS_CardinalityType
<1>1. 0 \in Defined
  <2> DEFINE g == [s \in D(0) |-> 0]
  <2>1. \A s \in D(0) : s = {}
    BY <1>0, FS_EmptySet
  <2>2. Follows(g, f, D(0))
    BY <2>1 DEF Follows, Step
  <2> QED BY <2>2
<1>2. ASSUME NEW n \in Nat, n \in Defined PROVE n + 1 \in Defined
  <2>1. PICK g : Follows(g, f, D(n))
    BY <1>2
  <2> DEFINE h == [s \in D(n + 1) |-> Step(g, f, s)]
  <2>2. \A s \in D(n) : s \in D(n + 1)
    BY <1>0
  <2>3. \A s \in D(n) : g[s] = h[s]
    BY <2>1, <2>2 DEF Follows
  <2>4. ASSUME NEW s \in D(n + 1), s # {} PROVE s \ {Pick(s)} \in D(n)
    <3>1. Pick(s) \in s /\ s \in SUBSET S /\ Cardinality(s) <= n + 1
      BY <2>4, PickIsIn
    <3>2. Cardinality(s \ {Pick(s)}) = Cardinality(s) - 1
      BY <1>0, <3>1, FS_RemoveElement
    <3>3. Cardinality(s \ {Pick(s)}) <= n /\ s \ {Pick(s)} \in SUBSET S
      BY <1>0, <3>1, <3>2
    <3> QED BY <3>3
  <2>5. \A s \in D(n + 1) : Step(g, f, s) = Step(h, f, s)
    <3> HIDE DEF D, h
    <3> QED BY <2>3, <2>4 DEF Step
  <2>6. Follows(h, f, D(n + 1))
    BY <2>5 DEF Follows
  <2>7. n + 1 \in Nat /\ \E z : Follows(z, f, D(n + 1))
    <3> HIDE DEF h, D
    <3> QED BY <2>6
  <2> QED BY <2>7
<1>3. \A n \in Nat : n \in Defined
  <2> HIDE DEF Defined
  <2> QED BY <1>1, <1>2, NumberInduction
<1>4. Cardinality(S) \in Nat /\ D(Cardinality(S)) = SUBSET S
  BY <1>0, FS_Subset, FS_CardinalityType
<1> QED BY <1>3, <1>4

\* Two such functions agree on the sets that both have.
LEMMA SumAgrees ==
  ASSUME NEW f, NEW S, IsFiniteSet(S), NEW T \in SUBSET S, NEW g, NEW h,
         Follows(g, f, SUBSET S), Follows(h, f, SUBSET T)
  PROVE  \A U \in SUBSET T : g[U] = h[U]
<1> DEFINE G == {U \in SUBSET T : g[U] = h[U]}
<1>1. ASSUME NEW U \in SUBSET T, \A x \in U : U \ {x} \in G PROVE U \in G
  <2>1. U \in SUBSET S
    OBVIOUS
  <2>2. g[U] = Step(g, f, U) /\ h[U] = Step(h, f, U)
    BY <2>1 DEF Follows
  <2>3. U # {} => g[U \ {Pick(U)}] = h[U \ {Pick(U)}]
    BY <1>1, PickIsIn
  <2>4. Step(g, f, U) = Step(h, f, U)
    BY <2>3 DEF Step
  <2> QED BY <2>2, <2>4
<1>2. IsFiniteSet(T)
  BY FS_Subset
<1>3. \A U \in SUBSET T : U \in G
  <2> HIDE DEF G
  <2> QED BY <1>1, <1>2, SubsetInduction
<1> QED BY <1>3

\* A sum is its chosen element and the sum of the others.
LEMMA SumUnfolds ==
  ASSUME NEW f, NEW S, IsFiniteSet(S)
  PROVE  SumFunctionOnSet(f, S) =
           IF S = {} THEN 0 ELSE f[Pick(S)] + SumFunctionOnSet(f, S \ {Pick(S)})
<1> DEFINE g == CHOOSE z : Follows(z, f, SUBSET S)
           T == S \ {Pick(S)}
           h == CHOOSE z : Follows(z, f, SUBSET T)
<1>1. Follows(g, f, SUBSET S)
  BY SumExists
<1>2. T \in SUBSET S /\ IsFiniteSet(T)
  BY FS_Subset
<1>3. Follows(h, f, SUBSET T)
  <2> HIDE DEF T
  <2> QED BY <1>2, SumExists
<1>4. SumFunctionOnSet(f, S) = g[S] /\ SumFunctionOnSet(f, T) = h[T]
  BY SumIsChosen
<1> HIDE DEF g, h
<1>5. g[T] = h[T]
  <2> HIDE DEF T
  <2> QED BY <1>1, <1>2, <1>3, SumAgrees
<1>6. g[S] = Step(g, f, S)
  BY <1>1 DEF Follows
<1> QED BY <1>4, <1>5, <1>6 DEF Step

LEMMA SumEmpty == ASSUME NEW f PROVE SumFunctionOnSet(f, {}) = 0
BY SumUnfolds, FS_EmptySet

LEMMA SumType ==
  ASSUME NEW S, IsFiniteSet(S), NEW f, \A x \in S : f[x] \in Nat
  PROVE  SumFunctionOnSet(f, S) \in Nat
<1> DEFINE G == {T \in SUBSET S : SumFunctionOnSet(f, T) \in Nat}
<1>1. ASSUME NEW T \in SUBSET S, \A x \in T : T \ {x} \in G PROVE T \in G
  <2>1. IsFiniteSet(T)
    BY FS_Subset
  <2>2. T # {} => Pick(T) \in T /\ f[Pick(T)] \in Nat
    BY PickIsIn
  <2>3. T # {} => SumFunctionOnSet(f, T \ {Pick(T)}) \in Nat
    BY <1>1, <2>2
  <2>4. T # {} => SumFunctionOnSet(f, T) = f[Pick(T)] + SumFunctionOnSet(f, T \ {Pick(T)})
    BY <2>1, SumUnfolds
  <2>5. T = {} => SumFunctionOnSet(f, T) = 0
    BY <2>1, SumUnfolds
  <2> QED BY <2>2, <2>3, <2>4, <2>5
<1>2. \A T \in SUBSET S : T \in G
  <2> HIDE DEF G
  <2> QED BY <1>1, SubsetInduction
<1> QED BY <1>2

\* Any element can be the one that is added first.
LEMMA SumTakesOut ==
  ASSUME NEW S, IsFiniteSet(S), NEW f, \A x \in S : f[x] \in Nat, NEW y \in S
  PROVE  SumFunctionOnSet(f, S) = f[y] + SumFunctionOnSet(f, S \ {y})
<1> DEFINE G == {T \in SUBSET S : \A x \in T :
                   SumFunctionOnSet(f, T) = f[x] + SumFunctionOnSet(f, T \ {x})}
<1>1. ASSUME NEW T \in SUBSET S, \A x \in T : T \ {x} \in G PROVE T \in G
  <2> SUFFICES ASSUME NEW x \in T
               PROVE  SumFunctionOnSet(f, T) = f[x] + SumFunctionOnSet(f, T \ {x})
    OBVIOUS
  <2> DEFINE p == Pick(T)
  <2>1. p \in T
    BY PickIsIn
  <2>2. SumFunctionOnSet(f, T) = f[p] + SumFunctionOnSet(f, T \ {p})
    <3>1. IsFiniteSet(T) /\ T # {}
      BY FS_Subset
    <3> QED BY <3>1, SumUnfolds
  <2> HIDE DEF p
  <2>3. CASE x = p
    BY <2>2, <2>3
  <2>4. CASE x # p
    <3> DEFINE R == (T \ {p}) \ {x}
    <3>1. T \ {p} \in G /\ T \ {x} \in G /\ x \in T \ {p} /\ p \in T \ {x}
      BY <1>1, <2>1, <2>4
    <3>2. SumFunctionOnSet(f, T \ {p}) = f[x] + SumFunctionOnSet(f, R)
      BY <3>1
    <3>3. (T \ {x}) \ {p} = R
      OBVIOUS
    <3>4. SumFunctionOnSet(f, T \ {x}) = f[p] + SumFunctionOnSet(f, R)
      BY <3>1, <3>3
    <3>5. f[p] \in Nat /\ f[x] \in Nat
      BY <2>1
    <3>6. SumFunctionOnSet(f, R) \in Nat
      <4>1. IsFiniteSet(R) /\ \A z \in R : f[z] \in Nat
        BY FS_Subset
      <4> HIDE DEF R
      <4> QED BY <4>1, SumType
    <3> HIDE DEF R, G
    <3> QED BY <2>2, <3>2, <3>4, <3>5, <3>6
  <2> QED BY <2>3, <2>4
<1>2. \A T \in SUBSET S : T \in G
  <2> HIDE DEF G
  <2> QED BY <1>1, SubsetInduction
<1> QED BY <1>2

LEMMA SumSingle == ASSUME NEW n, NEW f, f[n] \in Nat PROVE SumFunctionOnSet(f, {n}) = f[n]
<1>1. IsFiniteSet({n}) /\ {n} \ {n} = {} /\ \A x \in {n} : f[x] \in Nat /\ n \in {n}
  BY FS_Singleton
<1>2. SumFunctionOnSet(f, {n}) = f[n] + SumFunctionOnSet(f, {n} \ {n})
  BY <1>1, SumTakesOut
<1> QED BY <1>1, <1>2, SumEmpty

LEMMA SumsEqual ==
  ASSUME NEW S, IsFiniteSet(S), NEW f, NEW g, \A x \in S : f[x] = g[x]
  PROVE  SumFunctionOnSet(f, S) = SumFunctionOnSet(g, S)
<1> DEFINE G == {T \in SUBSET S : SumFunctionOnSet(f, T) = SumFunctionOnSet(g, T)}
<1>1. ASSUME NEW T \in SUBSET S, \A x \in T : T \ {x} \in G PROVE T \in G
  <2>1. IsFiniteSet(T)
    BY FS_Subset
  <2>2. T # {} => Pick(T) \in T /\ f[Pick(T)] = g[Pick(T)]
    BY PickIsIn
  <2>3. T # {} => SumFunctionOnSet(f, T \ {Pick(T)}) = SumFunctionOnSet(g, T \ {Pick(T)})
    BY <1>1, <2>2
  <2>4. SumFunctionOnSet(f, T) = SumFunctionOnSet(g, T)
    BY <2>1, <2>2, <2>3, SumUnfolds
  <2> QED BY <2>4
<1>2. \A T \in SUBSET S : T \in G
  <2> HIDE DEF G
  <2> QED BY <1>1, SubsetInduction
<1> QED BY <1>2

LEMMA SumIsNat ==
  ASSUME NEW S, IsFiniteSet(S), NEW f \in [S -> Nat]
  PROVE  SumFunction(f) \in Nat
BY SumType DEF SumFunction

LEMMA SumOfZeros ==
  ASSUME NEW S, IsFiniteSet(S), NEW f \in [S -> Nat], \A x \in S : f[x] = 0
  PROVE  SumFunction(f) = 0
<1> DEFINE G == {T \in SUBSET S : SumFunctionOnSet(f, T) = 0}
<1>1. ASSUME NEW T \in SUBSET S, \A x \in T : T \ {x} \in G PROVE T \in G
  <2>1. IsFiniteSet(T)
    BY FS_Subset
  <2>2. T # {} => Pick(T) \in T /\ f[Pick(T)] = 0
    BY PickIsIn
  <2>3. T # {} => SumFunctionOnSet(f, T \ {Pick(T)}) = 0
    BY <1>1, <2>2
  <2>4. T # {} => SumFunctionOnSet(f, T) = f[Pick(T)] + SumFunctionOnSet(f, T \ {Pick(T)})
    BY <2>1, SumUnfolds
  <2>5. T = {} => SumFunctionOnSet(f, T) = 0
    BY <2>1, SumUnfolds
  <2> QED BY <2>2, <2>3, <2>4, <2>5
<1>2. S \in G
  <2> HIDE DEF G
  <2> QED BY <1>1, SubsetInduction
<1> QED BY <1>2 DEF SumFunction

\* The sum changes by what one value changes.
LEMMA SumChanges ==
  ASSUME NEW S, IsFiniteSet(S), NEW f \in [S -> Nat], NEW g \in [S -> Nat], NEW y \in S,
         \A x \in S : x # y => f[x] = g[x]
  PROVE  /\ SumFunction(f) \in Nat /\ SumFunction(g) \in Nat
         /\ SumFunction(f) + g[y] = SumFunction(g) + f[y]
<1>1. SumFunction(f) = SumFunctionOnSet(f, S) /\ SumFunction(g) = SumFunctionOnSet(g, S)
  BY DEF SumFunction
<1>2. SumFunctionOnSet(f, S) \in Nat /\ SumFunctionOnSet(g, S) \in Nat
  BY SumType
<1>3. SumFunctionOnSet(f, S) = f[y] + SumFunctionOnSet(f, S \ {y})
  BY SumTakesOut
<1>4. SumFunctionOnSet(g, S) = g[y] + SumFunctionOnSet(g, S \ {y})
  BY SumTakesOut
<1>5. IsFiniteSet(S \ {y}) /\ \A x \in S \ {y} : f[x] = g[x] /\ f[x] \in Nat
  BY FS_Subset
<1>6. SumFunctionOnSet(f, S \ {y}) = SumFunctionOnSet(g, S \ {y})
  BY <1>5, SumsEqual
<1>7. SumFunctionOnSet(f, S \ {y}) \in Nat
  BY <1>5, SumType
<1>8. f[y] \in Nat /\ g[y] \in Nat
  OBVIOUS
<1> QED BY <1>1, <1>2, <1>3, <1>4, <1>6, <1>7, <1>8

-----------------------------------------------------------------------------
(***************************************************************************)
(* The invariant.                                                          *)
(***************************************************************************)

\* The variables' types.
Types ==
  /\ dotMap \in [Clients -> [Dots -> Nat]] /\ tmpMap \in [Clients -> [Dots -> Nat]]
  /\ clientPc \in [Clients -> {"sleep", "report", "gone"}]
  /\ stopping \subseteq Clients
  /\ serving \in [Servers -> SUBSET Clients]
  /\ todo \in [Servers -> [Dots -> Nat]]
  /\ dot \in [Servers -> Dots \cup {NoDot}]
  /\ origin \in [Servers -> Nat]
  /\ serverPc \in [Servers -> {"up", "down", "range", "rem", "zadd"}]
  /\ zset \in [Dots -> SUBSET (Nat \ {0})]
  /\ counted \in [Dots -> Nat]
  /\ crashes \in Nat
  /\ disturbed \subseteq Dots

\* A client that does not report has no report.
Idle == \A c \in Clients : clientPc[c] # "report" => tmpMap[c] = Empty

\* A server serves one report, of a client that waits for it and that no other
\* server serves, and has left nothing that is not in it.
Served ==
  \A s \in Servers :
    /\ serving[s] = {} => todo[s] = Empty
    /\ \A c \in serving[s] :
         /\ serving[s] = {c} /\ clientPc[c] = "report"
         /\ \A d \in Dots : tmpMap[c][d] = 0 => todo[s][d] = 0
         /\ \A x \in Servers : c \in serving[x] => x = s

\* Inside add a server has a dot with something left to add; outside, none.
Adding ==
  \A s \in Servers :
    IF serverPc[s] \in {"range", "rem", "zadd"}
      THEN /\ dot[s] \in Dots /\ todo[s][dot[s]] # 0
           /\ serverPc[s] = "range" => origin[s] = 0
      ELSE dot[s] = NoDot /\ origin[s] = 0

\* A dot that is not disturbed has at most one member, and at most one server, which
\* knows it.
Undisturbed ==
  \A d \in Dots \ disturbed :
    /\ \A m, n \in zset[d] : m = n
    /\ \A s \in Servers : dot[s] = d =>
         /\ \A x \in Servers : dot[x] = d => x = s
         /\ serverPc[s] = "rem" => zset[d] = {origin[s]}
         /\ serverPc[s] = "zadd" => zset[d] = {}

\* The addends of Stored and OnTheWay.
Members(d) == [n \in zset[d] |-> n]
Held(d) == [s \in Servers |-> IF dot[s] = d /\ serverPc[s] = "zadd" THEN origin[s] ELSE 0]
Kept(d) == [c \in Clients |-> IF clientPc[c] = "gone" THEN 0 ELSE dotMap[c][d]]
Sent(d) == [c \in Clients |-> IF \E s \in Servers : c \in serving[s] THEN 0 ELSE tmpMap[c][d]]
Left(d) == [s \in Servers |-> todo[s][d]]

Total(d) ==
  SumFunction(Members(d)) + SumFunction(Held(d))
  + (SumFunction(Kept(d)) + SumFunction(Sent(d)) + SumFunction(Left(d)))

\* As in CountsConserved.
Conserved == \A d \in Dots \ disturbed : Total(d) = counted[d]

DotterInv == Types /\ Idle /\ Served /\ Adding /\ Undisturbed /\ Conserved

-----------------------------------------------------------------------------
(***************************************************************************)
(* The sums are of natural numbers, before a step and after it.            *)
(***************************************************************************)
LEMMA MemberSum ==
  /\ SumFunction([n \in {} |-> n]) = 0
  /\ \A m \in Nat : SumFunction([n \in {m} |-> n]) = m
<1>1. SumFunction([n \in {} |-> n]) = 0
  <2>1. SumFunctionOnSet([n \in {} |-> n], {}) = 0
    BY SumEmpty
  <2> QED BY <2>1 DEF SumFunction
<1>2. ASSUME NEW m \in Nat PROVE SumFunction([n \in {m} |-> n]) = m
  <2> DEFINE f == [n \in {m} |-> n]
  <2>1. f[m] = m /\ DOMAIN f = {m}
    OBVIOUS
  <2> HIDE DEF f
  <2>2. SumFunctionOnSet(f, {m}) = m
    BY <2>1, SumSingle
  <2>3. SumFunction(f) = m
    BY <2>1, <2>2 DEF SumFunction
  <2> QED BY <2>3 DEF f
<1> QED BY <1>1, <1>2

\* A dot that is not disturbed has no member or one.
LEMMA OneMember ==
  ASSUME Types, Undisturbed, NEW d \in Dots \ disturbed
  PROVE  /\ zset[d] = {} \/ \E m \in Nat : zset[d] = {m}
         /\ SumFunction(Members(d)) \in Nat
<1>1. zset[d] \subseteq Nat
  BY DEF Types
<1>2. \A m \in zset[d] : zset[d] = {m}
  BY DEF Undisturbed
<1>3. zset[d] = {} \/ \E m \in Nat : zset[d] = {m}
  BY <1>1, <1>2
<1>4. zset[d] = {} => Members(d) = [n \in {} |-> n]
  BY DEF Members
<1>5. \A m \in Nat : zset[d] = {m} => Members(d) = [n \in {m} |-> n]
  BY DEF Members
<1>6. SumFunction(Members(d)) \in Nat
  <2>1. CASE zset[d] = {}
    BY <1>4, <2>1, MemberSum
  <2>2. CASE \E m \in Nat : zset[d] = {m}
    BY <1>5, <2>2, MemberSum
  <2> QED BY <1>3, <2>1, <2>2
<1> QED BY <1>3, <1>6

LEMMA Addends ==
  ASSUME Types, NEW d \in Dots
  PROVE  /\ Held(d) \in [Servers -> Nat] /\ Left(d) \in [Servers -> Nat]
         /\ Kept(d) \in [Clients -> Nat] /\ Sent(d) \in [Clients -> Nat]
         /\ SumFunction(Held(d)) \in Nat /\ SumFunction(Left(d)) \in Nat
         /\ SumFunction(Kept(d)) \in Nat /\ SumFunction(Sent(d)) \in Nat
<1>1. Held(d) \in [Servers -> Nat]
  BY DEF Types, Held
<1>2. Left(d) \in [Servers -> Nat]
  BY DEF Types, Left
<1>3. Kept(d) \in [Clients -> Nat]
  BY DEF Types, Kept
<1>4. Sent(d) \in [Clients -> Nat]
  BY DEF Types, Sent
<1>5. IsFiniteSet(Clients) /\ IsFiniteSet(Servers)
  BY DotterAssumption
<1>6. SumFunction(Held(d)) \in Nat /\ SumFunction(Left(d)) \in Nat
  BY <1>1, <1>2, <1>5, SumIsNat
<1>7. SumFunction(Kept(d)) \in Nat /\ SumFunction(Sent(d)) \in Nat
  BY <1>3, <1>4, <1>5, SumIsNat
<1> QED BY <1>1, <1>2, <1>3, <1>4, <1>6, <1>7

LEMMA AddendsNext ==
  ASSUME Types', NEW d \in Dots
  PROVE  /\ Held(d)' \in [Servers -> Nat] /\ Left(d)' \in [Servers -> Nat]
         /\ Kept(d)' \in [Clients -> Nat] /\ Sent(d)' \in [Clients -> Nat]
<1>1. Held(d)' \in [Servers -> Nat]
  BY DEF Types, Held
<1>2. Left(d)' \in [Servers -> Nat]
  BY DEF Types, Left
<1>3. Kept(d)' \in [Clients -> Nat]
  BY DEF Types, Kept
<1>4. Sent(d)' \in [Clients -> Nat]
  BY DEF Types, Sent
<1> QED BY <1>1, <1>2, <1>3, <1>4

LEMMA DotterInit == Init => DotterInv
<1> SUFFICES ASSUME Init PROVE DotterInv
  OBVIOUS
<1>1. Types /\ Idle /\ Served /\ Adding /\ Undisturbed
  BY DotterAssumption DEF Init, Types, Idle, Served, Adding, Undisturbed, Empty
<1>2. ASSUME NEW d \in Dots PROVE Total(d) = counted[d]
  <2>1. SumFunction(Members(d)) = 0 /\ counted[d] = 0
    BY MemberSum DEF Init, Members, Empty
  <2>2. SumFunction(Held(d)) = 0 /\ SumFunction(Left(d)) = 0
    <3>1. \A s \in Servers : Held(d)[s] = 0 /\ Left(d)[s] = 0
      BY DEF Init, Held, Left, Empty
    <3> QED BY <1>1, <3>1, Addends, SumOfZeros, DotterAssumption
  <2>3. SumFunction(Kept(d)) = 0 /\ SumFunction(Sent(d)) = 0
    <3>1. \A c \in Clients : Kept(d)[c] = 0 /\ Sent(d)[c] = 0
      BY DEF Init, Kept, Sent, Empty
    <3> QED BY <1>1, <3>1, Addends, SumOfZeros, DotterAssumption
  <2> QED BY <2>1, <2>2, <2>3 DEF Total
<1> QED BY <1>1, <1>2 DEF DotterInv, Conserved

LEMMA FinitelyMany == IsFiniteSet(Clients) /\ IsFiniteSet(Servers)
BY DotterAssumption

\* What Conserved says of one dot, with sums that are numbers.
LEMMA TotalIs ==
  ASSUME DotterInv, NEW d \in Dots \ disturbed
  PROVE  /\ SumFunction(Members(d)) + SumFunction(Held(d))
            + (SumFunction(Kept(d)) + SumFunction(Sent(d)) + SumFunction(Left(d))) = counted[d]
         /\ SumFunction(Members(d)) \in Nat /\ counted[d] \in Nat
         /\ SumFunction(Held(d)) \in Nat /\ SumFunction(Left(d)) \in Nat
         /\ SumFunction(Kept(d)) \in Nat /\ SumFunction(Sent(d)) \in Nat
<1>1. Types /\ Undisturbed /\ Total(d) = counted[d] /\ counted[d] \in Nat
  BY DEF DotterInv, Conserved, Types
<1>2. SumFunction(Members(d)) \in Nat
  BY <1>1, OneMember
<1> QED BY <1>1, <1>2, Addends DEF Total

-----------------------------------------------------------------------------
(***************************************************************************)
(* The steps of clients.                                                   *)
(***************************************************************************)
LEMMA CountKeeps ==
  ASSUME DotterInv, NEW c \in Clients, NEW e \in Dots, Count(c, e)
  PROVE  DotterInv'
<1>1. Types'
  <2>1. dotMap' \in [Clients -> [Dots -> Nat]] /\ counted' \in [Dots -> Nat]
    BY DEF DotterInv, Types, Count
  <2> QED BY <2>1 DEF DotterInv, Types, Count, serverVars
<1>2. Idle' /\ Served' /\ Adding' /\ Undisturbed'
  BY DEF DotterInv, Idle, Served, Adding, Undisturbed, Count, serverVars
<1>3. ASSUME NEW d \in Dots \ disturbed' PROVE Total(d)' = counted'[d]
  <2> d \in Dots \ disturbed
    BY DEF Count
  <2>1. Members(d)' = Members(d) /\ Held(d)' = Held(d) /\ Sent(d)' = Sent(d) /\ Left(d)' = Left(d)
    BY DEF Members, Held, Sent, Left, Count, serverVars
  <2>2. \A x \in Clients : x # c => Kept(d)[x] = Kept(d)'[x]
    BY DEF Kept, Count, DotterInv, Types
  <2>3. Kept(d)'[c] = Kept(d)[c] + (IF d = e THEN 1 ELSE 0)
    BY DEF Kept, Count, DotterInv, Types
  <2>4. counted'[d] = counted[d] + (IF d = e THEN 1 ELSE 0)
    BY DEF Count, DotterInv, Types
  <2>5. Kept(d) \in [Clients -> Nat] /\ Kept(d)' \in [Clients -> Nat]
    BY <1>1, Addends, AddendsNext DEF DotterInv
  <2>6. /\ SumFunction(Kept(d)') \in Nat
        /\ SumFunction(Kept(d)) + Kept(d)'[c] = SumFunction(Kept(d)') + Kept(d)[c]
    BY <2>2, <2>5, SumChanges, FinitelyMany
  <2>7. SumFunction(Kept(d)') = SumFunction(Kept(d)) + (IF d = e THEN 1 ELSE 0)
    BY <2>3, <2>5, <2>6, TotalIs
  <2> QED BY <2>1, <2>4, <2>7, TotalIs DEF Total
<1> QED BY <1>1, <1>2, <1>3 DEF DotterInv, Conserved

LEMMA ReportKeeps ==
  ASSUME DotterInv, NEW c \in Clients, Report(c)
  PROVE  DotterInv'
<1>1. Types'
  <2>1. /\ dotMap' \in [Clients -> [Dots -> Nat]] /\ tmpMap' \in [Clients -> [Dots -> Nat]]
        /\ clientPc' \in [Clients -> {"sleep", "report", "gone"}]
    BY DEF DotterInv, Types, Report, Swap, Empty
  <2> QED BY <2>1 DEF DotterInv, Types, Report, serverVars
<1>2. tmpMap[c] = Empty /\ \A s \in Servers : c \notin serving[s]
  BY DEF DotterInv, Idle, Served, Report
<1>3. dotMap[c] \in [Dots -> Nat] /\ (NonZero(dotMap[c]) = {} => dotMap[c] = Empty)
  BY DEF DotterInv, Types, NonZero, Empty
<1>4. Idle'
  BY <1>3 DEF DotterInv, Types, Idle, Report
<1>5. Served'
  BY <1>2 DEF DotterInv, Types, Served, Report, serverVars
<1>6. Adding' /\ Undisturbed'
  BY DEF DotterInv, Adding, Undisturbed, Report, serverVars
<1>7. ASSUME NEW d \in Dots \ disturbed' PROVE Total(d)' = counted'[d]
  <2> d \in Dots \ disturbed
    BY DEF Report
  <2>1. Members(d)' = Members(d) /\ Held(d)' = Held(d) /\ Left(d)' = Left(d)
    BY DEF Members, Held, Left, Report, serverVars
  <2>2. \A x \in Clients : x # c => Kept(d)[x] = Kept(d)'[x] /\ Sent(d)[x] = Sent(d)'[x]
    BY DEF Kept, Sent, Report, Swap, DotterInv, Types, serverVars
  <2>3. Kept(d)[c] = dotMap[c][d] /\ Kept(d)'[c] = 0
    BY DEF Kept, Report, Swap, DotterInv, Types, Empty
  <2>4. Sent(d)[c] = 0 /\ Sent(d)'[c] = dotMap[c][d]
    BY <1>2 DEF Sent, Report, DotterInv, Types, Empty, serverVars
  <2>5. /\ Kept(d) \in [Clients -> Nat] /\ Kept(d)' \in [Clients -> Nat]
        /\ Sent(d) \in [Clients -> Nat] /\ Sent(d)' \in [Clients -> Nat]
    BY <1>1, Addends, AddendsNext DEF DotterInv
  <2>6. /\ SumFunction(Kept(d)') \in Nat
        /\ SumFunction(Kept(d)) + Kept(d)'[c] = SumFunction(Kept(d)') + Kept(d)[c]
    BY <2>2, <2>5, SumChanges, FinitelyMany
  <2>7. /\ SumFunction(Sent(d)') \in Nat
        /\ SumFunction(Sent(d)) + Sent(d)'[c] = SumFunction(Sent(d)') + Sent(d)[c]
    BY <2>2, <2>5, SumChanges, FinitelyMany
  <2>8. SumFunction(Kept(d)') + SumFunction(Sent(d)') = SumFunction(Kept(d)) + SumFunction(Sent(d))
    BY <1>3, <2>3, <2>4, <2>6, <2>7, TotalIs
  <2>9. counted' = counted
    BY DEF Report
  <2> QED BY <2>1, <2>6, <2>7, <2>8, <2>9, TotalIs DEF Total
<1> QED BY <1>1, <1>4, <1>5, <1>6, <1>7 DEF DotterInv, Conserved

LEMMA StopKeeps ==
  ASSUME DotterInv, NEW c \in Clients, Stop(c)
  PROVE  DotterInv'
<1>1. Types' /\ Idle' /\ Served' /\ Adding' /\ Undisturbed'
  BY DEF DotterInv, Types, Idle, Served, Adding, Undisturbed, Stop, serverVars
<1>2. \A d \in Dots : Total(d)' = Total(d)
  BY DEF Total, Members, Held, Kept, Sent, Left, Stop, serverVars
<1> QED BY <1>1, <1>2 DEF DotterInv, Conserved, Stop

LEMMA UnservedKeeps ==
  ASSUME DotterInv, NEW c \in Clients, Unserved(c)
  PROVE  DotterInv'
<1>1. /\ \A s \in Servers : c \notin serving[s]
      /\ disturbed' = disturbed \cup NonZero(tmpMap[c])
      /\ tmpMap' = [tmpMap EXCEPT ![c] = Empty]
      /\ clientPc[c] = "report" /\ clientPc' = [clientPc EXCEPT ![c] = "sleep"]
      /\ UNCHANGED <<dotMap, stopping, serverVars, zset, counted>>
  BY DEF Unserved, Reported
<1>2. Types'
  <2>1. tmpMap' \in [Clients -> [Dots -> Nat]]
    BY <1>1 DEF DotterInv, Types, Empty
  <2>2. crashes' \in Nat
    BY DEF DotterInv, Types, Unserved
  <2>3. disturbed' \subseteq Dots
    BY <1>1 DEF DotterInv, Types, NonZero
  <2> QED BY <1>1, <2>1, <2>2, <2>3 DEF DotterInv, Types, serverVars
<1>3. Idle' /\ Adding' /\ Undisturbed'
  BY <1>1 DEF DotterInv, Types, Idle, Adding, Undisturbed, serverVars
<1>4. Served'
  BY <1>1 DEF DotterInv, Types, Served, serverVars
<1>5. ASSUME NEW d \in Dots \ disturbed' PROVE Total(d)' = counted'[d]
  <2>1. d \in Dots \ disturbed /\ tmpMap[c][d] = 0
    BY <1>1 DEF NonZero
  <2>2. Members(d)' = Members(d) /\ Held(d)' = Held(d) /\ Left(d)' = Left(d)
    BY <1>1 DEF Members, Held, Left, serverVars
  <2>3. Kept(d)' = Kept(d)
    BY <1>1 DEF Kept, DotterInv, Types
  <2>4. Sent(d)' = Sent(d)
    BY <1>1, <2>1 DEF Sent, DotterInv, Types, Empty, serverVars
  <2> QED BY <1>1, <2>1, <2>2, <2>3, <2>4, TotalIs DEF Total
<1> QED BY <1>2, <1>3, <1>4, <1>5 DEF DotterInv, Conserved

LEMMA DieKeeps ==
  ASSUME DotterInv, NEW c \in Clients, Die(c)
  PROVE  DotterInv'
<1>1. Types'
  <2>1. dotMap' \in [Clients -> [Dots -> Nat]] /\ tmpMap' \in [Clients -> [Dots -> Nat]]
    BY DEF DotterInv, Types, Die, Empty
  <2>2. disturbed' \subseteq Dots
    BY DEF DotterInv, Types, Die, NonZero
  <2> QED BY <2>1, <2>2 DEF DotterInv, Types, Die, serverVars
<1>2. Idle' /\ Adding' /\ Undisturbed'
  BY DEF DotterInv, Types, Idle, Adding, Undisturbed, Die, serverVars
<1>3. Served'
  BY DEF DotterInv, Types, Served, Die, serverVars
<1>4. ASSUME NEW d \in Dots \ disturbed' PROVE Total(d)' = counted'[d]
  <2>1. d \in Dots \ disturbed /\ tmpMap[c][d] = 0 /\ dotMap[c][d] = 0
    BY DEF Die, NonZero
  <2>2. Members(d)' = Members(d) /\ Held(d)' = Held(d) /\ Left(d)' = Left(d)
    BY DEF Members, Held, Left, Die, serverVars
  <2>3. Kept(d)' = Kept(d)
    BY <2>1 DEF Kept, Die, DotterInv, Types, Empty
  <2>4. Sent(d)' = Sent(d)
    BY <2>1 DEF Sent, Die, DotterInv, Types, Empty, serverVars
  <2> QED BY <2>1, <2>2, <2>3, <2>4, TotalIs DEF Total, Die
<1> QED BY <1>1, <1>2, <1>3, <1>4 DEF DotterInv, Conserved

-----------------------------------------------------------------------------
(***************************************************************************)
(* The steps of servers.                                                   *)
(***************************************************************************)
LEMMA ReceiveKeeps ==
  ASSUME DotterInv, NEW s \in Servers, NEW c \in Clients, Receive(s, c)
  PROVE  DotterInv'
<1>1. Types'
  <2>1. serving' \in [Servers -> SUBSET Clients] /\ todo' \in [Servers -> [Dots -> Nat]]
    BY DEF DotterInv, Types, Receive
  <2> QED BY <2>1 DEF DotterInv, Types, Receive, clientVars
<1>2. Idle' /\ Undisturbed'
  BY DEF DotterInv, Idle, Undisturbed, Receive, clientVars
<1>3. Served'
  BY DEF DotterInv, Types, Served, Receive, clientVars
<1>4. Adding'
  BY DEF DotterInv, Types, Adding, Receive, clientVars
<1>5. ASSUME NEW d \in Dots \ disturbed' PROVE Total(d)' = counted'[d]
  <2> d \in Dots \ disturbed
    BY DEF Receive
  <2>1. Members(d)' = Members(d) /\ Held(d)' = Held(d) /\ Kept(d)' = Kept(d)
    BY DEF Members, Held, Kept, Receive, clientVars
  <2>2. \A x \in Clients : x # c => Sent(d)[x] = Sent(d)'[x]
    BY DEF Sent, Receive, DotterInv, Types, clientVars
  <2>3. Sent(d)[c] = tmpMap[c][d] /\ Sent(d)'[c] = 0
    BY DEF Sent, Receive, DotterInv, Types, clientVars
  <2>4. \A x \in Servers : x # s => Left(d)[x] = Left(d)'[x]
    BY DEF Left, Receive, DotterInv, Types
  <2>5. Left(d)[s] = 0 /\ Left(d)'[s] = tmpMap[c][d]
    <3>1. todo[s] = Empty /\ todo'[s] = tmpMap[c]
      BY DEF Receive, DotterInv, Types, Served
    <3> QED BY <3>1 DEF Left, Empty
  <2>6. /\ Sent(d) \in [Clients -> Nat] /\ Sent(d)' \in [Clients -> Nat]
        /\ Left(d) \in [Servers -> Nat] /\ Left(d)' \in [Servers -> Nat]
    BY <1>1, Addends, AddendsNext DEF DotterInv
  <2>7. /\ SumFunction(Sent(d)') \in Nat
        /\ SumFunction(Sent(d)) + Sent(d)'[c] = SumFunction(Sent(d)') + Sent(d)[c]
    BY <2>2, <2>6, SumChanges, FinitelyMany
  <2>8. /\ SumFunction(Left(d)') \in Nat
        /\ SumFunction(Left(d)) + Left(d)'[s] = SumFunction(Left(d)') + Left(d)[s]
    BY <2>4, <2>6, SumChanges, FinitelyMany
  <2>9. SumFunction(Sent(d)') + SumFunction(Left(d)') = SumFunction(Sent(d)) + SumFunction(Left(d))
    <3>1. tmpMap[c][d] \in Nat
      BY DEF DotterInv, Types
    <3> QED BY <2>3, <2>5, <2>7, <2>8, <3>1, TotalIs
  <2>10. counted' = counted
    BY DEF Receive
  <2> QED BY <2>1, <2>7, <2>8, <2>9, <2>10, TotalIs DEF Total
<1> QED BY <1>1, <1>2, <1>3, <1>4, <1>5 DEF DotterInv, Conserved

LEMMA AddKeeps ==
  ASSUME DotterInv, NEW s \in Servers, NEW e \in Dots, Add(s, e)
  PROVE  DotterInv'
<1>1. Types'
  BY DEF DotterInv, Types, Add, ServerStep, clientVars
<1>2. Idle' /\ Served'
  BY DEF DotterInv, Idle, Served, Add, clientVars
<1>3. Adding'
  BY DEF DotterInv, Types, Adding, Add, ServerStep, NonZero
<1>4. Undisturbed'
  <2> SUFFICES ASSUME NEW d \in Dots \ disturbed'
               PROVE  /\ \A m, n \in zset'[d] : m = n
                      /\ \A t \in Servers : dot'[t] = d =>
                           /\ \A x \in Servers : dot'[x] = d => x = t
                           /\ serverPc'[t] = "rem" => zset'[d] = {origin'[t]}
                           /\ serverPc'[t] = "zadd" => zset'[d] = {}
    BY DEF Undisturbed
  <2>1. d \notin disturbed /\ (d = e => \A x \in Servers : dot[x] # d)
    BY DEF Add
  <2> QED BY <2>1 DEF DotterInv, Types, Undisturbed, Add, ServerStep
<1>5. ASSUME NEW d \in Dots \ disturbed' PROVE Total(d)' = counted'[d]
  <2>1. d \in Dots \ disturbed
    BY DEF Add
  <2>2. /\ Members(d)' = Members(d) /\ Kept(d)' = Kept(d)
        /\ Sent(d)' = Sent(d) /\ Left(d)' = Left(d)
    BY DEF Members, Kept, Sent, Left, Add, clientVars
  <2>3. Held(d)' = Held(d)
    BY DEF Held, Add, ServerStep, DotterInv, Types
  <2> QED BY <2>1, <2>2, <2>3, TotalIs DEF Total, Add
<1> QED BY <1>1, <1>2, <1>3, <1>4, <1>5 DEF DotterInv, Conserved

\* A server in add works on a dot of Dots.
LEMMA Works ==
  ASSUME DotterInv, NEW s \in Servers, serverPc[s] \in {"range", "rem", "zadd"}
  PROVE  dot[s] \in Dots /\ todo[s][dot[s]] \in Nat \ {0}
BY DEF DotterInv, Types, Adding

\* The end of add, with serverPc set to "up", keeps what is known of reports and
\* servers.
LEMMA AddEndsKeeps ==
  ASSUME DotterInv, NEW s \in Servers, serverPc[s] \in {"range", "rem", "zadd"}, AddEnds(s),
         serverPc' = [serverPc EXCEPT ![s] = "up"], UNCHANGED <<clientVars, serving>>
  PROVE  /\ todo' \in [Servers -> [Dots -> Nat]]
         /\ dot' \in [Servers -> Dots \cup {NoDot}]
         /\ origin' \in [Servers -> Nat]
         /\ serverPc' \in [Servers -> {"up", "down", "range", "rem", "zadd"}]
         /\ Served' /\ Adding'
<1>1. todo' \in [Servers -> [Dots -> Nat]]
  BY Works DEF DotterInv, Types, AddEnds
<1>2. /\ dot' \in [Servers -> Dots \cup {NoDot}]
      /\ origin' \in [Servers -> Nat]
      /\ serverPc' \in [Servers -> {"up", "down", "range", "rem", "zadd"}]
  BY DEF DotterInv, Types, AddEnds
<1>3. Served'
  <2>1. \A x \in Servers, d \in Dots : todo'[x][d] = todo[x][d] \/ todo'[x][d] = 0
    BY Works DEF DotterInv, Types, AddEnds
  <2>2. \A x \in Servers : serving[x] = {} => todo'[x] = todo[x]
    <3>1. serving[s] # {}
      BY Works DEF DotterInv, Served, Empty
    <3> QED BY <3>1 DEF DotterInv, Types, AddEnds
  <2> QED BY <2>1, <2>2 DEF DotterInv, Served, clientVars
<1>4. Adding'
  BY Works DEF DotterInv, Types, Adding, AddEnds
<1> QED BY <1>1, <1>2, <1>3, <1>4

\* Nobody reads a member of a dot that is not disturbed and gives up.
LEMMA NeverTwo ==
  ASSUME DotterInv, NEW d \in Dots \ disturbed
  PROVE  ~(Cardinality(zset[d]) > 1)
<1>1. zset[d] = {} \/ \E m \in Nat : zset[d] = {m}
  BY OneMember DEF DotterInv
<1>2. Cardinality(zset[d]) = 0 \/ Cardinality(zset[d]) = 1
  BY <1>1, FS_EmptySet, FS_Singleton
<1> QED BY <1>2

LEMMA RangeByScoreKeeps ==
  ASSUME DotterInv, NEW s \in Servers, RangeByScore(s)
  PROVE  DotterInv'
<1>1. /\ serverPc[s] = "range" /\ origin[s] = 0
      /\ dot[s] \in Dots /\ todo[s][dot[s]] \in Nat \ {0}
  BY Works DEF RangeByScore, DotterInv, Adding
<1>2. UNCHANGED <<clientVars, serving, zset, counted, crashes, disturbed>>
  BY DEF RangeByScore
<1>3. \A d \in Dots : /\ Members(d)' = Members(d) /\ Kept(d)' = Kept(d)
                      /\ Sent(d)' = Sent(d)
  BY <1>2 DEF Members, Kept, Sent, clientVars
<1>4. CASE /\ zset[dot[s]] = {}
           /\ serverPc' = [serverPc EXCEPT ![s] = "zadd"]
           /\ UNCHANGED <<dot, origin, todo>>
  <2>1. Types' /\ Idle' /\ Served' /\ Adding'
    BY <1>1, <1>2, <1>4 DEF DotterInv, Types, Idle, Served, Adding, clientVars
  <2>2. Undisturbed'
    BY <1>1, <1>2, <1>4 DEF DotterInv, Types, Undisturbed
  <2>3. ASSUME NEW d \in Dots \ disturbed' PROVE Total(d)' = counted'[d]
    <3>1. Held(d)' = Held(d) /\ Left(d)' = Left(d)
      BY <1>1, <1>4 DEF Held, Left, DotterInv, Types
    <3> QED BY <1>2, <1>3, <3>1, TotalIs DEF Total
  <2> QED BY <2>1, <2>2, <2>3 DEF DotterInv, Conserved
<1>5. CASE /\ Cardinality(zset[dot[s]]) = 1
           /\ serverPc' = [serverPc EXCEPT ![s] = "rem"]
           /\ origin' = [origin EXCEPT ![s] = CHOOSE n \in zset[dot[s]] : TRUE]
           /\ UNCHANGED <<dot, todo>>
  <2> DEFINE n == CHOOSE z \in zset[dot[s]] : TRUE
  <2>1. n \in zset[dot[s]] /\ n \in Nat
    <3>1. zset[dot[s]] # {}
      BY <1>5, FS_EmptySet
    <3>2. zset[dot[s]] \subseteq Nat
      BY <1>1 DEF DotterInv, Types
    <3> QED BY <3>1, <3>2
  <2>2. origin' = [origin EXCEPT ![s] = n]
    BY <1>5
  <2> HIDE DEF n
  <2>3. Types' /\ Idle' /\ Served' /\ Adding'
    BY <1>1, <1>2, <1>5, <2>1, <2>2 DEF DotterInv, Types, Idle, Served, Adding, clientVars
  <2>4. Undisturbed'
    <3>1. dot[s] \notin disturbed => zset[dot[s]] = {n}
      BY <1>1, <2>1 DEF DotterInv, Undisturbed
    <3>2. /\ serverPc' = [serverPc EXCEPT ![s] = "rem"] /\ dot' = dot
          /\ zset' = zset /\ disturbed' = disturbed
      BY <1>2, <1>5
    <3>3. \A x \in Servers : x # s => origin'[x] = origin[x] /\ serverPc'[x] = serverPc[x]
      BY <2>2, <3>2 DEF DotterInv, Types
    <3>4. origin'[s] = n /\ serverPc'[s] = "rem"
      BY <2>2, <3>2 DEF DotterInv, Types
    <3> QED BY <3>1, <3>2, <3>3, <3>4 DEF DotterInv, Undisturbed
  <2>5. ASSUME NEW d \in Dots \ disturbed' PROVE Total(d)' = counted'[d]
    <3>1. Held(d)' = Held(d) /\ Left(d)' = Left(d)
      BY <1>1, <1>5, <2>2 DEF Held, Left, DotterInv, Types
    <3> QED BY <1>2, <1>3, <3>1, TotalIs DEF Total
  <2> QED BY <2>3, <2>4, <2>5 DEF DotterInv, Conserved
<1>6. CASE /\ Cardinality(zset[dot[s]]) > 1
           /\ serverPc' = [serverPc EXCEPT ![s] = "up"]
           /\ AddEnds(s)
  <2>1. Types' /\ Idle' /\ Served' /\ Adding'
    BY <1>1, <1>2, <1>6, AddEndsKeeps DEF DotterInv, Types, Idle, clientVars
  <2>2. Undisturbed'
    BY <1>1, <1>2, <1>6, DotterAssumption DEF DotterInv, Types, Undisturbed, AddEnds
  <2>3. ASSUME NEW d \in Dots \ disturbed' PROVE Total(d)' = counted'[d]
    <3>1. d # dot[s] /\ d # NoDot
      BY <1>2, <1>6, NeverTwo, DotterAssumption
    <3>2. Left(d)' = Left(d)
      BY <1>1, <1>6, <3>1 DEF Left, AddEnds, DotterInv, Types
    <3>3. Held(d)' = Held(d)
      BY <1>1, <1>6, <3>1 DEF Held, AddEnds, DotterInv, Types
    <3> QED BY <1>2, <1>3, <3>2, <3>3, TotalIs DEF Total
  <2> QED BY <2>1, <2>2, <2>3 DEF DotterInv, Conserved
<1> QED BY <1>4, <1>5, <1>6 DEF RangeByScore, ServerStep

\* What holds of a server that is about to remove or to add a member of a dot that
\* is not disturbed.
LEMMA KnowsMember ==
  ASSUME DotterInv, NEW s \in Servers, dot[s] \in Dots \ disturbed
  PROVE  /\ serverPc[s] = "rem" => zset[dot[s]] = {origin[s]}
         /\ serverPc[s] = "zadd" => zset[dot[s]] = {}
         /\ \A x \in Servers : dot[x] = dot[s] => x = s
BY DEF DotterInv, Undisturbed

LEMMA RemKeeps ==
  ASSUME DotterInv, NEW s \in Servers, Rem(s)
  PROVE  DotterInv'
<1>1. /\ serverPc[s] = "rem" /\ serverPc' = [serverPc EXCEPT ![s] = "zadd"]
      /\ dot[s] \in Dots /\ origin[s] \in Nat
      /\ zset' = [zset EXCEPT ![dot[s]] = @ \ {origin[s]}]
      /\ UNCHANGED <<clientVars, serving, todo, dot, origin, counted, crashes, disturbed>>
  BY Works DEF Rem, ServerStep, DotterInv, Types
<1>2. Types' /\ Idle' /\ Served' /\ Adding'
  BY <1>1 DEF DotterInv, Types, Idle, Served, Adding, clientVars
<1>3. dot[s] \notin disturbed => zset[dot[s]] = {origin[s]} /\ zset'[dot[s]] = {}
  BY <1>1, KnowsMember DEF DotterInv, Types
<1>4. Undisturbed'
  <2> SUFFICES ASSUME NEW d \in Dots \ disturbed
               PROVE  /\ \A m, n \in zset'[d] : m = n
                      /\ \A t \in Servers : dot[t] = d =>
                           /\ \A x \in Servers : dot[x] = d => x = t
                           /\ serverPc'[t] = "rem" => zset'[d] = {origin[t]}
                           /\ serverPc'[t] = "zadd" => zset'[d] = {}
    BY <1>1 DEF Undisturbed
  <2>1. CASE d = dot[s]
    BY <1>1, <1>3, <2>1, KnowsMember DEF DotterInv, Types
  <2>2. CASE d # dot[s]
    BY <1>1, <2>2 DEF DotterInv, Types, Undisturbed
  <2> QED BY <2>1, <2>2
<1>5. ASSUME NEW d \in Dots \ disturbed' PROVE Total(d)' = counted'[d]
  <2> d \in Dots \ disturbed
    BY <1>1
  <2>1. Kept(d)' = Kept(d) /\ Sent(d)' = Sent(d) /\ Left(d)' = Left(d)
    BY <1>1 DEF Kept, Sent, Left, clientVars
  <2>2. CASE d # dot[s]
    <3>1. Members(d)' = Members(d) /\ Held(d)' = Held(d)
      BY <1>1, <2>2 DEF Members, Held, DotterInv, Types
    <3> QED BY <1>1, <2>1, <3>1, TotalIs DEF Total
  <2>3. CASE d = dot[s]
    <3>1. Members(d) = [n \in {origin[s]} |-> n] /\ Members(d)' = [n \in {} |-> n]
      BY <1>3, <2>3 DEF Members
    <3>2. SumFunction(Members(d)) = origin[s] /\ SumFunction(Members(d)') = 0
      BY <1>1, <3>1, MemberSum
    <3>3. \A x \in Servers : x # s => Held(d)[x] = Held(d)'[x]
      BY <1>1 DEF Held, DotterInv, Types
    <3>4. Held(d)[s] = 0 /\ Held(d)'[s] = origin[s]
      BY <1>1, <2>3 DEF Held, DotterInv, Types
    <3>5. Held(d) \in [Servers -> Nat] /\ Held(d)' \in [Servers -> Nat]
      BY <1>2, Addends, AddendsNext DEF DotterInv
    <3>6. /\ SumFunction(Held(d)') \in Nat
          /\ SumFunction(Held(d)) + Held(d)'[s] = SumFunction(Held(d)') + Held(d)[s]
      BY <3>3, <3>5, SumChanges, FinitelyMany
    <3>7. SumFunction(Held(d)') = SumFunction(Held(d)) + origin[s]
      BY <1>1, <3>4, <3>6, TotalIs
    <3> QED BY <1>1, <2>1, <3>2, <3>7, TotalIs DEF Total
  <2> QED BY <2>2, <2>3
<1> QED BY <1>2, <1>4, <1>5 DEF DotterInv, Conserved

LEMMA ZAddKeeps ==
  ASSUME DotterInv, NEW s \in Servers, ZAdd(s)
  PROVE  DotterInv'
<1>1. /\ serverPc[s] = "zadd" /\ serverPc' = [serverPc EXCEPT ![s] = "up"]
      /\ dot[s] \in Dots /\ origin[s] \in Nat /\ todo[s][dot[s]] \in Nat \ {0}
      /\ UNCHANGED <<clientVars, serving, counted, crashes, disturbed>>
      /\ AddEnds(s)
  BY Works DEF ZAdd, ServerStep, DotterInv, Types
<1> DEFINE n == NewCount(s)
<1>2. n = origin[s] + todo[s][dot[s]] /\ n \in Nat \ {0}
  BY <1>1 DEF NewCount
<1>3. zset' = [zset EXCEPT ![dot[s]] = @ \cup {n}]
  BY DEF ZAdd
<1> HIDE DEF n
<1>4. Types' /\ Idle' /\ Served' /\ Adding'
  <2>1. zset' \in [Dots -> SUBSET (Nat \ {0})]
    BY <1>1, <1>2, <1>3 DEF DotterInv, Types
  <2> QED BY <1>1, <2>1, AddEndsKeeps DEF DotterInv, Types, Idle, clientVars
<1>5. dot[s] \notin disturbed => zset[dot[s]] = {} /\ zset'[dot[s]] = {n}
  BY <1>1, <1>3, KnowsMember DEF DotterInv, Types
<1>6. /\ \A x \in Servers : x # s => dot'[x] = dot[x] /\ origin'[x] = origin[x]
      /\ dot'[s] = NoDot /\ NoDot \notin Dots
  BY DotterAssumption DEF DotterInv, Types, ZAdd, AddEnds
<1>7. Undisturbed'
  <2> SUFFICES ASSUME NEW d \in Dots \ disturbed
               PROVE  /\ \A k, m \in zset'[d] : k = m
                      /\ \A t \in Servers : dot'[t] = d =>
                           /\ \A x \in Servers : dot'[x] = d => x = t
                           /\ serverPc'[t] = "rem" => zset'[d] = {origin'[t]}
                           /\ serverPc'[t] = "zadd" => zset'[d] = {}
    BY <1>1 DEF Undisturbed
  <2>1. CASE d = dot[s]
    BY <1>1, <1>5, <1>6, <2>1, KnowsMember DEF DotterInv, Types
  <2>2. CASE d # dot[s]
    BY <1>1, <1>3, <1>6, <2>2 DEF DotterInv, Types, Undisturbed
  <2> QED BY <2>1, <2>2
<1>8. ASSUME NEW d \in Dots \ disturbed' PROVE Total(d)' = counted'[d]
  <2> d \in Dots \ disturbed
    BY <1>1
  <2>1. Kept(d)' = Kept(d) /\ Sent(d)' = Sent(d)
    BY <1>1 DEF Kept, Sent, clientVars
  <2>2. CASE d # dot[s]
    <3>1. Members(d)' = Members(d)
      BY <1>1, <1>3, <2>2 DEF Members, DotterInv, Types
    <3>2. Held(d)' = Held(d)
      BY <1>1, <1>6, <2>2 DEF Held, DotterInv, Types
    <3>3. Left(d)' = Left(d)
      BY <1>1, <2>2 DEF Left, AddEnds, DotterInv, Types
    <3> QED BY <1>1, <2>1, <3>1, <3>2, <3>3, TotalIs DEF Total
  <2>3. CASE d = dot[s]
    <3>1. Members(d) = [k \in {} |-> k] /\ Members(d)' = [k \in {n} |-> k]
      BY <1>5, <2>3 DEF Members
    <3>2. SumFunction(Members(d)) = 0 /\ SumFunction(Members(d)') = n
      BY <1>2, <3>1, MemberSum
    <3>3. \A x \in Servers : x # s => Held(d)[x] = Held(d)'[x] /\ Left(d)[x] = Left(d)'[x]
      BY <1>1, <1>6 DEF Held, Left, AddEnds, DotterInv, Types
    <3>4. Held(d)[s] = origin[s] /\ Held(d)'[s] = 0
      BY <1>1, <1>6, <2>3 DEF Held, DotterInv, Types
    <3>5. Left(d)[s] = todo[s][dot[s]] /\ Left(d)'[s] = 0
      BY <1>1, <2>3 DEF Left, AddEnds, DotterInv, Types
    <3>6. /\ Held(d) \in [Servers -> Nat] /\ Held(d)' \in [Servers -> Nat]
          /\ Left(d) \in [Servers -> Nat] /\ Left(d)' \in [Servers -> Nat]
      BY <1>4, Addends, AddendsNext DEF DotterInv
    <3>7. /\ SumFunction(Held(d)') \in Nat
          /\ SumFunction(Held(d)) + Held(d)'[s] = SumFunction(Held(d)') + Held(d)[s]
      BY <3>3, <3>6, SumChanges, FinitelyMany
    <3>8. /\ SumFunction(Left(d)') \in Nat
          /\ SumFunction(Left(d)) + Left(d)'[s] = SumFunction(Left(d)') + Left(d)[s]
      BY <3>3, <3>6, SumChanges, FinitelyMany
    <3>9. SumFunction(Held(d)') + SumFunction(Left(d)') + n = SumFunction(Held(d)) + SumFunction(Left(d))
      BY <1>1, <1>2, <3>4, <3>5, <3>7, <3>8, TotalIs
    <3> QED BY <1>1, <1>2, <2>1, <3>2, <3>7, <3>8, <3>9, TotalIs DEF Total
  <2> QED BY <2>2, <2>3
<1> QED BY <1>4, <1>7, <1>8 DEF DotterInv, Conserved

LEMMA ReplyKeeps ==
  ASSUME DotterInv, NEW s \in Servers, Reply(s)
  PROVE  DotterInv'
<1>1. PICK c \in serving[s] :
        /\ NonZero(todo[s]) = {} /\ serverPc[s] = "up"
        /\ serving' = [serving EXCEPT ![s] = {}]
        /\ tmpMap' = [tmpMap EXCEPT ![c] = Empty]
        /\ clientPc' = [clientPc EXCEPT ![c] = "sleep"]
        /\ UNCHANGED <<dotMap, stopping, todo, dot, origin, serverPc, zset, counted, crashes, disturbed>>
  BY DEF Reply, Reported
<1>2. /\ c \in Clients /\ serving[s] = {c} /\ clientPc[c] = "report"
      /\ \A x \in Servers : c \in serving[x] => x = s
  BY DEF DotterInv, Types, Served
<1>3. todo[s] = Empty
  BY <1>1 DEF DotterInv, Types, NonZero, Empty
<1>4. Types'
  <2>1. tmpMap' \in [Clients -> [Dots -> Nat]]
    BY <1>1, <1>2 DEF DotterInv, Types, Empty
  <2> QED BY <1>1, <1>2, <2>1 DEF DotterInv, Types
<1>5. Idle' /\ Adding' /\ Undisturbed'
  BY <1>1, <1>2 DEF DotterInv, Types, Idle, Adding, Undisturbed
<1>6. Served'
  BY <1>1, <1>2, <1>3 DEF DotterInv, Types, Served
<1>7. ASSUME NEW d \in Dots \ disturbed' PROVE Total(d)' = counted'[d]
  <2> d \in Dots \ disturbed
    BY <1>1
  <2>1. Members(d)' = Members(d) /\ Held(d)' = Held(d) /\ Left(d)' = Left(d)
    BY <1>1 DEF Members, Held, Left
  <2>2. Kept(d)' = Kept(d)
    BY <1>1, <1>2 DEF Kept, DotterInv, Types
  <2>3. Sent(d)' = Sent(d)
    <3>1. \A x \in Clients : Sent(d)'[x] = Sent(d)[x]
      <4> SUFFICES ASSUME NEW x \in Clients PROVE Sent(d)'[x] = Sent(d)[x]
        OBVIOUS
      <4>1. CASE x = c
        BY <1>1, <1>2, <4>1 DEF Sent, DotterInv, Types, Empty
      <4>2. CASE x # c
        <5>1. tmpMap'[x] = tmpMap[x]
          BY <1>1, <1>2, <4>2 DEF DotterInv, Types
        <5>2. \A t \in Servers : x \in serving'[t] <=> x \in serving[t]
          BY <1>1, <1>2, <4>2 DEF DotterInv, Types
        <5> QED BY <5>1, <5>2 DEF Sent
      <4> QED BY <4>1, <4>2
    <3> QED BY <1>4, <3>1, Addends, AddendsNext DEF DotterInv
  <2> QED BY <1>1, <2>1, <2>2, <2>3, TotalIs DEF Total
<1> QED BY <1>4, <1>5, <1>6, <1>7 DEF DotterInv, Conserved

\* The dots of the report that dies with its server are disturbed, so for the others
\* the report and what is left of it count nothing.
LEMMA CrashKeeps ==
  ASSUME DotterInv, NEW s \in Servers, Crash(s)
  PROVE  DotterInv'
<1>1. /\ serverPc' = [serverPc EXCEPT ![s] = "down"]
      /\ disturbed' = disturbed \cup UNION {NonZero(tmpMap[c]) : c \in serving[s]}
      /\ serving' = [serving EXCEPT ![s] = {}]
      /\ todo' = [todo EXCEPT ![s] = Empty]
      /\ dot' = [dot EXCEPT ![s] = NoDot]
      /\ origin' = [origin EXCEPT ![s] = 0]
      /\ crashes' = crashes + 1
      /\ UNCHANGED <<clientVars, zset, counted>>
  BY DEF Crash
<1>2. Types'
  <2>1. disturbed' \subseteq Dots
    BY <1>1 DEF DotterInv, Types, NonZero
  <2>2. todo' \in [Servers -> [Dots -> Nat]]
    BY <1>1 DEF DotterInv, Types, Empty
  <2> QED BY <1>1, <2>1, <2>2 DEF DotterInv, Types, clientVars
<1>3. Idle' /\ Adding'
  BY <1>1 DEF DotterInv, Types, Idle, Adding, clientVars
<1>4. Served'
  BY <1>1 DEF DotterInv, Types, Served, clientVars
<1>5. disturbed \subseteq disturbed' /\ NoDot \notin Dots
  BY <1>1, DotterAssumption
<1>6. Undisturbed'
  <2> SUFFICES ASSUME NEW d \in Dots \ disturbed'
               PROVE  /\ \A m, n \in zset[d] : m = n
                      /\ \A t \in Servers : dot'[t] = d =>
                           /\ \A x \in Servers : dot'[x] = d => x = t
                           /\ serverPc'[t] = "rem" => zset[d] = {origin'[t]}
                           /\ serverPc'[t] = "zadd" => zset[d] = {}
    BY <1>1 DEF Undisturbed
  <2> QED BY <1>1, <1>5 DEF DotterInv, Types, Undisturbed
<1>7. ASSUME NEW d \in Dots \ disturbed' PROVE Total(d)' = counted'[d]
  <2>1. d \in Dots \ disturbed
    BY <1>5
  <2>2. \A c \in serving[s] : tmpMap[c][d] = 0
    BY <1>1 DEF NonZero
  <2>3. todo[s][d] = 0
    BY <2>2 DEF DotterInv, Served, Empty
  <2>4. Members(d)' = Members(d) /\ Kept(d)' = Kept(d)
    BY <1>1 DEF Members, Kept, clientVars
  <2>5. Left(d)' = Left(d)
    BY <1>1, <2>3 DEF Left, DotterInv, Types, Empty
  <2>6. Held(d)' = Held(d)
    <3>1. ~(dot[s] = d /\ serverPc[s] = "zadd")
      BY <2>3 DEF DotterInv, Adding
    <3> QED BY <1>1, <1>5, <3>1 DEF Held, DotterInv, Types
  <2>7. Sent(d)' = Sent(d)
    <3>1. \A x \in Clients : Sent(d)'[x] = Sent(d)[x]
      <4> SUFFICES ASSUME NEW x \in Clients PROVE Sent(d)'[x] = Sent(d)[x]
        OBVIOUS
      <4>1. tmpMap' = tmpMap
        BY <1>1 DEF clientVars
      <4>2. CASE x \in serving[s]
        BY <2>2, <4>1, <4>2 DEF Sent
      <4>3. CASE x \notin serving[s]
        <5>1. \A t \in Servers : x \in serving'[t] <=> x \in serving[t]
          BY <1>1, <4>3 DEF DotterInv, Types
        <5> QED BY <4>1, <5>1 DEF Sent
      <4> QED BY <4>2, <4>3
    <3> QED BY <1>2, <3>1, <2>1, Addends, AddendsNext DEF DotterInv
  <2> QED BY <1>1, <2>1, <2>4, <2>5, <2>6, <2>7, TotalIs DEF Total
<1> QED BY <1>2, <1>3, <1>4, <1>6, <1>7 DEF DotterInv, Conserved

LEMMA RestartKeeps ==
  ASSUME DotterInv, NEW s \in Servers, Restart(s)
  PROVE  DotterInv'
<1>1. /\ serverPc[s] = "down" /\ serverPc' = [serverPc EXCEPT ![s] = "up"]
      /\ UNCHANGED <<clientVars, serving, todo, dot, origin, zset, counted, crashes, disturbed>>
  BY DEF Restart, ServerStep
<1>2. Types' /\ Idle' /\ Served' /\ Adding' /\ Undisturbed'
  BY <1>1 DEF DotterInv, Types, Idle, Served, Adding, Undisturbed, clientVars
<1>3. ASSUME NEW d \in Dots \ disturbed' PROVE Total(d)' = counted'[d]
  <2>1. /\ Members(d)' = Members(d) /\ Kept(d)' = Kept(d)
        /\ Sent(d)' = Sent(d) /\ Left(d)' = Left(d)
    BY <1>1 DEF Members, Kept, Sent, Left, clientVars
  <2>2. Held(d)' = Held(d)
    BY <1>1 DEF Held, DotterInv, Types
  <2> QED BY <1>1, <2>1, <2>2, TotalIs DEF Total
<1> QED BY <1>2, <1>3 DEF DotterInv, Conserved

-----------------------------------------------------------------------------
(***************************************************************************)
(* The theorems.                                                           *)
(***************************************************************************)
LEMMA DotterStep == DotterInv /\ [Next]_vars => DotterInv'
<1> SUFFICES ASSUME DotterInv, [Next]_vars PROVE DotterInv'
  OBVIOUS
<1>1. ASSUME NEW c \in Clients,
             Report(c) \/ Stop(c) \/ Unserved(c) \/ Die(c) \/ \E d \in Dots : Count(c, d)
      PROVE  DotterInv'
  BY <1>1, ReportKeeps, StopKeeps, UnservedKeeps, DieKeeps, CountKeeps
<1>2. ASSUME NEW s \in Servers, Serve(s) PROVE DotterInv'
  BY <1>2, AddKeeps, RangeByScoreKeeps, RemKeeps, ZAddKeeps, ReplyKeeps DEF Serve
<1>3. ASSUME NEW s \in Servers, Crash(s) \/ Restart(s) \/ \E c \in Clients : Receive(s, c)
      PROVE  DotterInv'
  BY <1>3, CrashKeeps, RestartKeeps, ReceiveKeeps
<1>4. CASE UNCHANGED vars
  <2>1. Types' /\ Idle' /\ Served' /\ Adding' /\ Undisturbed'
    BY <1>4 DEF DotterInv, Types, Idle, Served, Adding, Undisturbed, vars, clientVars, serverVars
  <2>2. \A d \in Dots : Total(d)' = Total(d)
    BY <1>4 DEF Total, Members, Held, Kept, Sent, Left, vars, clientVars, serverVars
  <2> QED BY <1>4, <2>1, <2>2 DEF DotterInv, Conserved, vars
<1> QED BY <1>1, <1>2, <1>3, <1>4 DEF Next

LEMMA DotterAlways == Spec => []DotterInv
BY DotterInit, DotterStep, PTL DEF Spec

\* The state of clients and servers stays in its sets, a server has one report at
\* most, no two servers have the same, and no count in redis is 0.
THEOREM DotterTypes == Spec => []TypeOK
<1>1. DotterInv => TypeOK
  <2> SUFFICES ASSUME DotterInv PROVE TypeOK
    OBVIOUS
  <2>1. ASSUME NEW s \in Servers PROVE Cardinality(serving[s]) <= 1
    <3>1. serving[s] = {} \/ \E c \in serving[s] : serving[s] = {c}
      BY DEF DotterInv, Served
    <3>2. Cardinality(serving[s]) = 0 \/ Cardinality(serving[s]) = 1
      BY <3>1, FS_EmptySet, FS_Singleton
    <3> QED BY <3>2
  <2>2. \A s, x \in Servers : s # x => serving[s] \cap serving[x] = {}
    BY DEF DotterInv, Served
  <2> QED BY <2>1, <2>2 DEF TypeOK, DotterInv, Types
<1> QED BY <1>1, DotterAlways, PTL

\* What throughput was told is, for a dot that no failure and no second server
\* touched, in redis or on the way there, and there once.
THEOREM CountsAreConserved == Spec => []CountsConserved
<1>1. DotterInv => CountsConserved
  BY DEF DotterInv, Conserved, CountsConserved, Total, Stored, OnTheWay, Members, Held, Kept,
         Sent, Left
<1> QED BY <1>1, DotterAlways, PTL
=============================================================================
