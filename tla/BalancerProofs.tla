--------------------------- MODULE BalancerProofs ---------------------------
(***************************************************************************)
(* What Balancer promises, for all sets of providers and all bounds.       *)
(*                                                                         *)
(* AnsweredIfSteady and CountersLeak do not need to know which provider a  *)
(* strategy chooses, only what becomes of the one that was chosen.  TypeOK *)
(* does: it says that the strategies choose one of those registered.  Of   *)
(* RequestEnds the safety core is proved: a request that has not ended can *)
(* go on, and it has a bounded number of steps to go.                      *)
(***************************************************************************)
EXTENDS Balancer, FiniteSetTheorems, NaturalsInduction, WellFoundedInduction, TLAPS

-----------------------------------------------------------------------------
(***************************************************************************)
(* A provider that can be reached is kept.                                 *)
(***************************************************************************)

\* A provider in steady runs: whatever takes one out of alive takes it out of
\* steady.
SteadyAlive == steady \subseteq alive

SteadyInv == SteadyAlive /\ AnsweredIfSteady

\* A failed attempt keeps what is steady registered, if the provider it erases
\* is not steady.
LEMMA FailureKeeps ==
  ASSUME AfterFailure, steady' = steady \/ steady' = steady \ {chosen},
         chosen \notin steady'
  PROVE  /\ steady \subseteq registered => steady' \subseteq registered'
         /\ pc' # "idle"
BY DEF AfterFailure

LEMMA SteadyInit == Init => SteadyInv
BY DEF Init, SteadyInv, SteadyAlive, AnsweredIfSteady

\* The invariant is inductive.
LEMMA SteadyStep == SteadyInv /\ [Next]_vars => SteadyInv'
<1> SUFFICES ASSUME SteadyInv, [Next]_vars PROVE SteadyInv'
  OBVIOUS
<1> USE DEF SteadyInv, SteadyAlive, AnsweredIfSteady
<1>1. ASSUME NEW S \in SUBSET Endpoints, Register(S) PROVE SteadyInv'
  BY <1>1 DEF Register, callVars, envVars
<1>2. ASSUME NEW kind \in RequestKinds, NEW hash \in 0..Cardinality(Endpoints), Begin(kind, hash)
      PROVE  SteadyInv'
  BY <1>2 DEF Begin, envVars
<1>3. CASE NoProvider
  BY <1>3 DEF NoProvider, envVars
<1>4. CASE Pick
  BY <1>4 DEF Pick, envVars
<1>5. CASE Succeed
  BY <1>5 DEF Succeed, envVars
<1>6. CASE Unreachable
  <2>1. chosen \notin steady' /\ steady' = steady /\ alive' = alive
    BY <1>6 DEF Unreachable, envVars
  <2>2. /\ request.kind # "scalar" => steady \subseteq registered
        /\ AfterFailure /\ request' = request
    BY <1>6 DEF Unreachable
  <2> QED BY <2>1, <2>2, FailureKeeps
<1>7. CASE Broken
  <2>1. chosen \notin steady' /\ steady' = steady \ {chosen} /\ alive' \in {alive, alive \ {chosen}}
    BY <1>7 DEF Broken
  <2>2. /\ request.kind # "scalar" => steady \subseteq registered
        /\ AfterFailure /\ request' = request
    BY <1>7 DEF Broken
  <2> QED BY <2>1, <2>2, FailureKeeps
<1>8. CASE Killed
  <2>1. chosen \notin steady' /\ steady' = steady \ {chosen} /\ alive' = alive \ {chosen}
    BY <1>8 DEF Killed
  <2>2. /\ request.kind # "scalar" => steady \subseteq registered
        /\ AfterFailure /\ request' = request
    BY <1>8 DEF Killed
  <2> QED BY <2>1, <2>2, FailureKeeps
<1>9. ASSUME NEW e \in Endpoints, Crash(e) PROVE SteadyInv'
  BY <1>9 DEF Crash, callVars
<1>10. ASSUME NEW e \in Endpoints, Restart(e) PROVE SteadyInv'
  BY <1>10 DEF Restart, callVars
<1>11. CASE Refused
  BY <1>11 DEF Refused, AfterFailure, envVars
<1>12. CASE Spin
  BY <1>12 DEF Spin
<1>13. CASE UNCHANGED vars
  BY <1>13 DEF vars, callVars, envVars
<1> QED
  BY <1>1, <1>2, <1>3, <1>4, <1>5, <1>6, <1>7, <1>8, <1>9, <1>10, <1>11, <1>12, <1>13
  DEF Next, BalanceCall

\* A provider that can be reached throughout a request is not erased, and the
\* request is answered if there is one, unless its answer is one that the balancer
\* cannot read (baseBalancer.cpp:24-62, jsonParser.cpp:111).
THEOREM SteadyAnswered == Spec => []AnsweredIfSteady
<1>1. SteadyInv => AnsweredIfSteady
  BY DEF SteadyInv
<1> QED BY <1>1, SteadyInit, SteadyStep, PTL DEF Spec

-----------------------------------------------------------------------------
(***************************************************************************)
(* The counters of connectionBalancer.                                     *)
(***************************************************************************)

CountType ==
  /\ ipConnection \in [Endpoints -> Int]
  /\ abandoned \in [Endpoints -> Int]

CountInv == CountType /\ CountersLeak

\* A failed attempt gives its provider up, and stops counting as a call under
\* way, or does neither.
LEMMA FailureCounts ==
  ASSUME CountInv, AfterFailure, pc = "attempt",
         UNCHANGED <<strategy, chosen, ipConnection>>
  PROVE  CountInv'
<1> USE DEF CountInv, CountType, CountersLeak
<1>1. abandoned' = abandoned \/ abandoned' = [abandoned EXCEPT ![chosen] = @ + 1]
  BY DEF AfterFailure
<1>2. CountType'
  BY <1>1
<1>3. ASSUME strategy = "connection", NEW e \in Endpoints
      PROVE  ipConnection[e] =
               abandoned'[e] + (IF pc' \in {"attempt", "spin"} /\ chosen = e THEN 1 ELSE 0)
  <2>1. CASE failures = 2
    BY <1>3, <2>1 DEF AfterFailure
  <2>2. CASE failures # 2
    BY <1>3, <2>2 DEF AfterFailure
  <2> QED BY <2>1, <2>2
<1> QED BY <1>2, <1>3

LEMMA CountInit == Init => CountInv
BY DEF Init, CountInv, CountType, CountersLeak

\* The invariant is inductive.
LEMMA CountStep == CountInv /\ [Next]_vars => CountInv'
<1> SUFFICES ASSUME CountInv, [Next]_vars PROVE CountInv'
  OBVIOUS
<1> USE DEF CountInv, CountType, CountersLeak
<1>1. ASSUME NEW S \in SUBSET Endpoints, Register(S) PROVE CountInv'
  BY <1>1 DEF Register, callVars, statVars
<1>2. ASSUME NEW kind \in RequestKinds, NEW hash \in 0..Cardinality(Endpoints), Begin(kind, hash)
      PROVE  CountInv'
  BY <1>2 DEF Begin, statVars
<1>3. CASE NoProvider
  BY <1>3 DEF NoProvider, statVars
<1>4. CASE Pick
  <2>1. PICK e \in GetIP(registered) : chosen' = e /\ Increase(e)
    BY <1>4 DEF Pick
  <2>2. pc = "pick" /\ pc' = "attempt" /\ UNCHANGED <<strategy, abandoned>>
    BY <1>4 DEF Pick
  <2>3. CASE strategy = "connection"
    <3>1. ipConnection' = [ipConnection EXCEPT ![e] = @ + 1]
      BY <2>1, <2>3 DEF Increase
    <3>2. ASSUME NEW x \in Endpoints
          PROVE  ipConnection'[x] = ipConnection[x] + (IF e = x THEN 1 ELSE 0)
      BY <3>1
    <3>3. ASSUME NEW x \in Endpoints PROVE ipConnection[x] = abandoned[x]
      BY <2>2, <2>3
    <3>4. ipConnection' \in [Endpoints -> Int] /\ abandoned' \in [Endpoints -> Int]
      <4>1. \A x \in Endpoints : ipConnection'[x] \in Int
        BY <3>2
      <4> QED BY <2>2, <3>1, <4>1
    <3>5. CountersLeak'
      BY <2>1, <2>2, <3>2, <3>3
    <3> QED BY <3>4, <3>5
  <2>4. CASE strategy # "connection"
    BY <2>1, <2>2, <2>4 DEF Increase
  <2> QED BY <2>3, <2>4
<1>5. CASE Succeed
  <2>1. pc = "attempt" /\ pc' = "idle" /\ UNCHANGED <<strategy, abandoned, chosen>>
    BY <1>5 DEF Succeed
  <2>2. Decrease(chosen)
    BY <1>5 DEF Succeed, RecordTimeCost
  <2>3. CASE strategy = "connection"
    <3>1. ipConnection' = [ipConnection EXCEPT ![chosen] = @ - 1]
      BY <2>2, <2>3 DEF Decrease
    <3>2. ASSUME NEW x \in Endpoints
          PROVE  ipConnection'[x] = ipConnection[x] - (IF chosen = x THEN 1 ELSE 0)
      BY <3>1
    <3>3. ASSUME NEW x \in Endpoints
          PROVE  ipConnection[x] = abandoned[x] + (IF chosen = x THEN 1 ELSE 0)
      BY <2>1, <2>3
    <3>4. ipConnection' \in [Endpoints -> Int] /\ abandoned' \in [Endpoints -> Int]
      <4>1. \A x \in Endpoints : ipConnection'[x] \in Int
        BY <3>2
      <4> QED BY <2>1, <3>1, <4>1
    <3>5. CountersLeak'
      BY <2>1, <3>2, <3>3
    <3> QED BY <3>4, <3>5
  <2>4. CASE strategy # "connection"
    BY <2>1, <2>2, <2>4 DEF Decrease
  <2> QED BY <2>3, <2>4
<1>6. CASE Unreachable \/ Refused \/ Broken \/ Killed
  BY <1>6, FailureCounts DEF Unreachable, Refused, Broken, Killed, statVars
<1>7. CASE Spin
  BY <1>7 DEF Spin, statVars
<1>8. ASSUME NEW e \in Endpoints, Crash(e) \/ Restart(e) PROVE CountInv'
  BY <1>8 DEF Crash, Restart, callVars, statVars
<1>9. CASE UNCHANGED vars
  BY <1>9 DEF vars, callVars, statVars
<1> QED
  BY <1>1, <1>2, <1>3, <1>4, <1>5, <1>6, <1>7, <1>8, <1>9 DEF Next, BalanceCall

\* connectionBalancer's counter of a provider is the calls under way and one more
\* for each time it was given up (connectionBalancer.cpp:2-14).
THEOREM CountersExact == Spec => []CountersLeak
<1>1. CountInv => CountersLeak
  BY DEF CountInv
<1> QED BY <1>1, CountInit, CountStep, PTL DEF Spec
-----------------------------------------------------------------------------
(***************************************************************************)
(* Induction on numbers, from the library's theorem that their order is    *)
(* well-founded.                                                           *)
(***************************************************************************)
LEMMA LeastNumber ==
  ASSUME NEW S, S \subseteq Nat, S # {}
  PROVE  \E m \in S : \A n \in S : m <= n
<1> DEFINE Below == {x \in Nat \X Nat : x[1] < x[2]}
<1>1. IsWellFoundedOn(Below, Nat)
  BY NatLessThanWellFounded DEF OpToRel
<1>2. \A m, n \in Nat : n < m => <<n, m>> \in Below
  OBVIOUS
<1> HIDE DEF Below
<1>3. PICK m \in S : \A n \in S : <<n, m>> \notin Below
  BY <1>1, WFMin
<1>4. \A n \in S : ~(n < m)
  BY <1>2, <1>3
<1>5. \A n \in S : m <= n
  BY <1>4
<1> QED BY <1>5

\* A set that has 0 and each successor of its numbers has all numbers.
LEMMA NumberInduction ==
  ASSUME NEW S, 0 \in S, \A n \in Nat : n \in S => n + 1 \in S
  PROVE  \A n \in Nat : n \in S
<1> DEFINE Others == Nat \ S
<1> SUFFICES ASSUME Others # {} PROVE FALSE
  OBVIOUS
<1>1. \A n \in Others : n \in Nat /\ n \notin S
  OBVIOUS
<1>2. Others \subseteq Nat /\ \A n \in Nat : n \notin S => n \in Others
  OBVIOUS
<1> HIDE DEF Others
<1>3. PICK m \in Others : \A n \in Others : m <= n
  BY <1>2, LeastNumber
<1>4. m # 0 /\ m - 1 \in Nat
  BY <1>1, <1>3
<1>5. m - 1 \in S
  BY <1>2, <1>3, <1>4
<1> QED BY <1>1, <1>3, <1>4, <1>5

-----------------------------------------------------------------------------
(***************************************************************************)
(* What the strategies choose is registered.                               *)
(***************************************************************************)
LEMMA MinIsMember ==
  ASSUME NEW S, S \subseteq Nat, S # {}
  PROVE  Min(S) \in S
BY LeastNumber DEF Min

\* The elements of S smaller than e: Nth(S, k) has k of them.
Smaller(S, e) == {x \in S : x < e}

\* The walk of hashBalancer::getIP comes to a k-th provider for every k below
\* their number.
LEMMA NthExists ==
  ASSUME NEW S, S \subseteq Nat, IsFiniteSet(S)
  PROVE  \A k \in Nat : k < Cardinality(S) => \E e \in S : Cardinality(Smaller(S, e)) = k
<1> DEFINE Reached == {k \in Nat : k < Cardinality(S) =>
                         \E e \in S : Cardinality(Smaller(S, e)) = k}
<1>1. 0 \in Reached
  <2> SUFFICES ASSUME 0 < Cardinality(S)
               PROVE  \E e \in S : Cardinality(Smaller(S, e)) = 0
    OBVIOUS
  <2>1. S # {}
    BY FS_EmptySet
  <2>2. PICK e \in S : \A x \in S : e <= x
    BY <2>1, LeastNumber
  <2>3. ASSUME NEW x \in S PROVE ~(x < e)
    <3>1. x \in Nat /\ e \in Nat /\ e <= x
      BY <2>2
    <3> QED BY <3>1
  <2>4. Smaller(S, e) = {}
    BY <2>3 DEF Smaller
  <2> QED BY <2>4, FS_EmptySet
<1>2. ASSUME NEW k \in Nat, k \in Reached PROVE k + 1 \in Reached
  <2> SUFFICES ASSUME k + 1 < Cardinality(S)
               PROVE  \E e \in S : Cardinality(Smaller(S, e)) = k + 1
    BY <1>2
  <2>0. Cardinality(S) \in Nat
    BY FS_CardinalityType
  <2>1. PICK e \in S : Cardinality(Smaller(S, e)) = k
    BY <1>2, <2>0
  <2> DEFINE Upto == Smaller(S, e) \cup {e}
  <2>2. IsFiniteSet(Smaller(S, e)) /\ e \notin Smaller(S, e)
    BY FS_Subset DEF Smaller
  <2>3. Cardinality(Upto) = k + 1
    BY <2>1, <2>2, FS_AddElement
  <2>4. S \ Upto # {} /\ S \ Upto \subseteq Nat
    <3>1. Upto \subseteq S
      BY DEF Smaller
    <3>2. Upto # S
      BY <2>0, <2>3
    <3> QED BY <3>1, <3>2
  <2>5. \A x \in S : x \in Upto <=> x <= e
    BY DEF Smaller
  <2> HIDE DEF Upto
  <2>6. PICK f \in S \ Upto : \A x \in S \ Upto : f <= x
    BY <2>4, LeastNumber
  <2>7. Smaller(S, f) = Upto
    <3>1. ASSUME NEW x \in S PROVE x < f <=> x \in Upto
      <4>1. x \in Nat /\ e \in Nat /\ f \in Nat /\ ~(f <= e)
        BY <2>5, <2>6
      <4> QED BY <2>5, <2>6, <4>1
    <3>2. Upto \subseteq S
      BY DEF Upto, Smaller
    <3> QED BY <3>1, <3>2 DEF Smaller
  <2> QED BY <2>3, <2>6, <2>7
<1> HIDE DEF Reached
<1>3. \A k \in Nat : k \in Reached
  BY <1>1, <1>2, NumberInduction
<1> QED BY <1>3 DEF Reached

LEMMA NthIsMember ==
  ASSUME NEW S, S \subseteq Nat, IsFiniteSet(S), NEW k \in Nat, k < Cardinality(S)
  PROVE  Nth(S, k) \in S
<1>1. PICK e \in S : Cardinality({x \in S : x < e}) = k
  BY NthExists DEF Smaller
<1> QED BY <1>1 DEF Nth

LEMMA SlowestIsMember ==
  ASSUME NEW S, S \subseteq Endpoints, S # {}, ipTimeCost \in [Endpoints -> 0..MaxCost]
  PROVE  Slowest(S) \in S
<1> DEFINE Spare == {MaxCost - ipTimeCost[e] : e \in S}
           Tops == {e \in S : \A x \in S : ipTimeCost[x] <= ipTimeCost[e]}
<1>0. MaxCost \in Nat /\ Endpoints \subseteq Nat
  BY BalancerAssumption
<1>1. Spare \subseteq Nat /\ Spare # {}
  <2>1. ASSUME NEW e \in S PROVE MaxCost - ipTimeCost[e] \in Nat
    <3>1. ipTimeCost[e] \in 0..MaxCost
      OBVIOUS
    <3> QED BY <1>0, <3>1
  <2> QED BY <2>1
<1>2. PICK m \in Spare : \A n \in Spare : m <= n
  BY <1>1, LeastNumber
<1>3. PICK e \in S : m = MaxCost - ipTimeCost[e]
  BY <1>2
<1>4. \A x \in S : ipTimeCost[x] <= ipTimeCost[e]
  <2> TAKE x \in S
  <2>1. ipTimeCost[x] \in 0..MaxCost /\ ipTimeCost[e] \in 0..MaxCost
    OBVIOUS
  <2>2. MaxCost - ipTimeCost[e] <= MaxCost - ipTimeCost[x]
    BY <1>2, <1>3
  <2> QED BY <1>0, <2>1, <2>2
<1>5. Tops \subseteq Nat /\ Tops # {}
  BY <1>0, <1>4
<1>6. Min(Tops) \in Tops
  BY <1>5, MinIsMember
<1> QED BY <1>6 DEF Slowest

LEMMA FewestIsMember ==
  ASSUME NEW S, S \subseteq Endpoints, S # {}, ipConnection \in [Endpoints -> Nat]
  PROVE  FewestCalls(S) \in S
<1> DEFINE Counts == {ipConnection[e] : e \in S}
           Bottoms == {e \in S : \A x \in S : ipConnection[e] <= ipConnection[x]}
<1>0. Endpoints \subseteq Nat
  BY BalancerAssumption
<1>1. Counts \subseteq Nat /\ Counts # {}
  OBVIOUS
<1>2. PICK m \in Counts : \A n \in Counts : m <= n
  BY <1>1, LeastNumber
<1>3. PICK e \in S : m = ipConnection[e]
  BY <1>2
<1>4. \A x \in S : ipConnection[e] <= ipConnection[x]
  BY <1>2, <1>3
<1>5. Bottoms \subseteq Nat /\ Bottoms # {}
  BY <1>0, <1>4
<1>6. Min(Bottoms) \in Bottoms
  BY <1>5, MinIsMember
<1> QED BY <1>6 DEF FewestCalls

LEMMA ChosenIsRegistered ==
  ASSUME NEW S, S \subseteq Endpoints, S # {}, ipTimeCost \in [Endpoints -> 0..MaxCost],
         strategy \in {"random", "hash", "minimum", "connection"},
         strategy = "connection" => ipConnection \in [Endpoints -> Nat], request.hash \in Nat
  PROVE  GetIP(S) \subseteq S
<1>1. CASE strategy = "random"
  BY <1>1 DEF GetIP
<1>2. CASE strategy = "hash"
  <2>1. S \subseteq Nat /\ IsFiniteSet(S)
    BY BalancerAssumption, FS_Subset
  <2>2. Cardinality(S) \in Nat /\ Cardinality(S) # 0
    BY <2>1, FS_CardinalityType, FS_EmptySet
  <2>3. request.hash % Cardinality(S) \in Nat /\ request.hash % Cardinality(S) < Cardinality(S)
    BY <2>2
  <2>4. Nth(S, request.hash % Cardinality(S)) \in S
    BY <2>1, <2>3, NthIsMember
  <2> QED BY <1>2, <2>4 DEF GetIP
<1>3. CASE strategy = "minimum"
  BY <1>3, SlowestIsMember DEF GetIP
<1>4. CASE strategy = "connection"
  BY <1>4, FewestIsMember DEF GetIP
<1> QED BY <1>1, <1>2, <1>3, <1>4


-----------------------------------------------------------------------------
(***************************************************************************)
(* Types.                                                                  *)
(***************************************************************************)

\* A counter is never below 0, because it is the times the provider was given up
\* and perhaps one more; an attempt is made only after fewer than three failures.
Ranges ==
  /\ strategy \in {"random", "hash", "minimum", "connection"}
  /\ request.hash \in Nat
  /\ abandoned \in [Endpoints -> Nat]
  /\ pc \in {"attempt", "spin"} => failures \in 0..2

TypeInv == TypeOK /\ Ranges

LEMMA TypeInit == Init => TypeInv
<1>1. Cardinality(Endpoints) \in Nat /\ MaxCost \in Nat
  BY BalancerAssumption, FS_CardinalityType
<1> QED BY <1>1 DEF Init, TypeInv, TypeOK, Ranges, RequestKinds

LEMMA FailureTypes ==
  ASSUME TypeInv, AfterFailure, pc = "attempt", alive' \subseteq alive, steady' \subseteq steady,
         UNCHANGED <<strategy, request, chosen, ipTimeCost, ipConnection>>
  PROVE  TypeInv'
<1> USE DEF TypeInv, TypeOK, Ranges
<1>1. abandoned' \in [Endpoints -> Nat]
  <2>1. abandoned' = abandoned \/ abandoned' = [abandoned EXCEPT ![chosen] = abandoned[chosen] + 1]
    BY DEF AfterFailure
  <2>2. chosen \in Endpoints /\ abandoned[chosen] + 1 \in Nat
    OBVIOUS
  <2> QED BY <2>1, <2>2
<1>2. /\ registered' \subseteq registered /\ result' = result
      /\ failures' = failures + 1 /\ failures \in 0..2
      /\ pc' = IF failures = 2 THEN "pick" ELSE "attempt"
      /\ failures # 2 => registered' = registered
  BY DEF AfterFailure
<1> QED BY <1>1, <1>2

LEMMA TypeStep == CountInv /\ TypeInv /\ [Next]_vars => TypeInv'
<1> SUFFICES ASSUME CountInv, TypeInv, [Next]_vars PROVE TypeInv'
  OBVIOUS
<1> USE DEF TypeInv, TypeOK, Ranges
<1>1. ASSUME NEW S \in SUBSET Endpoints, Register(S) PROVE TypeInv'
  BY <1>1 DEF Register, callVars, envVars, statVars
<1>2. ASSUME NEW kind \in RequestKinds, NEW hash \in 0..Cardinality(Endpoints), Begin(kind, hash)
      PROVE  TypeInv'
  <2>1. hash \in Nat
    BY BalancerAssumption, FS_CardinalityType
  <2> QED BY <1>2, <2>1 DEF Begin, envVars, statVars
<1>3. CASE NoProvider
  BY <1>3 DEF NoProvider, envVars, statVars
<1>4. CASE Pick
  <2>1. strategy = "connection" => ipConnection \in [Endpoints -> Nat]
    <3>1. ASSUME strategy = "connection", NEW e \in Endpoints PROVE ipConnection[e] \in Nat
      BY <3>1 DEF CountInv, CountersLeak
    <3> QED BY <3>1
  <2>2. GetIP(registered) \subseteq registered
    BY <1>4, <2>1, ChosenIsRegistered DEF Pick
  <2>3. chosen' \in registered /\ Increase(chosen')
    BY <1>4, <2>2 DEF Pick
  <2>4. ipConnection' \in [Endpoints -> Int]
    BY <2>3 DEF Increase
  <2> QED BY <1>4, <2>3, <2>4 DEF Pick, envVars
<1>5. CASE Succeed
  <2>1. ipTimeCost' \in [Endpoints -> 0..MaxCost] /\ ipConnection' \in [Endpoints -> Int]
    BY <1>5 DEF Succeed, RecordTimeCost, Decrease
  <2> QED BY <1>5, <2>1 DEF Succeed, envVars
<1>6. CASE Unreachable \/ Refused \/ Broken \/ Killed
  <2>1. /\ AfterFailure /\ pc = "attempt" /\ alive' \subseteq alive /\ steady' \subseteq steady
        /\ UNCHANGED <<strategy, request, chosen, ipTimeCost, ipConnection>>
    BY <1>6 DEF Unreachable, Refused, Broken, Killed, statVars, envVars
  <2> QED BY <2>1, FailureTypes
<1>7. CASE Spin
  BY <1>7 DEF Spin, statVars
<1>8. ASSUME NEW e \in Endpoints, Crash(e) \/ Restart(e) PROVE TypeInv'
  BY <1>8 DEF Crash, Restart, callVars, statVars
<1>9. CASE UNCHANGED vars
  BY <1>9 DEF vars, callVars, statVars, envVars
<1> QED
  BY <1>1, <1>2, <1>3, <1>4, <1>5, <1>6, <1>7, <1>8, <1>9 DEF Next, BalanceCall

\* Every variable has its type.  In particular each way to choose a provider
\* chooses one that is registered when the attempt begins, and the provider an
\* attempt is made on stays registered (the four getIP, baseBalancer.cpp:24-62).
THEOREM BalancerTypes == Spec => []TypeOK
<1>1. TypeInv => TypeOK
  BY DEF TypeInv
<1>2. CountInv /\ TypeInv /\ [Next]_vars => (CountInv /\ TypeInv)'
  BY CountStep, TypeStep
<1>3. Init => CountInv /\ TypeInv
  BY CountInit, TypeInit
<1> QED BY <1>1, <1>2, <1>3, PTL DEF Spec

-----------------------------------------------------------------------------
(***************************************************************************)
(* The safety core of RequestEnds: a request that has not ended, and does  *)
(* not hang in the middle of an answer, can go on, and each of its steps   *)
(* leaves fewer to come.                                                   *)
(***************************************************************************)

\* The steps that a request may still take: a choice and three attempts for each
\* provider that is registered, and the step that ends it.
StepsLeft ==
  CASE pc \in {"idle", "spin"} -> 0
    [] pc = "pick" -> 4 * Cardinality(registered) + 1
    [] pc = "attempt" -> 4 * Cardinality(registered) - failures

\* Providers die and start, and connections break, but nothing adds to the steps
\* of a request, and each step of balanceCall takes one away.
StepsRunOut ==
  [][(pc \in {"pick", "attempt"}) => /\ registered' \subseteq registered
                                     /\ StepsLeft' <= StepsLeft
                                     /\ BalanceCall => StepsLeft' < StepsLeft]_vars

\* Until a request ends one of balanceCall's branches is open to it: only one that
\* names its client gets as far as an attempt.
CanGoOn ==
  /\ pc = "pick" => registered = {} \/ request.kind = "noip" \/ GetIP(registered) # {}
  /\ pc = "attempt" => chosen \notin alive \/ request.kind \in {"plain", "scalar", "nested"}
  /\ pc \in {"pick", "attempt"} => StepsLeft > 0

EndInv ==
  /\ TypeInv
  /\ pc = "attempt" => request.kind \in {"plain", "scalar", "nested"}

LEMMA EndInvAlways == Spec => []EndInv
<1>1. Init => CountInv /\ EndInv
  BY CountInit, TypeInit DEF EndInv, Init
<1>2. ASSUME CountInv, EndInv, [Next]_vars PROVE (CountInv /\ EndInv)'
  <2>1. CountInv' /\ TypeInv'
    BY <1>2, CountStep, TypeStep DEF EndInv
  <2> DEFINE Known == pc' = "attempt" => request'.kind \in {"plain", "scalar", "nested"}
  <2>2. Known
    <3> USE <1>2 DEF EndInv
    <3>1. ASSUME NEW S \in SUBSET Endpoints, Register(S) PROVE Known
      BY <3>1 DEF Register, callVars
    <3>2. ASSUME NEW kind \in RequestKinds, NEW hash \in 0..Cardinality(Endpoints),
                 Begin(kind, hash)
          PROVE  Known
      BY <3>2 DEF Begin
    <3>3. CASE Pick
      BY <3>3 DEF Pick, TypeInv, TypeOK, RequestKinds
    <3>4. CASE NoProvider \/ Succeed \/ Unreachable \/ Refused \/ Broken \/ Killed \/ Spin
      BY <3>4 DEF NoProvider, Succeed, Unreachable, Refused, Broken, Killed, Spin
    <3>5. ASSUME NEW e \in Endpoints, Crash(e) \/ Restart(e) PROVE Known
      BY <3>5 DEF Crash, Restart, callVars
    <3>6. CASE UNCHANGED vars
      BY <3>6 DEF vars, callVars
    <3> QED BY <3>1, <3>2, <3>3, <3>4, <3>5, <3>6 DEF Next, BalanceCall
  <2> QED BY <2>1, <2>2 DEF EndInv
<1> QED BY <1>1, <1>2, PTL DEF Spec

LEMMA RegisteredCount ==
  ASSUME EndInv
  PROVE  /\ IsFiniteSet(registered) /\ Cardinality(registered) \in Nat
         /\ pc = "attempt" => Cardinality(registered) >= 1
<1>1. IsFiniteSet(registered)
  BY BalancerAssumption, FS_Subset DEF EndInv, TypeInv, TypeOK
<1>2. Cardinality(registered) \in Nat /\ (Cardinality(registered) = 0 => registered = {})
  BY <1>1, FS_CardinalityType, FS_EmptySet
<1>3. pc = "attempt" => registered # {}
  BY DEF EndInv, TypeInv, TypeOK
<1> QED BY <1>1, <1>2, <1>3

\* A failed attempt: the third one takes a provider from the list.
LEMMA FailureShortens ==
  ASSUME EndInv, AfterFailure, pc = "attempt", chosen \in registered
  PROVE  registered' \subseteq registered /\ StepsLeft' < StepsLeft
<1> DEFINE n == Cardinality(registered)
<1>1. n \in Nat /\ n >= 1 /\ IsFiniteSet(registered) /\ failures \in 0..2
  BY RegisteredCount DEF EndInv, TypeInv, Ranges
<1>2. StepsLeft = 4 * n - failures
  BY DEF StepsLeft
<1>3. CASE failures = 2
  <2>1. registered' = registered \ {chosen} /\ pc' = "pick"
    BY <1>3 DEF AfterFailure
  <2>2. Cardinality(registered') = n - 1
    BY <1>1, <2>1, FS_RemoveElement
  <2>3. StepsLeft' = 4 * (n - 1) + 1
    BY <2>1, <2>2 DEF StepsLeft
  <2> HIDE DEF n
  <2>4. 4 * (n - 1) + 1 < 4 * n - 2
    BY <1>1
  <2> QED BY <1>2, <1>3, <2>1, <2>3, <2>4
<1>4. CASE failures # 2
  <2>1. registered' = registered /\ pc' = "attempt" /\ failures' = failures + 1
    BY <1>4 DEF AfterFailure
  <2>2. StepsLeft' = 4 * n - (failures + 1)
    BY <2>1 DEF StepsLeft
  <2> HIDE DEF n
  <2>3. 4 * n - (failures + 1) < 4 * n - failures
    BY <1>1
  <2> QED BY <1>2, <2>1, <2>2, <2>3
<1> QED BY <1>3, <1>4

LEMMA StepsShrink ==
  ASSUME EndInv, [Next]_vars, pc \in {"pick", "attempt"}
  PROVE  /\ registered' \subseteq registered
         /\ StepsLeft' <= StepsLeft
         /\ BalanceCall => StepsLeft' < StepsLeft
<1> DEFINE n == Cardinality(registered)
<1>1. n \in Nat /\ (pc = "attempt" => n >= 1) /\ pc \in {"pick", "attempt"}
      /\ (pc = "attempt" => failures \in 0..2 /\ chosen \in registered)
  BY RegisteredCount DEF EndInv, TypeInv, TypeOK, Ranges
<1>2. StepsLeft \in Nat /\ StepsLeft > 0
  <2>1. pc = "pick" => StepsLeft = 4 * n + 1
    BY DEF StepsLeft
  <2>2. pc = "attempt" => StepsLeft = 4 * n - failures
    BY DEF StepsLeft
  <2> HIDE DEF n
  <2> QED BY <1>1, <2>1, <2>2
<1>3. CASE BalanceCall
  <2>1. CASE NoProvider \/ Succeed \/ Spin
    <3>1. pc' \in {"idle", "spin"} /\ registered' = registered
      BY <2>1 DEF NoProvider, Succeed, Spin
    <3>2. StepsLeft' = 0
      BY <3>1 DEF StepsLeft
    <3> QED BY <1>2, <3>1, <3>2
  <2>2. CASE Pick
    <3>1. pc = "pick" /\ pc' = "attempt" /\ failures' = 0 /\ registered' = registered
      BY <2>2 DEF Pick
    <3>2. StepsLeft = 4 * n + 1 /\ StepsLeft' = 4 * n - 0
      BY <3>1 DEF StepsLeft
    <3> HIDE DEF n
    <3>3. 4 * n - 0 < 4 * n + 1
      BY <1>1
    <3> QED BY <1>2, <3>1, <3>2, <3>3
  <2>3. CASE Unreachable \/ Refused \/ Broken \/ Killed
    <3>1. AfterFailure /\ pc = "attempt"
      BY <2>3 DEF Unreachable, Refused, Broken, Killed
    <3>2. registered' \subseteq registered /\ StepsLeft' < StepsLeft
      BY <1>1, <3>1, FailureShortens
    <3>3. StepsLeft' \in Int
      <4>1. IsFiniteSet(registered')
        BY <3>2, RegisteredCount, FS_Subset
      <4>2. Cardinality(registered') \in Nat /\ failures' \in Int /\ pc' \in {"pick", "attempt"}
        BY <1>1, <3>1, <4>1, FS_CardinalityType DEF AfterFailure
      <4> QED BY <4>2 DEF StepsLeft
    <3> QED BY <1>2, <3>2, <3>3
  <2> QED BY <1>3, <2>1, <2>2, <2>3 DEF BalanceCall
<1>4. CASE ~BalanceCall
  <2>1. UNCHANGED <<registered, pc, failures>>
    BY <1>4 DEF Next, Register, Begin, Crash, Restart, callVars, vars
  <2>2. StepsLeft' = StepsLeft
    BY <2>1 DEF StepsLeft
  <2> QED BY <1>2, <1>4, <2>1, <2>2
<1> QED BY <1>3, <1>4

\* balanceCall cannot go round for ever: whatever providers do meanwhile, a request
\* takes at most one choice and three attempts for each of those registered when it
\* began (baseBalancer.cpp:24-62).
THEOREM RequestShrinks == Spec => StepsRunOut
<1>1. EndInv /\ [Next]_vars =>
        [(pc \in {"pick", "attempt"}) => /\ registered' \subseteq registered
                                         /\ StepsLeft' <= StepsLeft
                                         /\ BalanceCall => StepsLeft' < StepsLeft]_vars
  BY StepsShrink
<1> QED BY <1>1, EndInvAlways, PTL DEF Spec, StepsRunOut

\* While steps are left one of them is possible (baseBalancer.cpp:24-62).
THEOREM RequestGoesOn == Spec => []CanGoOn
<1>1. EndInv => CanGoOn
  <2> SUFFICES ASSUME EndInv PROVE CanGoOn
    OBVIOUS
  <2>1. pc = "pick" /\ registered # {} => GetIP(registered) # {}
    BY DEF GetIP, EndInv, TypeInv, Ranges
  <2>2. ASSUME pc \in {"pick", "attempt"} PROVE StepsLeft > 0
    <3> DEFINE n == Cardinality(registered)
    <3>1. n \in Nat /\ (pc = "attempt" => n >= 1 /\ failures \in 0..2) /\ pc \in {"pick", "attempt"}
      BY <2>2, RegisteredCount DEF EndInv, TypeInv, TypeOK, Ranges
    <3>2. (pc = "pick" => StepsLeft = 4 * n + 1) /\ (pc = "attempt" => StepsLeft = 4 * n - failures)
      BY DEF StepsLeft
    <3> HIDE DEF n
    <3> QED BY <3>1, <3>2
  <2> QED BY <2>1, <2>2 DEF CanGoOn, EndInv
<1> QED BY <1>1, EndInvAlways, PTL
=============================================================================
