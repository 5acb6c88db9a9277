------------------------------ MODULE Balancer ------------------------------
(***************************************************************************)
(* The balancer's requestService: baseBalancer::balanceCall (balancers/    *)
(* baseBalancer.cpp) with the four ways to choose a provider: at random    *)
(* (baseBalancer), by a hash of the client's address (hashBalancer), by    *)
(* the time calls took (minimumBalancer) and by the calls under way        *)
(* (connectionBalancer).                                                   *)
(*                                                                         *)
(* One request is handled at a time, because handlers run in the pool.     *)
(* The addresses of the service are what ServiceCache holds for it.  An    *)
(* attempt is a new rpcClient for one address with one remoteCall; seen    *)
(* from here it gives what the provider sent, or "connect error", or does  *)
(* not return.                                                             *)
(***************************************************************************)
EXTENDS Integers, FiniteSets, FiniteSetsExt

CONSTANTS
  Endpoints,   \* addresses of providers; their order is that of the strings
  MaxCost,     \* times measured are 0..MaxCost: bounds the model
  MaxRequests, \* requests in all: bounds the model
  MaxCrashes   \* crashes of providers and broken connections: bounds the model

ASSUME BalancerAssumption ==
  /\ Endpoints \subseteq Nat /\ IsFiniteSet(Endpoints)
  /\ MaxCost \in Nat /\ MaxRequests \in Nat /\ MaxCrashes \in Nat

VARIABLES
  strategy,    \* which class the balancer is an object of
  registered,  \* the addresses the cache lists for the service
  pc,          \* "idle", "pick", "attempt" or "spin", in remoteCall for ever
  request,     \* the kind of request, and the hash of its client's address
  chosen,      \* the provider chosen
  failures,    \* attempts on it that failed
  result,      \* what the last request was answered with
  ipTimeCost,  \* baseBalancer::ipTimeCostCache
  ipConnection,\* connectionBalancer::ipConnectionCache
  requests,    \* requests so far
  alive,       \* external: the providers that run
  crashes,     \* crashes so far
  steady,      \* history: providers registered and reachable since pc was "idle"
  abandoned    \* history: times each provider was given up

callVars == <<pc, request, chosen, failures, result>>
statVars == <<ipTimeCost, ipConnection>>
envVars == <<alive, crashes>>
vars == <<strategy, registered, callVars, statVars, requests, envVars, steady, abandoned>>

\* A request is "plain", or its answer is a number or a string by itself ("scalar"),
\* or it lacks the client's address ("noip"), or is itself a requestService
\* ("nested"), which a provider does not know.
RequestKinds == {"plain", "scalar", "noip", "nested"}

Init ==
  /\ strategy \in {"random", "hash", "minimum", "connection"}
  /\ registered = {}
  /\ pc = "idle"
  /\ request = [kind |-> "plain", hash |-> 0]
  /\ chosen = 0
  /\ failures = 0
  /\ result = "none"
  /\ ipTimeCost = [e \in Endpoints |-> 0]
  /\ ipConnection = [e \in Endpoints |-> 0]
  /\ requests = 0
  /\ alive \in SUBSET Endpoints
  /\ crashes = 0
  /\ steady = {}
  /\ abandoned = [e \in Endpoints |-> 0]

-----------------------------------------------------------------------------
\* newService, insertService, eraseService: between requests.
Register(addresses) ==
  /\ pc = "idle" /\ requests < MaxRequests
  /\ registered' = addresses
  /\ UNCHANGED <<strategy, callVars, statVars, requests, envVars, steady, abandoned>>

Begin(kind, hash) ==
  /\ pc = "idle" /\ requests < MaxRequests
  /\ requests' = requests + 1
  /\ request' = [kind |-> kind, hash |-> hash]
  /\ pc' = "pick"
  /\ result' = "none"
  /\ steady' = registered \cap alive
  /\ UNCHANGED <<strategy, registered, chosen, failures, statVars, envVars, abandoned>>

\* The element of a set that has k smaller ones: the k-th the loops come to.
Nth(S, k) == CHOOSE e \in S : Cardinality({x \in S : x < e}) = k

\* minimumBalancer::getIP takes max_element, that is, the first of the providers
\* that took longest.
Slowest(S) == Min({e \in S : \A x \in S : ipTimeCost[x] <= ipTimeCost[e]})

FewestCalls(S) == Min({e \in S : \A x \in S : ipConnection[e] <= ipConnection[x]})

\* getIP: what each strategy may choose.
GetIP(S) ==
  CASE strategy = "random" -> S
    [] strategy = "hash" -> {Nth(S, request.hash % Cardinality(S))}
    [] strategy = "minimum" -> {Slowest(S)}
    [] strategy = "connection" -> {FewestCalls(S)}

\* LRUAtomicMapCache::increase and decrease.  Its 100 entries are enough for the
\* providers of the model.
Increase(e) ==
  ipConnection' = IF strategy = "connection" THEN [ipConnection EXCEPT ![e] = @ + 1]
                  ELSE ipConnection

Decrease(e) ==
  ipConnection' = IF strategy = "connection" THEN [ipConnection EXCEPT ![e] = @ - 1]
                  ELSE ipConnection

\* "service not found", or params["ip"] is not a string: {} is returned.
NoProvider ==
  /\ pc = "pick"
  /\ registered = {} \/ request.kind = "noip"
  /\ pc' = "idle"
  /\ result' = "empty"
  /\ UNCHANGED <<strategy, registered, request, chosen, failures, statVars, requests, envVars,
                 steady, abandoned>>

\* Mistake: the failures of the last provider are counted too.
PickCountsOn ==
  /\ pc = "pick"
  /\ registered # {} /\ request.kind # "noip"
  /\ \E e \in GetIP(registered) : chosen' = e
  /\ pc' = "attempt"
  /\ UNCHANGED <<strategy, registered, request, failures, result, statVars, requests, envVars,
                 steady, abandoned>>

Pick ==
  /\ pc = "pick"
  /\ registered # {} /\ request.kind # "noip"
  /\ \E e \in GetIP(registered) :
       /\ chosen' = e
       /\ Increase(e)
  /\ pc' = "attempt"
  /\ failures' = 0
  /\ UNCHANGED <<strategy, registered, request, result, ipTimeCost, requests, envVars, steady,
                 abandoned>>

\* Mistake: the calls under way are not counted down.
RecordTimeOnly(e) ==
  /\ \E t \in 0..MaxCost : ipTimeCost' = [ipTimeCost EXCEPT ![e] = t]
  /\ UNCHANGED ipConnection

\* recordTimeCost.  The time may be anything: t0 is not set before the first
\* attempt that connects, and is kept from one provider to the next.
RecordTimeCost(e) ==
  /\ \E t \in 0..MaxCost : ipTimeCost' = [ipTimeCost EXCEPT ![e] = t]
  /\ Decrease(e)

\* The provider answers, with an object, an array, or "failed" to a request that was
\* cut.
Succeed ==
  /\ pc = "attempt" /\ chosen \in alive /\ request.kind = "plain"
  /\ RecordTimeCost(chosen)
  /\ pc' = "idle"
  /\ result' = "answer"
  /\ UNCHANGED <<strategy, registered, request, chosen, failures, requests, envVars, steady,
                 abandoned>>

\* Mistake: the request is given up with its first provider.
GiveUpCall ==
  /\ failures' = failures + 1
  /\ pc' = IF failures = 2 THEN "idle" ELSE "attempt"
  /\ result' = IF failures = 2 THEN "empty" ELSE result
  /\ registered' = IF failures = 2 THEN registered \ {chosen} ELSE registered
  /\ abandoned' = IF failures = 2 THEN [abandoned EXCEPT ![chosen] = @ + 1] ELSE abandoned

\* Mistake: failures are not counted.
RetryForever ==
  /\ pc' = "attempt"
  /\ UNCHANGED <<failures, registered, result, abandoned>>

\* "connect error": two more attempts, then serviceCache.erase and another choice.
AfterFailure ==
  /\ failures' = failures + 1
  /\ UNCHANGED result
  /\ pc' = IF failures = 2 THEN "pick" ELSE "attempt"
  /\ registered' = IF failures = 2 THEN registered \ {chosen} ELSE registered
  /\ abandoned' = IF failures = 2 THEN [abandoned EXCEPT ![chosen] = @ + 1] ELSE abandoned

\* The provider cannot be reached.
Unreachable ==
  /\ pc = "attempt" /\ chosen \notin alive
  /\ AfterFailure
  /\ UNCHANGED <<strategy, request, chosen, statVars, requests, envVars, steady>>

\* The provider executes the request and sends a number or a string.  JsonParser, with
\* which the balancer reads it, refuses whatever is not an object or an array, and
\* remoteCall takes that for a broken connection.
Refused ==
  /\ pc = "attempt" /\ chosen \in alive /\ request.kind = "scalar"
  /\ AfterFailure
  /\ UNCHANGED <<strategy, request, chosen, statVars, requests, envVars, steady>>

\* The connection ends before the answer: the provider dies, or closes it because
\* its slots are taken.
Broken ==
  /\ pc = "attempt" /\ chosen \in alive
  /\ crashes < MaxCrashes
  /\ crashes' = crashes + 1
  /\ alive' \in {alive, alive \ {chosen}}
  /\ steady' = steady \ {chosen}
  /\ AfterFailure
  /\ UNCHANGED <<strategy, request, chosen, statVars, requests>>

\* A provider that gets a requestService calls an empty std::function; the
\* exception reaches its poll thread and ends its process.
Killed ==
  /\ pc = "attempt" /\ chosen \in alive /\ request.kind = "nested"
  /\ alive' = alive \ {chosen}
  /\ steady' = steady \ {chosen}
  /\ AfterFailure
  /\ UNCHANGED <<strategy, request, chosen, statVars, requests, crashes>>

\* The connection ends in the middle of the answer: remoteCall reads at the end of
\* the stream for ever, and the handler does not return.
Spin ==
  /\ pc = "attempt" /\ chosen \in alive
  /\ crashes < MaxCrashes
  /\ crashes' = crashes + 1
  /\ alive' \in {alive, alive \ {chosen}}
  /\ steady' = steady \ {chosen}
  /\ pc' = "spin"
  /\ UNCHANGED <<strategy, registered, request, chosen, failures, result, statVars, requests,
                 abandoned>>

BalanceCall == NoProvider \/ Pick \/ Succeed \/ Unreachable \/ Refused \/ Broken \/ Killed \/ Spin

\* External: a provider dies or starts.
Crash(e) ==
  /\ e \in alive /\ crashes < MaxCrashes
  /\ crashes' = crashes + 1
  /\ alive' = alive \ {e}
  /\ steady' = steady \ {e}
  /\ UNCHANGED <<strategy, registered, callVars, statVars, requests, abandoned>>

Restart(e) ==
  /\ e \in Endpoints \ alive
  /\ alive' = alive \cup {e}
  /\ UNCHANGED <<strategy, registered, callVars, statVars, requests, crashes, steady, abandoned>>

-----------------------------------------------------------------------------
Next ==
  \/ \E S \in SUBSET Endpoints : Register(S)
  \/ \E kind \in RequestKinds, hash \in 0..Cardinality(Endpoints) : Begin(kind, hash)
  \/ BalanceCall
  \/ \E e \in Endpoints : Crash(e) \/ Restart(e)

Spec == Init /\ [][Next]_vars

\* The handler runs, and the provider or the kernel answers.
FairSpec == Spec /\ WF_vars(BalanceCall)

-----------------------------------------------------------------------------
(***************************************************************************)
(* Properties.                                                             *)
(***************************************************************************)

TypeOK ==
  /\ registered \cup alive \cup steady \subseteq Endpoints
  /\ pc \in {"idle", "pick", "attempt", "spin"}
  /\ request.kind \in RequestKinds
  /\ pc = "attempt" => chosen \in registered
  /\ failures \in 0..3
  /\ result \in {"none", "empty", "answer"}
  /\ ipTimeCost \in [Endpoints -> 0..MaxCost]
  /\ ipConnection \in [Endpoints -> Int]

\* A provider that could be reached from the moment a request arrived stays
\* registered, only others are erased; so a request that knows its client is
\* answered if one of the service's providers is like that, whatever happens to
\* the others and whichever strategy chooses.  Not so if the answer is a number or a
\* string: then a provider is erased because it answered, and the request goes from
\* one to the next until none is registered.
AnsweredIfSteady ==
  /\ pc # "idle" /\ request.kind # "scalar" => steady \subseteq registered
  /\ pc = "idle" /\ request.kind = "plain" /\ result = "empty" => steady = {}

\* connectionBalancer's counters are the calls under way plus one for each time a
\* provider was given up: failures are never counted down, so a provider that
\* comes back is avoided for good.
CountersLeak ==
  strategy = "connection" => \A e \in Endpoints :
    ipConnection[e] = abandoned[e] + (IF pc \in {"attempt", "spin"} /\ chosen = e THEN 1 ELSE 0)

\* A request ends, because each round removes a provider, unless a connection ends in
\* the middle of an answer.
RequestEnds == pc = "pick" ~> pc \in {"idle", "spin"}
=============================================================================
