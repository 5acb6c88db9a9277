------------------------------- MODULE Dotter -------------------------------
(***************************************************************************)
(* The counting service: dotterClient (dotter/dotterClient.cpp) in every   *)
(* process that counts, dotServer (dotter.cpp), and the sorted set that    *)
(* redisZset (cache/redisZset.cpp) keeps in redis.                         *)
(*                                                                         *)
(* A client adds to a map in memory; its thread swaps the map out every    *)
(* five seconds and reports it with one call, which the balancer passes to *)
(* one of the servers and repeats after a failure.  A server adds each     *)
(* count to redis with three commands: read the member, remove it, add its *)
(* successor.  A server handles one report at a time, because handlers run *)
(* in the pool; servers share redis.                                       *)
(*                                                                         *)
(* A dot is a name with a second: the member of dot d with count n is the  *)
(* string "n:second" with that second as its score.                        *)
(***************************************************************************)
EXTENDS Integers, FiniteSets, FiniteSetsExt, Functions

CONSTANTS
  Clients,     \* dotterClientImpl objects
  Servers,     \* dotServer processes
  Dots,        \* names, each with a second
  MaxCounts,   \* calls of throughput: bounds the model
  MaxCrashes,  \* failures of servers and of connections to a balancer: bounds
               \* the model.  redis always answers: the returns of add for a NULL
               \* reply (redisZset.cpp:20, 34 and 41) are left out
  NoDot        \* what a server between two adds works on

ASSUME DotterAssumption ==
  /\ IsFiniteSet(Clients) /\ IsFiniteSet(Servers)
  /\ NoDot \notin Dots
  /\ MaxCounts \in Nat /\ MaxCrashes \in Nat

VARIABLES
  dotMap,      \* dotterClientImpl::dotMap: the sum for each dot
  clientPc,    \* "sleep", "report" or "gone"
  stopping,    \* the clients whose destructor runs
  tmpMap,      \* report's tmpMap, while it is being reported
  serving,     \* for each server, {} or the client whose report it handles
  todo,        \* what is left of that report
  dot, origin, \* redisZset::add: the dot, and originCount
  serverPc,    \* "up", "down", or add's next command: "range", "rem", "zadd"
  zset,        \* external: for each dot, the counts of its members in redis
  counted,     \* history: what was passed to throughput, for each dot
  crashes,     \* failures so far
  disturbed    \* history: the dots of which a report failed, or that two servers
               \* worked on at the same time

clientVars == <<dotMap, clientPc, stopping, tmpMap>>
serverVars == <<serving, todo, dot, origin, serverPc>>
vars == <<clientVars, serverVars, zset, counted, crashes, disturbed>>

Empty == [d \in Dots |-> 0]
NonZero(m) == {d \in Dots : m[d] # 0}

Init ==
  /\ dotMap = [c \in Clients |-> Empty]
  /\ clientPc = [c \in Clients |-> "sleep"]
  /\ stopping = {}
  /\ tmpMap = [c \in Clients |-> Empty]
  /\ serving = [s \in Servers |-> {}]
  /\ todo = [s \in Servers |-> Empty]
  /\ dot = [s \in Servers |-> NoDot]
  /\ origin = [s \in Servers |-> 0]
  /\ serverPc = [s \in Servers |-> "up"]
  /\ zset = [d \in Dots |-> {}]
  /\ counted = Empty
  /\ crashes = 0
  /\ disturbed = {}

-----------------------------------------------------------------------------
(***************************************************************************)
(* dotterClientImpl.                                                       *)
(***************************************************************************)

\* throughput(key,1): add under the mutex.
Count(c, d) ==
  /\ c \notin stopping /\ clientPc[c] # "gone"
  /\ MapThenSumSet(LAMBDA x : counted[x], Dots) < MaxCounts
  /\ dotMap' = [dotMap EXCEPT ![c][d] = @ + 1]
  /\ counted' = [counted EXCEPT ![d] = @ + 1]
  /\ UNCHANGED <<clientPc, stopping, tmpMap, serverVars, zset, crashes, disturbed>>

\* Mistake: the map is copied and not emptied.
SwapKeeps(c) == UNCHANGED dotMap

\* swap(dotMap,tmpMap)
Swap(c) == dotMap' = [dotMap EXCEPT ![c] = Empty]

\* report: by the thread, or for the last time by the destructor.  An empty map
\* is not reported.
Report(c) ==
  /\ clientPc[c] = "sleep"
  /\ tmpMap' = [tmpMap EXCEPT ![c] = dotMap[c]]
  /\ Swap(c)
  /\ clientPc' = [clientPc EXCEPT ![c] =
       IF NonZero(dotMap[c]) # {} THEN "report" ELSE IF c \in stopping THEN "gone" ELSE "sleep"]
  /\ UNCHANGED <<stopping, serverVars, zset, counted, crashes, disturbed>>

\* Mistake: the destructor ends the thread, and with it the client.
ReportedStops(c) ==
  clientPc' = [clientPc EXCEPT ![c] = IF c \in stopping THEN "gone" ELSE "sleep"]

\* The call has returned.  The thread leaves its loop when the client is being
\* destroyed, and the destructor reports once more.
Reported(c) == clientPc' = [clientPc EXCEPT ![c] = "sleep"]

\* ~dotterClientImpl
Stop(c) ==
  /\ c \notin stopping /\ clientPc[c] # "gone"
  /\ stopping' = stopping \cup {c}
  /\ UNCHANGED <<dotMap, clientPc, tmpMap, serverVars, zset, counted, crashes, disturbed>>

-----------------------------------------------------------------------------
(***************************************************************************)
(* dotServer: throughput, which calls redisZset::add for each count.       *)
(***************************************************************************)

ServerStep(s, from, to) ==
  /\ serverPc[s] = from
  /\ serverPc' = [serverPc EXCEPT ![s] = to]

\* Mistake: a second handler starts while the first one runs.
ReceiveBusy(s, c) ==
  /\ serverPc[s] = "up"
  /\ clientPc[c] = "report" /\ \A x \in Servers : c \notin serving[x]
  /\ serving' = [serving EXCEPT ![s] = @ \cup {c}]
  /\ todo' = [todo EXCEPT ![s] = tmpMap[c]]
  /\ UNCHANGED <<clientVars, dot, origin, serverPc, zset, counted, crashes, disturbed>>

\* The balancer passes a report to a server that runs and is free.
Receive(s, c) ==
  /\ serverPc[s] = "up" /\ serving[s] = {}
  /\ clientPc[c] = "report" /\ \A x \in Servers : c \notin serving[x]
  /\ serving' = [serving EXCEPT ![s] = {c}]
  /\ todo' = [todo EXCEPT ![s] = tmpMap[c]]
  /\ UNCHANGED <<clientVars, dot, origin, serverPc, zset, counted, crashes, disturbed>>

\* The next count of the report: add(key,timestamp,count).
Add(s, d) ==
  /\ serving[s] # {} /\ d \in NonZero(todo[s])
  /\ ServerStep(s, "up", "range")
  /\ dot' = [dot EXCEPT ![s] = d]
  /\ disturbed' = IF \E x \in Servers : dot[x] = d THEN disturbed \cup {d} ELSE disturbed
  /\ UNCHANGED <<clientVars, serving, todo, origin, zset, counted, crashes>>

\* add is over, whether it returns true or false.
AddEnds(s) ==
  /\ dot' = [dot EXCEPT ![s] = NoDot]
  /\ origin' = [origin EXCEPT ![s] = 0]
  /\ todo' = [todo EXCEPT ![s][dot[s]] = 0]

\* ZRANGEBYSCORE: with two members for the score, add gives up.
RangeByScore(s) ==
  LET counts == zset[dot[s]]
  IN  /\ serverPc[s] = "range"
      /\ \/ /\ counts = {}
            /\ ServerStep(s, "range", "zadd")
            /\ UNCHANGED <<dot, origin, todo>>
         \/ /\ Cardinality(counts) = 1
            /\ ServerStep(s, "range", "rem")
            /\ origin' = [origin EXCEPT ![s] = CHOOSE n \in counts : TRUE]
            /\ UNCHANGED <<dot, todo>>
         \/ /\ Cardinality(counts) > 1
            /\ ServerStep(s, "range", "up")
            /\ AddEnds(s)
      /\ UNCHANGED <<clientVars, serving, zset, counted, crashes, disturbed>>

\* ZREM of the member that was read.
Rem(s) ==
  /\ ServerStep(s, "rem", "zadd")
  /\ zset' = [zset EXCEPT ![dot[s]] = @ \ {origin[s]}]
  /\ UNCHANGED <<clientVars, serving, todo, dot, origin, counted, crashes, disturbed>>

\* Mistake: the count replaces the one that was read.
NewCountOnly(s) == todo[s][dot[s]]

\* originCount+count
NewCount(s) == origin[s] + todo[s][dot[s]]

\* ZADD of the successor: nothing is added to a set that has that member already.
ZAdd(s) ==
  /\ ServerStep(s, "zadd", "up")
  /\ zset' = [zset EXCEPT ![dot[s]] = @ \cup {NewCount(s)}]
  /\ AddEnds(s)
  /\ UNCHANGED <<clientVars, serving, counted, crashes, disturbed>>

\* The report is done, and its status, which the client ignores, is returned.
Reply(s) ==
  \E c \in serving[s] :
    /\ serverPc[s] = "up" /\ NonZero(todo[s]) = {}
    /\ serving' = [serving EXCEPT ![s] = {}]
    /\ tmpMap' = [tmpMap EXCEPT ![c] = Empty]
    /\ Reported(c)
    /\ UNCHANGED <<dotMap, stopping, todo, dot, origin, serverPc, zset, counted, crashes, disturbed>>

Serve(s) ==
  \/ \E d \in Dots : Add(s, d)
  \/ RangeByScore(s) \/ Rem(s) \/ ZAdd(s) \/ Reply(s)

-----------------------------------------------------------------------------
(***************************************************************************)
(* Failures.                                                               *)
(***************************************************************************)

\* A server dies with the report it works on.  The call is made again, in full.
Crash(s) ==
  /\ serverPc[s] # "down" /\ crashes < MaxCrashes
  /\ crashes' = crashes + 1
  /\ serverPc' = [serverPc EXCEPT ![s] = "down"]
  /\ disturbed' = disturbed \cup UNION {NonZero(tmpMap[c]) : c \in serving[s]}
  /\ serving' = [serving EXCEPT ![s] = {}]
  /\ todo' = [todo EXCEPT ![s] = Empty]
  /\ dot' = [dot EXCEPT ![s] = NoDot]
  /\ origin' = [origin EXCEPT ![s] = 0]
  /\ UNCHANGED <<clientVars, zset, counted>>

Restart(s) ==
  /\ ServerStep(s, "down", "up")
  /\ UNCHANGED <<clientVars, serving, todo, dot, origin, zset, counted, crashes, disturbed>>

\* The balancer has no server left, or the connection to one of several balancers
\* broke and what remoteCall sends next is wrapped twice: the answer is an empty
\* object, the report is lost and the client goes on.  (A server that is sent the
\* double wrapping has no such handler, and the exception ends its process,
\* rpcServer.cpp:101: Crash stands for these deaths, one by one.)
Unserved(c) ==
  /\ clientPc[c] = "report"
  /\ \A s \in Servers : c \notin serving[s]
  /\ \/ /\ \A s \in Servers : serverPc[s] = "down"
        /\ UNCHANGED crashes
     \/ /\ crashes < MaxCrashes
        /\ crashes' = crashes + 1
  /\ disturbed' = disturbed \cup NonZero(tmpMap[c])
  /\ tmpMap' = [tmpMap EXCEPT ![c] = Empty]
  /\ Reported(c)
  /\ UNCHANGED <<dotMap, stopping, serverVars, zset, counted>>

\* The client has no balancer left: "connect error" in its thread, or in its
\* destructor, ends the process.
Die(c) ==
  /\ clientPc[c] = "report" /\ crashes < MaxCrashes
  /\ \A s \in Servers : c \notin serving[s]
  /\ crashes' = crashes + 1
  /\ disturbed' = disturbed \cup NonZero(tmpMap[c]) \cup NonZero(dotMap[c])
  /\ clientPc' = [clientPc EXCEPT ![c] = "gone"]
  /\ tmpMap' = [tmpMap EXCEPT ![c] = Empty]
  /\ dotMap' = [dotMap EXCEPT ![c] = Empty]
  /\ UNCHANGED <<stopping, serverVars, zset, counted>>

-----------------------------------------------------------------------------
Next ==
  \/ \E c \in Clients :
       Report(c) \/ Stop(c) \/ Unserved(c) \/ Die(c) \/ \E d \in Dots : Count(c, d)
  \/ \E s \in Servers :
       Serve(s) \/ Crash(s) \/ Restart(s) \/ \E c \in Clients : Receive(s, c)

Spec == Init /\ [][Next]_vars

\* The reporting threads run, servers that run work, and a report finds a server.
FairSpec ==
  /\ Spec
  /\ \A c \in Clients :
       /\ WF_vars(Report(c))
       /\ SF_vars(\E s \in Servers : Receive(s, c))
  /\ \A s \in Servers : WF_vars(Serve(s)) /\ WF_vars(Restart(s))

-----------------------------------------------------------------------------
(***************************************************************************)
(* Properties.                                                             *)
(***************************************************************************)

TypeOK ==
  /\ dotMap \in [Clients -> [Dots -> Nat]] /\ tmpMap \in [Clients -> [Dots -> Nat]]
  /\ clientPc \in [Clients -> {"sleep", "report", "gone"}]
  /\ stopping \subseteq Clients
  /\ \A s \in Servers : Cardinality(serving[s]) <= 1
  /\ \A s, x \in Servers : s # x => serving[s] \cap serving[x] = {}
  /\ todo \in [Servers -> [Dots -> Nat]]
  /\ dot \in [Servers -> Dots \cup {NoDot}]
  /\ origin \in [Servers -> Nat]
  /\ serverPc \in [Servers -> {"up", "down", "range", "rem", "zadd"}]
  /\ \A d \in Dots : zset[d] \subseteq Nat \ {0}

\* What redis holds for a dot, with the count a server has removed and not yet
\* written back.
Stored(d) ==
  SumFunction([n \in zset[d] |-> n])
  + SumFunction([s \in Servers |-> IF dot[s] = d /\ serverPc[s] = "zadd" THEN origin[s] ELSE 0])

\* What was counted and has not reached redis: in the maps of clients that are not
\* gone, in reports that no server has, and in what servers have left of theirs.
OnTheWay(d) ==
  SumFunction([c \in Clients |-> IF clientPc[c] = "gone" THEN 0 ELSE dotMap[c][d]])
  + SumFunction([c \in Clients |-> IF \E s \in Servers : c \in serving[s] THEN 0 ELSE tmpMap[c][d]])
  + SumFunction([s \in Servers |-> todo[s][d]])

\* Nothing is lost or counted twice, except for dots of which a report failed or
\* that two servers worked on at the same time.
CountsConserved ==
  \A d \in Dots \ disturbed : Stored(d) + OnTheWay(d) = counted[d]

\* The count in redis becomes the count of the clients, for the same dots.
CountsArrive ==
  \A d \in Dots, n \in 1..MaxCounts :
    counted[d] = n ~> (SumSet(zset[d]) >= n \/ d \in disturbed)
=============================================================================
