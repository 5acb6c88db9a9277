--------------------------- MODULE RpcClientProofs ---------------------------
(***************************************************************************)
(* Proofs about RpcClient: its types, TablesAgree, ResultIsOwn, and that   *)
(* it implements RemoteCalls, for any number of threads that call, any     *)
(* addresses, either mode, and any number of calls, crashes and cuts.      *)
(*                                                                         *)
(* The invariant is ClientInv.  Three things make it inductive: who is     *)
(* between the choice of a connection and its end owns rpcMutex and has    *)
(* the connection to itself (Holding); a connection nobody holds carries   *)
(* no request and no first segment of a reply, only what may be left of    *)
(* the last one (Quiet); and a connection that is held carries at most one *)
(* first segment, counting what has been read of the reply, and it is of   *)
(* the caller's own call (Own, AtMostOne).  Nothing is known of what a     *)
(* connection that is cut carries (CutKnown).  For the refinement,         *)
(* CallsInv adds that a reply has begun only after its request was         *)
(* executed (Served).  RepliesInv, that replies are whole and what a       *)
(* thread waits for is on its connection, gives the safety core of         *)
(* CallsEnd.                                                               *)
(***************************************************************************)
EXTENDS RpcClient, FiniteSetTheorems, SequenceTheorems, NaturalsInduction,
        WellFoundedInduction, TLAPS

-----------------------------------------------------------------------------
(***************************************************************************)
(* The invariant.                                                          *)
(***************************************************************************)

CallIds == Threads \X Nat
Segs == [id : CallIds, wrapped : Nat, k : 1..4]
Requests == {NoRequest} \cup [id : CallIds, wraps : Nat]
Sockets == [addr : Addresses, ended : BOOLEAN, cut : BOOLEAN, request : Requests,
            coming : Seq(Segs), inbox : Seq(Segs)]

\* Where a thread is while it has a connection.
Using == {"read", "more", "failed", "spin"}
Places == Using \cup {"idle", "connect", "sleep", "none", "lock", "pick"}

Types ==
  /\ connectedIpports \subseteq Addresses
  /\ DOMAIN connectedIpportsMap \subseteq Fds
  /\ connectedIpportsMap \in [DOMAIN connectedIpportsMap -> Addresses]
  /\ fdCache \subseteq Fds /\ serviceFdCache \subseteq Fds
  /\ rpcMutex \subseteq Threads
  /\ pc \in [Threads -> Places]
  /\ held \in [Threads -> Fds \cup {0}]
  /\ got \in [Threads -> Seq(Segs)]
  /\ wraps \in [Threads -> Nat]
  /\ calls \in [Callers -> Nat]
  /\ DOMAIN outcome = Callers
  /\ toConnect \subseteq Addresses
  /\ phase \in {"hosts", "providers", "built"}
  /\ status \in {"up", "refused", "terminated"}
  /\ sockets \in [DOMAIN connectedIpportsMap -> Sockets]
  /\ executed \in [Callers -> Nat] /\ dropped \in [Callers -> Nat] /\ late \in [Callers -> Nat]

\* The two tables and the caches, as in TablesAgree.
Tables ==
  /\ fdCache \cap serviceFdCache = {}
  /\ fdCache \cup serviceFdCache = DOMAIN connectedIpportsMap
  /\ \A fd, fe \in DOMAIN connectedIpportsMap :
       connectedIpportsMap[fd] = connectedIpportsMap[fe] => fd = fe
  /\ connectedIpports = {connectedIpportsMap[fd] : fd \in DOMAIN connectedIpportsMap}
  /\ \A fd \in DOMAIN connectedIpportsMap : sockets[fd].addr = connectedIpportsMap[fd]

\* rpcMutex is owned by the thread in the body of remoteCall, and by one.
Holding ==
  /\ \A t, u \in rpcMutex : t = u
  /\ \A t \in Threads :
       /\ t \in rpcMutex <=> pc[t] \in Using \cup {"pick"}
       /\ held[t] # 0 <=> pc[t] \in Using
       /\ held[t] # 0 => held[t] \in Cache(t)
       /\ got[t] # <<>> => pc[t] \in {"more", "failed", "spin"}
       /\ pc[t] = "more" => got[t] # <<>>

HeadIn(segs) == \E i \in DOMAIN segs : segs[i].k = 1

HeadsOf(segs, id) == \A i \in DOMAIN segs : segs[i].k = 1 => segs[i].id = id

\* Nobody waits for anything on a connection that nobody holds.
Quiet ==
  \A fd \in DOMAIN sockets :
    (\A t \in Threads : held[t] # fd) =>
      /\ sockets[fd].request = NoRequest
      /\ ~HeadIn(sockets[fd].inbox) /\ ~HeadIn(sockets[fd].coming)

\* There is one reply on a connection, or none.
AtMostOne ==
  \A fd \in DOMAIN sockets :
    /\ sockets[fd].request # NoRequest => ~HeadIn(sockets[fd].inbox) /\ ~HeadIn(sockets[fd].coming)
    /\ HeadIn(sockets[fd].coming) => ~HeadIn(sockets[fd].inbox)
    /\ \A i, j \in DOMAIN sockets[fd].coming :
         sockets[fd].coming[i].k = 1 /\ sockets[fd].coming[j].k = 1 => i = j

\* What is on the connection a thread holds is of its own call, and what it has
\* read is the start of the only reply.
OwnStream(t) ==
  LET s == sockets[held[t]]
  IN  /\ s.request # NoRequest => s.request.id = CallId(t)
      /\ HeadsOf(s.inbox, CallId(t)) /\ HeadsOf(s.coming, CallId(t))
      /\ got[t] # <<>> => /\ s.request = NoRequest
                          /\ ~HeadIn(s.inbox) /\ ~HeadIn(s.coming)
                          /\ got[t][1].id = CallId(t)

Own == \A t \in Threads : held[t] # 0 => OwnStream(t)

\* What was executed of a call and what may still be is no more than was sent, and
\* less while the last request waits; a call that goes on has no outcome.
ExecutionsOf(t) ==
  /\ pc[t] # "idle" => outcome[t] = <<"none">>
  /\ executed[t] + late[t] <= Attempts(t)
  /\ held[t] # 0 /\ sockets[held[t]].request # NoRequest
       => executed[t] + late[t] <= dropped[t]

Executions == \A t \in Callers : ExecutionsOf(t)

ClientInv == Types /\ Tables /\ Holding /\ Quiet /\ AtMostOne /\ Own /\ Executions /\ ResultIsOwn

\* Nothing is told apart on a connection that is cut, and a request was cut.
CutKnown ==
  /\ cuts \in Nat
  /\ \A fd \in DOMAIN sockets : sockets[fd].cut =>
       /\ cuts > 0
       /\ sockets[fd].request = NoRequest
       /\ sockets[fd].inbox = <<>> /\ sockets[fd].coming = <<>>

-----------------------------------------------------------------------------
(***************************************************************************)
(* The descriptor that the kernel gives out.                               *)
(***************************************************************************)
LEMMA LeastNumber ==
  ASSUME NEW S, S \subseteq Nat, S # {}
  PROVE  \E m \in S : \A n \in S : m <= n
<1> DEFINE Below == {x \in Nat \X Nat : x[1] < x[2]}
<1>1. IsWellFoundedOn(Below, Nat)
  BY NatLessThanWellFounded DEF OpToRel
<1>2. \A m, n \in Nat : n < m => <<n, m>> \in Below
  OBVIOUS
<1> HIDE DEF Below
<1>3. PICK m \in S : \A n \in S : <<n, m>> \notin Below
  BY <1>1, WFMin
<1>4. \A n \in S : ~(n < m)
  BY <1>2, <1>3
<1>5. \A n \in S : m <= n
  BY <1>4
<1> QED BY <1>5

\* While an address is not connected, a descriptor is free: no two descriptors
\* have one address, and there are as many descriptors as addresses.
LEMMA NewFdIsFree ==
  ASSUME Types, Tables, NEW a \in Addresses, a \notin connectedIpports
  PROVE  NewFd \in Fds /\ NewFd \notin DOMAIN sockets
<1>1. Fds \ DOMAIN sockets # {}
  <2> SUFFICES ASSUME Fds \subseteq DOMAIN sockets PROVE FALSE
    OBVIOUS
  <2>1. IsFiniteSet(Balancers) /\ IsFiniteSet(Providers)
    BY ClientAssumption
  <2>2. IsFiniteSet(Addresses) /\ Cardinality(Addresses) \in Nat
    BY <2>1, FS_Union, FS_CardinalityType DEF Addresses
  <2>3. IsFiniteSet(Fds) /\ Cardinality(Fds) = Cardinality(Addresses)
    BY <2>2, FS_Interval DEF Fds
  <2>4. IsFiniteSet(Addresses \ {a}) /\ Cardinality(Addresses \ {a}) < Cardinality(Fds)
    <3>1. IsFiniteSet(Addresses \ {a}) /\ Cardinality(Addresses \ {a}) = Cardinality(Addresses) - 1
      BY <2>2, FS_RemoveElement
    <3> QED BY <2>2, <2>3, <3>1
  <2>5. DOMAIN sockets = Fds /\ DOMAIN connectedIpportsMap = Fds
    BY DEF Types
  <2>6. connectedIpportsMap \in [Fds -> Addresses \ {a}]
    BY <2>5 DEF Types, Tables
  <2>7. \E fd, fe \in Fds : fd # fe /\ connectedIpportsMap[fd] = connectedIpportsMap[fe]
    BY <2>3, <2>4, <2>6, FS_PigeonHole
  <2> QED BY <2>5, <2>7 DEF Tables
<1>2. Fds \ DOMAIN sockets \subseteq Nat
  BY DEF Fds
<1>3. \E m \in Fds \ DOMAIN sockets : \A n \in Fds \ DOMAIN sockets : m <= n
  BY <1>1, <1>2, LeastNumber
<1>4. NewFd \in Fds \ DOMAIN sockets
  BY <1>3 DEF NewFd, Min
<1> QED BY <1>4

-----------------------------------------------------------------------------
(***************************************************************************)
(* Who holds a connection holds it alone.                                  *)
(***************************************************************************)
LEMMA InBodyAlone ==
  ASSUME Types, Holding, NEW t \in Threads, NEW u \in Threads,
         pc[t] \in Using \cup {"pick"}, pc[u] \in Using \cup {"pick"} \/ held[u] # 0
  PROVE  t = u /\ rpcMutex = {t}
BY DEF Types, Holding

LEMMA HeldIsOpen ==
  ASSUME Types, Tables, Holding, NEW t \in Threads, held[t] # 0
  PROVE  /\ held[t] \in Fds /\ held[t] \in DOMAIN sockets
         /\ held[t] \in DOMAIN connectedIpportsMap
         /\ sockets[held[t]] \in Sockets
         /\ pc[t] \in Using /\ rpcMutex = {t}
         /\ \A u \in Threads : held[u] # 0 => u = t
<1>1. held[t] \in Fds /\ pc[t] \in Using /\ held[t] \in fdCache \cup serviceFdCache
  BY DEF Types, Holding, Cache
<1>2. held[t] \in DOMAIN sockets /\ held[t] \in DOMAIN connectedIpportsMap
  BY <1>1 DEF Types, Tables
<1>3. sockets[held[t]] \in Sockets
  BY <1>2 DEF Types
<1>4. rpcMutex = {t} /\ \A u \in Threads : held[u] # 0 => u = t
  BY <1>1, InBodyAlone
<1> QED BY <1>1, <1>2, <1>3, <1>4

LEMMA FdsPositive == 0 \notin Fds
BY DEF Fds

LEMMA ClientInit == Init => ClientInv
<1> SUFFICES ASSUME Init PROVE ClientInv
  OBVIOUS
<1> USE DEF Init
<1>1. Types
  BY ClientAssumption DEF Types, Places, Using, Threads, Refresh, Addresses
<1>2. Tables
  BY DEF Tables
<1>3. Holding
  BY ClientAssumption DEF Holding, Using, Threads, Refresh
<1>4. Quiet /\ AtMostOne
  BY DEF Quiet, AtMostOne
<1>5. Own
  BY DEF Own
<1>6. Executions
  BY DEF Executions, ExecutionsOf, Attempts, Results, Threads
<1>7. ResultIsOwn
  BY DEF ResultIsOwn
<1> QED BY <1>1, <1>2, <1>3, <1>4, <1>5, <1>6, <1>7 DEF ClientInv

-----------------------------------------------------------------------------
(***************************************************************************)
(* Steps that leave the tables, the connections, and what is held and read *)
(* of them as they are.                                                    *)
(***************************************************************************)
LEMMA SameStreams ==
  ASSUME ClientInv, UNCHANGED <<tableVars, sockets, held, got, calls>>
  PROVE  Tables' /\ Quiet' /\ AtMostOne' /\ Own'
<1>1. Tables'
  BY DEF ClientInv, Tables, tableVars
<1>2. Quiet' /\ AtMostOne'
  BY DEF ClientInv, Quiet, AtMostOne
<1>3. Own'
  BY DEF ClientInv, Own, OwnStream, CallId, Threads
<1> QED BY <1>1, <1>2, <1>3

\* Steps that send, drop, execute and answer nothing.
LEMMA SameExecutions ==
  ASSUME ClientInv, UNCHANGED <<held, outcome, executed, historyVars>>,
         \A t \in Callers : pc'[t] # "idle" => pc[t] # "idle",
         \A t \in Threads : held[t] # 0 =>
           sockets'[held[t]].request \in {sockets[held[t]].request, NoRequest}
  PROVE  Executions'
BY DEF ClientInv, Executions, ExecutionsOf, Attempts, Results, historyVars, Threads

LEMMA ConnectEndKeeps == ClientInv /\ ConnectEnd => ClientInv'
<1> SUFFICES ASSUME ClientInv, ConnectEnd PROVE ClientInv'
  OBVIOUS
<1> USE DEF ConnectEnd, tableVars, callVars, netVars, historyVars
<1>1. Types'
  BY DEF ClientInv, Types, Places, Using
<1>2. Tables' /\ Quiet' /\ AtMostOne' /\ Own'
  BY SameStreams
<1>3. Refresh \in Threads /\ Refresh \notin Callers
  BY ClientAssumption DEF Threads, Refresh
<1>4. pc[Refresh] = "connect" /\ pc'[Refresh] \in {"lock", "sleep", "none"}
      /\ \A t \in Threads : t # Refresh => pc'[t] = pc[t]
  BY <1>3 DEF ClientInv, Types
<1>5. Holding'
  BY <1>3, <1>4 DEF ClientInv, Holding, Using, Cache
<1>6. Executions' /\ ResultIsOwn'
  <2>1. Executions'
    BY <1>3, <1>4, SameExecutions DEF Threads
  <2>2. ResultIsOwn'
    BY <1>3, <1>4 DEF ClientInv, ResultIsOwn, CallId, Threads
  <2> QED BY <2>1, <2>2
<1> QED BY <1>1, <1>2, <1>5, <1>6 DEF ClientInv

LEMMA WakeUpKeeps == ClientInv /\ WakeUp => ClientInv'
<1> SUFFICES ASSUME ClientInv, WakeUp PROVE ClientInv'
  OBVIOUS
<1> USE DEF WakeUp, tableVars, callVars, refreshVars, netVars, historyVars
<1>1. Types'
  BY DEF ClientInv, Types, Places, Using
<1>2. Tables' /\ Quiet' /\ AtMostOne' /\ Own'
  BY SameStreams
<1>3. Refresh \in Threads /\ Refresh \notin Callers
  BY ClientAssumption DEF Threads, Refresh
<1>4. pc[Refresh] = "sleep" /\ pc'[Refresh] = "lock"
      /\ \A t \in Threads : t # Refresh => pc'[t] = pc[t]
  BY <1>3 DEF ClientInv, Types
<1>5. Holding'
  BY <1>3, <1>4 DEF ClientInv, Holding, Using, Cache
<1>6. Executions' /\ ResultIsOwn'
  <2>1. Executions'
    BY <1>3, <1>4, SameExecutions DEF Threads
  <2>2. ResultIsOwn'
    BY <1>3, <1>4 DEF ClientInv, ResultIsOwn, CallId, Threads
  <2> QED BY <2>1, <2>2
<1> QED BY <1>1, <1>2, <1>5, <1>6 DEF ClientInv

LEMMA RestartKeeps ==
  ASSUME ClientInv, NEW a \in Addresses, Restart(a)
  PROVE  ClientInv'
<1> USE DEF Restart, tableVars, callVars, refreshVars, historyVars
<1>1. Types'
  BY DEF ClientInv, Types
<1>2. Tables' /\ Quiet' /\ AtMostOne' /\ Own'
  BY SameStreams
<1>3. Holding' /\ ResultIsOwn'
  BY DEF ClientInv, Holding, ResultIsOwn, CallId, Threads, Cache
<1>4. Executions'
  BY SameExecutions
<1> QED BY <1>1, <1>2, <1>3, <1>4 DEF ClientInv

\* A call takes a new number; what the caller had is forgotten.
LEMMA CallKeeps ==
  ASSUME ClientInv, NEW t \in Callers, Call(t)
  PROVE  ClientInv'
<1> USE DEF Call, tableVars, refreshVars
<1>a. t \in Threads /\ t # Refresh
  BY ClientAssumption DEF Threads, Refresh
<1>1. Types'
  <2>1. pc' \in [Threads -> Places]
    BY <1>a DEF ClientInv, Types, Places
  <2>2. /\ calls' \in [Callers -> Nat] /\ executed' \in [Callers -> Nat]
        /\ dropped' \in [Callers -> Nat] /\ late' \in [Callers -> Nat]
    BY DEF ClientInv, Types
  <2>3. DOMAIN outcome' = Callers
    BY DEF ClientInv, Types
  <2> QED BY <2>1, <2>2, <2>3 DEF ClientInv, Types
<1>2. t \in Threads /\ t # Refresh /\ held[t] = 0 /\ pc'[t] = "lock"
      /\ \A u \in Threads : u # t => pc'[u] = pc[u]
  BY <1>a DEF ClientInv, Types, Holding, Using
<1>3. \A u \in Threads : u # t => CallId(u)' = CallId(u)
  BY DEF ClientInv, Types, CallId, Threads
<1>4. Tables' /\ Quiet' /\ AtMostOne'
  BY DEF ClientInv, Tables, Quiet, AtMostOne
<1>5. Own'
  <2> SUFFICES ASSUME NEW u \in Threads, held'[u] # 0 PROVE OwnStream(u)'
    BY DEF Own
  <2>1. u # t /\ OwnStream(u) /\ CallId(u)' = CallId(u)
    BY <1>2, <1>3 DEF ClientInv, Own
  <2> QED BY <2>1 DEF OwnStream
<1>6. Holding'
  BY <1>2 DEF ClientInv, Holding, Using, Cache
<1>7. Executions'
  <2> SUFFICES ASSUME NEW u \in Callers PROVE ExecutionsOf(u)'
    BY DEF Executions
  <2>1. CASE u = t
    <3>1. executed'[u] = 0 /\ dropped'[u] = 0 /\ late'[u] = 0 /\ outcome'[u] = <<"none">>
          /\ held'[u] = 0
      BY <1>2, <2>1 DEF ClientInv, Types
    <3> QED BY <3>1 DEF ExecutionsOf, Attempts, Results
  <2>2. CASE u # t
    <3>1. /\ executed'[u] = executed[u] /\ dropped'[u] = dropped[u] /\ late'[u] = late[u]
          /\ outcome'[u] = outcome[u] /\ pc'[u] = pc[u]
      BY <1>2, <2>2 DEF ClientInv, Types, Threads
    <3> QED BY <3>1 DEF ClientInv, Executions, ExecutionsOf, Attempts, Results
  <2> QED BY <2>1, <2>2
<1>8. ResultIsOwn'
  <2> SUFFICES ASSUME NEW u \in Callers, outcome'[u][1] \in {"answer", "empty"}
               PROVE  outcome'[u][2] = CallId(u)'
    BY DEF ResultIsOwn
  <2>1. u # t
    BY DEF ClientInv, Types
  <2>2. outcome'[u] = outcome[u] /\ CallId(u)' = CallId(u)
    BY <1>3, <2>1 DEF Threads
  <2> QED BY <2>2 DEF ClientInv, ResultIsOwn
<1> QED BY <1>1, <1>4, <1>5, <1>6, <1>7, <1>8 DEF ClientInv

LEMMA LockRpcKeeps ==
  ASSUME ClientInv, NEW t \in Threads, LockRpc(t)
  PROVE  ClientInv'
<1> USE DEF LockRpc, tableVars, callVars, refreshVars, netVars, historyVars
<1>1. Types'
  BY DEF ClientInv, Types, Places, Using
<1>2. Tables' /\ Quiet' /\ AtMostOne' /\ Own'
  BY SameStreams
<1>3. pc'[t] = "pick" /\ \A u \in Threads : u # t => pc'[u] = pc[u]
  BY DEF ClientInv, Types
<1>4. Holding'
  BY <1>3 DEF ClientInv, Holding, Using, Cache
<1>5. Executions' /\ ResultIsOwn'
  <2>1. Executions'
    BY <1>3, SameExecutions DEF Threads
  <2>2. ResultIsOwn'
    BY <1>3 DEF ClientInv, ResultIsOwn, CallId, Threads
  <2> QED BY <2>1, <2>2
<1> QED BY <1>1, <1>2, <1>4, <1>5 DEF ClientInv

LEMMA ReadEndKeeps ==
  ASSUME ClientInv, NEW t \in Threads, ReadEnd(t)
  PROVE  ClientInv'
<1> USE DEF ReadEnd, tableVars, callVars, refreshVars, netVars, historyVars
<1>1. Types'
  BY DEF ClientInv, Types, Places, Using
<1>2. Tables' /\ Quiet' /\ AtMostOne' /\ Own'
  BY SameStreams
<1>3. pc[t] \in {"read", "more"} /\ pc'[t] \in {"failed", "spin"}
      /\ \A u \in Threads : u # t => pc'[u] = pc[u]
  BY DEF ClientInv, Types
<1>4. Holding'
  BY <1>3 DEF ClientInv, Holding, Using, Cache
<1>5. Executions' /\ ResultIsOwn'
  <2>1. Executions'
    BY <1>3, SameExecutions DEF Threads
  <2>2. ResultIsOwn'
    BY <1>3 DEF ClientInv, ResultIsOwn, CallId, Threads
  <2> QED BY <2>1, <2>2
<1> QED BY <1>1, <1>2, <1>4, <1>5 DEF ClientInv

LEMMA Marks == <<"none">>[1] = "none" /\ <<"connect error">>[1] = "connect error"
OBVIOUS

LEMMA ThrowKeeps ==
  ASSUME ClientInv, NEW t \in Threads, Throw(t)
  PROVE  ClientInv'
<1> USE DEF Throw, tableVars, netVars, historyVars
<1>1. Types'
  BY DEF ClientInv, Types, Places, Using
<1>2. Tables' /\ Quiet' /\ AtMostOne' /\ Own'
  BY SameStreams
<1>3. pc[t] = "pick" /\ pc'[t] \in {"none", "idle"}
      /\ \A u \in Threads : u # t => pc'[u] = pc[u]
  BY DEF ClientInv, Types
<1>4. rpcMutex = {t}
  BY <1>3, InBodyAlone DEF ClientInv
<1>5. Holding'
  BY <1>3, <1>4 DEF ClientInv, Holding, Using, Cache
<1>6. Executions'
  <2> SUFFICES ASSUME NEW u \in Callers PROVE ExecutionsOf(u)'
    BY DEF Executions
  <2>1. CASE u = t /\ t # Refresh
    <3>1. outcome[u] = <<"none">> /\ outcome'[u] = <<"connect error">> /\ pc'[u] = "idle"
      BY <1>3, <2>1 DEF ClientInv, Executions, ExecutionsOf, Types
    <3>2. outcome[u][1] = "none" /\ outcome'[u][1] = "connect error"
      BY <3>1, Marks
    <3>3. ExecutionsOf(u) /\ Attempts(u)' = Attempts(u)
      BY <3>2 DEF ClientInv, Executions, Attempts, Results, historyVars
    <3> QED BY <3>1, <3>3 DEF ExecutionsOf, historyVars
  <2>2. CASE u # t \/ t = Refresh
    <3>1. outcome'[u] = outcome[u] /\ pc'[u] = pc[u]
      BY <1>3, <2>2, ClientAssumption DEF ClientInv, Types, Threads, Refresh
    <3> QED BY <3>1 DEF ClientInv, Executions, ExecutionsOf, Attempts, Results, historyVars
  <2> QED BY <2>1, <2>2
<1>7. ResultIsOwn'
  <2> SUFFICES ASSUME NEW u \in Callers, outcome'[u][1] \in {"answer", "empty"}
               PROVE  outcome'[u][2] = CallId(u)'
    BY DEF ResultIsOwn
  <2>1. outcome'[u] = outcome[u]
    BY DEF ClientInv, Types
  <2> QED BY <2>1 DEF ClientInv, ResultIsOwn, CallId
<1> QED BY <1>1, <1>2, <1>5, <1>6, <1>7 DEF ClientInv

-----------------------------------------------------------------------------
(***************************************************************************)
(* Choosing a connection, and dropping it.                                 *)
(***************************************************************************)
LEMMA WriteKeeps ==
  ASSUME ClientInv, NEW t \in Threads, Write(t)
  PROVE  ClientInv'
<1>1. /\ pc[t] = "pick" /\ pc' = [pc EXCEPT ![t] = "read"]
      /\ UNCHANGED <<tableVars, rpcMutex, got, calls, outcome, refreshVars, netVars, historyVars>>
  BY DEF Write
<1>2. PICK fd \in Cache(t) :
        /\ held' = [held EXCEPT ![t] = fd]
        /\ wraps' = [wraps EXCEPT ![t] = Wrap(t)]
        /\ sockets' = IF sockets[fd].ended THEN sockets
             ELSE [sockets EXCEPT ![fd].request = [id |-> CallId(t), wraps |-> Wrap(t)]]
  BY DEF Write
<1>3. rpcMutex = {t} /\ held[t] = 0 /\ got[t] = <<>>
  BY <1>1, InBodyAlone DEF ClientInv, Holding, Using
<1>4. \A u \in Threads : held[u] = 0
  BY <1>1, <1>3, InBodyAlone DEF ClientInv
<1>5. fd \in DOMAIN sockets /\ fd \in Fds /\ fd # 0 /\ sockets[fd] \in Sockets
  <2>1. fd \in fdCache \cup serviceFdCache
    BY <1>2 DEF Cache
  <2>2. fd \in DOMAIN sockets /\ fd \in Fds
    BY <2>1 DEF ClientInv, Types, Tables
  <2> QED BY <2>2, FdsPositive DEF ClientInv, Types
<1>6. /\ sockets[fd].request = NoRequest
      /\ ~HeadIn(sockets[fd].inbox) /\ ~HeadIn(sockets[fd].coming)
  BY <1>4, <1>5 DEF ClientInv, Quiet
<1>7. CallId(t) \in CallIds /\ Wrap(t) \in Nat
  BY DEF ClientInv, Types, CallId, CallIds, Wrap, Threads
<1>8. PICK q \in Requests :
        /\ q # NoRequest => q.id = CallId(t)
        /\ sockets' = [sockets EXCEPT ![fd].request = q]
  <2>1. CASE sockets[fd].ended
    <3>1. [sockets EXCEPT ![fd].request = NoRequest] = sockets
      BY <1>5, <1>6 DEF ClientInv, Types, Sockets
    <3> QED BY <1>2, <2>1, <3>1 DEF Requests
  <2>2. CASE ~sockets[fd].ended
    <3> DEFINE r == [id |-> CallId(t), wraps |-> Wrap(t)]
    <3>1. r \in Requests /\ r.id = CallId(t)
      BY <1>7 DEF Requests
    <3> QED BY <1>2, <2>2, <3>1
  <2> QED BY <2>1, <2>2
<1>9. /\ DOMAIN sockets' = DOMAIN sockets
      /\ \A fe \in DOMAIN sockets : fe # fd => sockets'[fe] = sockets[fe]
      /\ sockets'[fd] = [sockets[fd] EXCEPT !.request = q]
  BY <1>5, <1>8 DEF ClientInv, Types
<1>10. /\ sockets'[fd] \in Sockets /\ sockets'[fd].request = q
       /\ sockets'[fd].addr = sockets[fd].addr
       /\ sockets'[fd].inbox = sockets[fd].inbox /\ sockets'[fd].coming = sockets[fd].coming
  BY <1>5, <1>8, <1>9 DEF Sockets
<1>11. held'[t] = fd /\ \A u \in Threads : u # t => held'[u] = 0
  BY <1>2, <1>4 DEF ClientInv, Types
<1>12. Types'
  <2>1. sockets' \in [DOMAIN connectedIpportsMap' -> Sockets]
    <3>1. sockets' \in [DOMAIN sockets -> Sockets]
      BY <1>8, <1>9, <1>10 DEF ClientInv, Types
    <3> QED BY <1>1, <3>1 DEF ClientInv, Types, tableVars
  <2>2. pc' \in [Threads -> Places] /\ held' \in [Threads -> Fds \cup {0}]
    BY <1>1, <1>2, <1>5 DEF ClientInv, Types, Places, Using
  <2>3. wraps' \in [Threads -> Nat]
    BY <1>2, <1>7 DEF ClientInv, Types
  <2> QED BY <1>1, <2>1, <2>2, <2>3 DEF ClientInv, Types, tableVars, refreshVars, netVars, historyVars
<1>13. Tables'
  <2>1. \A fe \in DOMAIN sockets : sockets'[fe].addr = sockets[fe].addr
    BY <1>9, <1>10
  <2>2. /\ UNCHANGED tableVars
        /\ \A fe \in DOMAIN connectedIpportsMap : sockets'[fe].addr = connectedIpportsMap[fe]
    BY <1>1, <2>1 DEF ClientInv, Tables, Types
  <2> QED BY <2>2 DEF ClientInv, Tables, tableVars
<1>14. Holding'
  <2>1. pc'[t] = "read" /\ \A u \in Threads : u # t => pc'[u] = pc[u]
    BY <1>1 DEF ClientInv, Types
  <2>2. UNCHANGED <<rpcMutex, got, fdCache, serviceFdCache>>
    BY <1>1 DEF tableVars
  <2>3. fd \in Cache(t)' /\ fd # 0
    BY <1>5, <2>2 DEF Cache
  <2>4. \A u \in Threads : u # t => pc[u] \notin Using \cup {"pick"}
    BY <1>1, <1>3 DEF ClientInv, Holding
  <2> QED BY <1>3, <1>11, <2>1, <2>2, <2>3, <2>4 DEF ClientInv, Holding, Using
<1>15. Quiet' /\ AtMostOne'
  <2>a. \A fe \in DOMAIN sockets : \A u \in Threads : held[u] # fe
    BY <1>4, FdsPositive DEF ClientInv, Types
  <2>1. Quiet'
    BY <1>9, <1>11, <2>a DEF ClientInv, Quiet
  <2>2. AtMostOne'
    <3> DEFINE One(s) == /\ s.request # NoRequest => ~HeadIn(s.inbox) /\ ~HeadIn(s.coming)
                         /\ HeadIn(s.coming) => ~HeadIn(s.inbox)
                         /\ \A i, j \in DOMAIN s.coming : s.coming[i].k = 1 /\ s.coming[j].k = 1 => i = j
    <3>1. \A fe \in DOMAIN sockets : One(sockets[fe])
      BY DEF ClientInv, AtMostOne
    <3>2. One(sockets'[fd])
      <4>1. \A i, j \in DOMAIN sockets[fd].coming :
              sockets[fd].coming[i].k = 1 /\ sockets[fd].coming[j].k = 1 => i = j
        BY <1>5, <3>1
      <4>2. sockets'[fd].inbox = sockets[fd].inbox /\ sockets'[fd].coming = sockets[fd].coming
        BY <1>10
      <4> QED BY <1>6, <4>1, <4>2
    <3>3. \A fe \in DOMAIN sockets' : One(sockets'[fe])
      <4> HIDE DEF One
      <4> QED BY <1>9, <3>1, <3>2
    <3> QED BY <3>3 DEF AtMostOne, HeadIn
  <2> QED BY <2>1, <2>2
<1>16. Own'
  <2> SUFFICES ASSUME NEW u \in Threads, held'[u] # 0 PROVE OwnStream(u)'
    BY DEF Own
  <2>1. u = t /\ CallId(t)' = CallId(t) /\ got'[t] = <<>>
    BY <1>1, <1>3, <1>11 DEF CallId
  <2>2. HeadsOf(sockets[fd].inbox, CallId(t)) /\ HeadsOf(sockets[fd].coming, CallId(t))
    BY <1>6 DEF HeadsOf, HeadIn
  <2> QED BY <1>8, <1>10, <1>11, <2>1, <2>2 DEF OwnStream
<1>17. Executions'
  <2>1. pc'[t] = "read" /\ \A u \in Threads : u # t => pc'[u] = pc[u]
    BY <1>1 DEF ClientInv, Types
  <2>2. UNCHANGED <<executed, dropped, late, outcome>>
    BY <1>1 DEF netVars, historyVars
  <2> SUFFICES ASSUME NEW u \in Callers PROVE ExecutionsOf(u)'
    BY DEF Executions
  <2>3. u \in Threads /\ held[u] = 0 /\ ExecutionsOf(u) /\ dropped[u] \in Nat
        /\ executed[u] \in Nat /\ late[u] \in Nat
    BY <1>4 DEF ClientInv, Executions, Types, Threads
  <2>4. CASE u = t
    <3>1. outcome[u] = <<"none">>
      BY <1>1, <2>3, <2>4 DEF ExecutionsOf
    <3>2. outcome[u][1] = "none"
      BY <3>1
    <3>3. executed[u] + late[u] <= dropped[u]
      BY <2>3, <3>2 DEF ExecutionsOf, Attempts, Results
    <3> QED BY <2>2, <2>3, <3>1, <3>3 DEF ExecutionsOf, Attempts, Results
  <2>5. CASE u # t
    BY <1>11, <2>1, <2>2, <2>3, <2>5 DEF ExecutionsOf, Attempts, Results
  <2> QED BY <2>4, <2>5
<1>18. ResultIsOwn'
  BY <1>1 DEF ClientInv, ResultIsOwn, CallId
<1> QED BY <1>12, <1>13, <1>14, <1>15, <1>16, <1>17, <1>18 DEF ClientInv

LEMMA DropKeeps ==
  ASSUME ClientInv, NEW t \in Threads, Drop(t)
  PROVE  ClientInv'
<1> DEFINE fd == held[t]
           Left == DOMAIN connectedIpportsMap \ {fd}
<1>1. /\ pc[t] = "failed" /\ pc' = [pc EXCEPT ![t] = "pick"]
      /\ held' = [held EXCEPT ![t] = 0] /\ got' = [got EXCEPT ![t] = <<>>]
      /\ UNCHANGED <<rpcMutex, wraps, calls, outcome, refreshVars, netVars>>
      /\ connectedIpports' = connectedIpports \ {connectedIpportsMap[fd]}
      /\ connectedIpportsMap' = [fe \in Left |-> connectedIpportsMap[fe]]
      /\ IF t = Refresh THEN UNCHANGED historyVars
         ELSE /\ dropped' = [dropped EXCEPT ![t] = @ + 1]
              /\ late' = IF sockets[fd].request = NoRequest THEN late
                         ELSE [late EXCEPT ![t] = @ + 1]
  BY DEF Drop, Restrict
<1>2. sockets' = [fe \in Left |-> sockets[fe]]
  BY DEF Drop, Restrict, ClientInv, Types
<1>3. IF t = Refresh THEN serviceFdCache' = serviceFdCache \ {fd} /\ fdCache' = fdCache
      ELSE fdCache' = fdCache \ {fd} /\ serviceFdCache' = serviceFdCache
  BY DEF Drop
<1>4. /\ held[t] # 0 /\ rpcMutex = {t} /\ fd \in DOMAIN connectedIpportsMap
      /\ \A u \in Threads : held[u] # 0 => u = t
  <2>1. held[t] # 0
    BY <1>1 DEF ClientInv, Holding, Using
  <2> QED BY <2>1, HeldIsOpen DEF ClientInv
<1>5. fd \in Cache(t)
  BY <1>4 DEF ClientInv, Holding
<1>6. /\ pc'[t] = "pick" /\ \A u \in Threads : u # t => pc'[u] = pc[u]
      /\ \A u \in Threads : held'[u] = 0
      /\ got'[t] = <<>> /\ \A u \in Threads : u # t => got'[u] = got[u]
  BY <1>1, <1>4 DEF ClientInv, Types
<1>7. DOMAIN connectedIpportsMap' = Left /\ DOMAIN sockets' = Left /\ Left \subseteq DOMAIN sockets
      /\ \A fe \in Left : /\ sockets'[fe] = sockets[fe] /\ fe # fd
                          /\ connectedIpportsMap'[fe] = connectedIpportsMap[fe]
  BY <1>1, <1>2 DEF ClientInv, Types
<1>8. \A fe \in Left : \A u \in Threads : held[u] # fe
  <2> SUFFICES ASSUME NEW fe \in Left, NEW u \in Threads, held[u] = fe PROVE FALSE
    OBVIOUS
  <2>1. fe # 0
    BY FdsPositive DEF ClientInv, Types
  <2>2. u = t
    BY <1>4, <2>1
  <2> QED BY <1>7, <2>2
<1>9. Types'
  <2>1. Left \subseteq Fds
    BY DEF ClientInv, Types
  <2>2. /\ connectedIpportsMap' \in [Left -> Addresses]
        /\ sockets' \in [Left -> Sockets]
    BY <1>1, <1>2 DEF ClientInv, Types
  <2>3. pc' \in [Threads -> Places] /\ held' \in [Threads -> Fds \cup {0}]
    BY <1>1 DEF ClientInv, Types, Places
  <2>4. got' \in [Threads -> Seq(Segs)]
    BY <1>1 DEF ClientInv, Types
  <2>5. dropped' \in [Callers -> Nat] /\ late' \in [Callers -> Nat]
    <3>1. CASE t = Refresh
      BY <1>1, <3>1 DEF ClientInv, Types, historyVars
    <3>2. CASE t # Refresh
      <4>1. late' \in {late, [late EXCEPT ![t] = @ + 1]}
        BY <1>1, <3>2
      <4>2. t \in Callers
        BY <3>2 DEF Threads
      <4>3. dropped' = [dropped EXCEPT ![t] = @ + 1]
        BY <1>1, <3>2
      <4>4. dropped \in [Callers -> Nat] /\ late \in [Callers -> Nat]
        BY DEF ClientInv, Types
      <4> QED BY <4>1, <4>2, <4>3, <4>4
    <3> QED BY <3>1, <3>2
  <2>6. fdCache' \subseteq Fds /\ serviceFdCache' \subseteq Fds /\ connectedIpports' \subseteq Addresses
    BY <1>1, <1>3 DEF ClientInv, Types
  <2> QED BY <1>1, <1>7, <2>1, <2>2, <2>3, <2>4, <2>5, <2>6 DEF ClientInv, Types, refreshVars, netVars, historyVars
<1>10. Tables'
  <2>1. fdCache' \cap serviceFdCache' = {} /\ fdCache' \cup serviceFdCache' = Left
    BY <1>3, <1>5 DEF ClientInv, Tables, Cache
  <2>2. \A fe, ff \in Left : connectedIpportsMap'[fe] = connectedIpportsMap'[ff] => fe = ff
    BY <1>7 DEF ClientInv, Tables
  <2>3. connectedIpports' = {connectedIpportsMap'[fe] : fe \in Left}
    <3>1. \A fe \in DOMAIN connectedIpportsMap :
            connectedIpportsMap[fe] = connectedIpportsMap[fd] <=> fe = fd
      BY <1>4 DEF ClientInv, Tables
    <3>2. connectedIpports = {connectedIpportsMap[fe] : fe \in DOMAIN connectedIpportsMap}
      BY DEF ClientInv, Tables
    <3>3. connectedIpports \ {connectedIpportsMap[fd]} = {connectedIpportsMap[fe] : fe \in Left}
      BY <3>1, <3>2
    <3>4. connectedIpports' = connectedIpports \ {connectedIpportsMap[fd]}
      BY <1>1
    <3>5. {connectedIpportsMap[fe] : fe \in Left} = {connectedIpportsMap'[fe] : fe \in Left}
      BY <1>7
    <3> QED BY <3>3, <3>4, <3>5
  <2>4. \A fe \in Left : sockets'[fe].addr = connectedIpportsMap'[fe]
    BY <1>7 DEF ClientInv, Tables
  <2> QED BY <1>7, <2>1, <2>2, <2>3, <2>4 DEF Tables
<1>11. Holding'
  <2>1. \A u \in Threads : u # t => pc[u] \notin Using \cup {"pick"}
    BY <1>4 DEF ClientInv, Holding
  <2>2. rpcMutex' = {t}
    BY <1>1, <1>4
  <2> HIDE DEF fd, Left
  <2> QED BY <1>6, <2>1, <2>2 DEF ClientInv, Holding, Using
<1>12. Quiet' /\ AtMostOne'
  <2>1. \A fe \in Left : /\ sockets[fe].request = NoRequest
                         /\ ~HeadIn(sockets[fe].inbox) /\ ~HeadIn(sockets[fe].coming)
    BY <1>7, <1>8 DEF ClientInv, Quiet
  <2>2. Quiet'
    BY <1>7, <2>1 DEF Quiet
  <2>3. AtMostOne'
    BY <1>7, <2>1 DEF ClientInv, AtMostOne
  <2> QED BY <2>2, <2>3
<1>13. Own'
  BY <1>6 DEF Own
<1>14. Executions'
  <2> SUFFICES ASSUME NEW u \in Callers PROVE ExecutionsOf(u)'
    BY DEF Executions
  <2>1. /\ executed' = executed /\ outcome' = outcome /\ held'[u] = 0
        /\ executed[u] \in Nat /\ dropped[u] \in Nat /\ late[u] \in Nat
        /\ u \in Threads /\ u # Refresh /\ ExecutionsOf(u)
    BY <1>1, <1>6, ClientAssumption DEF ClientInv, Types, netVars, historyVars, Threads, Refresh, Executions
  <2>2. CASE u = t
    <3>1. outcome[u] = <<"none">>
      BY <1>1, <2>1, <2>2 DEF ExecutionsOf
    <3>2. outcome[u][1] = "none"
      BY <3>1
    <3>3. dropped'[u] = dropped[u] + 1
      BY <1>1, <2>1, <2>2 DEF ClientInv, Types
    <3>4. CASE sockets[fd].request = NoRequest
      <4>1. late'[u] = late[u]
        BY <1>1, <2>1, <2>2, <3>4
      <4>2. executed[u] + late[u] <= dropped[u] + 1
        BY <1>4, <2>1, <2>2 DEF ExecutionsOf, Attempts, Results
      <4> QED BY <2>1, <3>1, <3>2, <3>3, <4>1, <4>2 DEF ExecutionsOf, Attempts, Results
    <3>5. CASE sockets[fd].request # NoRequest
      <4>1. late'[u] = late[u] + 1
        BY <1>1, <2>1, <2>2, <3>5 DEF ClientInv, Types
      <4>2. executed[u] + late[u] <= dropped[u]
        BY <1>4, <2>1, <2>2, <3>5 DEF ExecutionsOf
      <4> QED BY <2>1, <3>1, <3>2, <3>3, <4>1, <4>2 DEF ExecutionsOf, Attempts, Results
    <3> QED BY <3>4, <3>5
  <2>3. CASE u # t
    <3>1. dropped'[u] = dropped[u] /\ late'[u] = late[u] /\ pc'[u] = pc[u] /\ held[u] = 0
      BY <1>1, <1>4, <1>6, <2>1, <2>3 DEF ClientInv, Types, historyVars
    <3> QED BY <2>1, <3>1 DEF ExecutionsOf, Attempts, Results
  <2> QED BY <2>2, <2>3
<1>15. ResultIsOwn'
  BY <1>1 DEF ClientInv, ResultIsOwn, CallId
<1> QED BY <1>9, <1>10, <1>11, <1>12, <1>13, <1>14, <1>15 DEF ClientInv

-----------------------------------------------------------------------------
(***************************************************************************)
(* Connecting.                                                             *)
(***************************************************************************)
LEMMA ConnectOneKeeps ==
  ASSUME ClientInv, NEW a \in Addresses, ConnectOne(a)
  PROVE  ClientInv'
<1>1. /\ UNCHANGED <<rpcMutex, pc, callVars, phase, status, netVars, historyVars>>
      /\ toConnect' = toConnect \ {a}
  BY DEF ConnectOne
<1>2. CASE UNCHANGED <<tableVars, sockets>>
  <2> USE <1>1, <1>2 DEF tableVars, callVars, netVars, historyVars
  <2>1. Tables' /\ Quiet' /\ AtMostOne' /\ Own'
    BY SameStreams
  <2>2. Types'
    BY DEF ClientInv, Types
  <2>3. Holding' /\ ResultIsOwn'
    BY DEF ClientInv, Holding, ResultIsOwn, CallId, Threads, Cache
  <2>4. Executions'
    BY SameExecutions
  <2> QED BY <2>1, <2>2, <2>3, <2>4 DEF ClientInv
<1>3. ASSUME NEW fd, fd = NewFd, Connectable(a),
             sockets' = Extend(sockets, fd,
               [addr |-> a, ended |-> FALSE, cut |-> FALSE, request |-> NoRequest, coming |-> <<>>, inbox |-> <<>>]),
             connectedIpportsMap' = Extend(connectedIpportsMap, fd, a),
             connectedIpports' = connectedIpports \cup {a},
             \/ serviceFdCache' = serviceFdCache \cup {fd} /\ UNCHANGED fdCache
             \/ fdCache' = fdCache \cup {fd} /\ UNCHANGED serviceFdCache
      PROVE  ClientInv'
  <2> DEFINE new == [addr |-> a, ended |-> FALSE, cut |-> FALSE, request |-> NoRequest,
                     coming |-> <<>>, inbox |-> <<>>]
             All == DOMAIN connectedIpportsMap \cup {fd}
  <2>1. fd \in Fds /\ fd \notin DOMAIN sockets /\ fd \notin DOMAIN connectedIpportsMap
    BY <1>3, NewFdIsFree DEF ClientInv, Connectable, Types
  <2>2. DOMAIN sockets = DOMAIN connectedIpportsMap
    BY DEF ClientInv, Types
  <2>3. /\ DOMAIN sockets' = All /\ sockets'[fd] = new
        /\ \A fe \in DOMAIN sockets : sockets'[fe] = sockets[fe]
    BY <1>3, <2>1, <2>2 DEF Extend
  <2>4. /\ DOMAIN connectedIpportsMap' = All /\ connectedIpportsMap'[fd] = a
        /\ \A fe \in DOMAIN connectedIpportsMap : connectedIpportsMap'[fe] = connectedIpportsMap[fe]
    BY <1>3, <2>1 DEF Extend
  <2>5. new \in Sockets /\ new.request = NoRequest /\ ~HeadIn(new.inbox) /\ ~HeadIn(new.coming)
        /\ new.addr = a /\ new.coming = <<>>
    BY DEF Sockets, Requests, HeadIn
  <2>6. \A t \in Threads : held[t] # 0 => held[t] # fd /\ held[t] \in DOMAIN sockets
    BY <2>1, HeldIsOpen DEF ClientInv
  <2>7. UNCHANGED <<held, got, calls, outcome, executed>>
    BY <1>1 DEF callVars, netVars, historyVars
  <2> HIDE DEF new, All
  <2>8. Types'
    <3>1. sockets' \in [All -> Sockets]
      BY <1>3, <2>2, <2>3, <2>5 DEF ClientInv, Types, Extend, All
    <3>2. connectedIpportsMap' \in [All -> Addresses]
      BY <1>3, <2>4 DEF ClientInv, Types, Extend, All
    <3>3. All \subseteq Fds
      BY <2>1 DEF ClientInv, Types, All
    <3>4. fdCache' \subseteq Fds /\ serviceFdCache' \subseteq Fds /\ connectedIpports' \subseteq Addresses
      BY <1>3, <2>1 DEF ClientInv, Types
    <3>5. toConnect' \subseteq Addresses
      BY <1>1 DEF ClientInv, Types
    <3> QED BY <1>1, <2>4, <3>1, <3>2, <3>3, <3>4, <3>5 DEF ClientInv, Types, callVars, netVars, historyVars
  <2>9. Tables'
    <3>1. fdCache' \cap serviceFdCache' = {} /\ fdCache' \cup serviceFdCache' = All
      BY <1>3, <2>1 DEF ClientInv, Tables, All
    <3>2. a \notin connectedIpports
      BY <1>3 DEF Connectable
    <3>3. \A fe \in DOMAIN connectedIpportsMap : connectedIpportsMap[fe] \in connectedIpports
      BY DEF ClientInv, Tables
    <3>4. \A fe, ff \in All : connectedIpportsMap'[fe] = connectedIpportsMap'[ff] => fe = ff
      BY <2>4, <3>2, <3>3 DEF ClientInv, Tables, All
    <3>5. connectedIpports' = {connectedIpportsMap'[fe] : fe \in All}
      <4>1. connectedIpports = {connectedIpportsMap[fe] : fe \in DOMAIN connectedIpportsMap}
        BY DEF ClientInv, Tables
      <4>2. connectedIpports = {connectedIpportsMap'[fe] : fe \in DOMAIN connectedIpportsMap}
        BY <2>4, <4>1
      <4> QED BY <1>3, <2>4, <4>2 DEF All
    <3>6. \A fe \in All : sockets'[fe].addr = connectedIpportsMap'[fe]
      BY <2>2, <2>3, <2>4, <2>5 DEF ClientInv, Tables, All
    <3> QED BY <2>4, <3>1, <3>4, <3>5, <3>6 DEF Tables
  <2>10. Holding'
    <3>1. \A t \in Threads : Cache(t) \subseteq Cache(t)'
      BY <1>3 DEF Cache
    <3>2. UNCHANGED <<rpcMutex, pc, held, got>>
      BY <1>1, <2>7
    <3> QED BY <3>1, <3>2 DEF ClientInv, Holding
  <2>11. Quiet'
    BY <2>2, <2>3, <2>5, <2>7 DEF ClientInv, Quiet, All
  <2>12. AtMostOne'
    BY <2>2, <2>3, <2>5 DEF ClientInv, AtMostOne, All
  <2>13. Own'
    <3> SUFFICES ASSUME NEW t \in Threads, held'[t] # 0 PROVE OwnStream(t)'
      BY DEF Own
    <3>1. OwnStream(t) /\ CallId(t)' = CallId(t) /\ sockets'[held'[t]] = sockets[held[t]]
          /\ got'[t] = got[t]
      BY <2>3, <2>6, <2>7 DEF ClientInv, Own, CallId
    <3> QED BY <3>1 DEF OwnStream
  <2>14. Executions'
    <3>1. UNCHANGED <<pc, executed, historyVars, held, outcome>>
      BY <1>1, <2>7
    <3> QED BY <2>3, <2>6, <3>1, SameExecutions
  <2>15. ResultIsOwn'
    BY <2>7 DEF ClientInv, ResultIsOwn, CallId
  <2> QED BY <2>8, <2>9, <2>10, <2>11, <2>12, <2>13, <2>14, <2>15 DEF ClientInv
<1> QED BY <1>2, <1>3 DEF ConnectOne

-----------------------------------------------------------------------------
(***************************************************************************)
(* The peers and the network.  A step of theirs on a connection keeps what *)
(* is said of it alone; the rest is of threads and tables.                 *)
(***************************************************************************)
LEMMA SameThreads ==
  ASSUME ClientInv, UNCHANGED <<tableVars, rpcMutex, pc, callVars, refreshVars, historyVars>>,
         sockets' \in [DOMAIN sockets -> Sockets], executed' \in [Callers -> Nat],
         \A fd \in DOMAIN sockets : sockets'[fd].addr = sockets[fd].addr
  PROVE  Types' /\ Tables' /\ Holding' /\ ResultIsOwn' /\ \A t \in Threads : CallId(t)' = CallId(t)
<1> USE DEF tableVars, callVars, refreshVars, historyVars
<1>1. Types'
  BY DEF ClientInv, Types
<1>2. Tables'
  <2>1. \A fd \in DOMAIN connectedIpportsMap : sockets'[fd].addr = connectedIpportsMap[fd]
    BY DEF ClientInv, Types, Tables
  <2> QED BY <2>1 DEF ClientInv, Tables
<1>3. Holding' /\ ResultIsOwn' /\ \A t \in Threads : CallId(t)' = CallId(t)
  BY DEF ClientInv, Holding, ResultIsOwn, CallId, Cache
<1> QED BY <1>1, <1>2, <1>3

LEMMA ServeLateKeeps ==
  ASSUME ClientInv, NEW t \in Callers, ServeLate(t)
  PROVE  ClientInv'
<1>1. /\ UNCHANGED <<tableVars, rpcMutex, pc, callVars, refreshVars, sockets, worldVars, dropped>>
      /\ late[t] > 0 /\ late' = [late EXCEPT ![t] = @ - 1]
      /\ executed' = [executed EXCEPT ![t] = @ + 1]
  BY DEF ServeLate
<1>2. executed' \in [Callers -> Nat] /\ late' \in [Callers -> Nat]
  BY <1>1 DEF ClientInv, Types
<1>3. Types'
  BY <1>1, <1>2 DEF ClientInv, Types, tableVars, callVars, refreshVars
<1>4. Tables' /\ Quiet' /\ AtMostOne' /\ Own'
  BY <1>1, SameStreams DEF callVars
<1>5. Holding' /\ ResultIsOwn'
  BY <1>1 DEF ClientInv, Holding, ResultIsOwn, CallId, Threads, Cache, tableVars, callVars
<1>6. Executions'
  <2> SUFFICES ASSUME NEW u \in Callers PROVE ExecutionsOf(u)'
    BY DEF Executions
  <2>1. UNCHANGED <<held, pc, outcome, sockets, dropped>> /\ ExecutionsOf(u)
    BY <1>1 DEF callVars, ClientInv, Executions
  <2>2. executed'[u] + late'[u] = executed[u] + late[u]
    BY <1>1 DEF ClientInv, Types
  <2> QED BY <2>1, <2>2 DEF ExecutionsOf, Attempts, Results
<1> QED BY <1>3, <1>4, <1>5, <1>6 DEF ClientInv

LEMMA JoinedAt ==
  ASSUME NEW S, NEW s \in Seq(S), NEW r \in Seq(S)
  PROVE  /\ s \o r \in Seq(S) /\ Len(s \o r) = Len(s) + Len(r)
         /\ \A i \in DOMAIN (s \o r) : \/ i \in DOMAIN s /\ (s \o r)[i] = s[i]
                                       \/ i - Len(s) \in DOMAIN r /\ (s \o r)[i] = r[i - Len(s)]
         /\ \A i \in DOMAIN s : i \in DOMAIN (s \o r) /\ (s \o r)[i] = s[i]
OBVIOUS

LEMMA CutAt ==
  ASSUME NEW S, NEW s \in Seq(S), NEW n \in 1..Len(s)
  PROVE  /\ SubSeq(s, 1, n) \in Seq(S) /\ SubSeq(s, n + 1, Len(s)) \in Seq(S)
         /\ \A i \in DOMAIN SubSeq(s, 1, n) : i \in DOMAIN s /\ i <= n /\ SubSeq(s, 1, n)[i] = s[i]
         /\ \A i \in DOMAIN SubSeq(s, n + 1, Len(s)) :
              i + n \in DOMAIN s /\ i \in Nat /\ i >= 1 /\ SubSeq(s, n + 1, Len(s))[i] = s[i + n]
<1>1. SubSeq(s, 1, n) \in Seq(S) /\ SubSeq(s, n + 1, Len(s)) \in Seq(S)
  OBVIOUS
<1>2. /\ DOMAIN SubSeq(s, 1, n) = 1..n
      /\ \A i \in 1..n : SubSeq(s, 1, n)[i] = s[i]
  OBVIOUS
<1>3. /\ DOMAIN SubSeq(s, n + 1, Len(s)) = 1..(Len(s) - n)
      /\ \A i \in 1..(Len(s) - n) : SubSeq(s, n + 1, Len(s))[i] = s[i + n]
  OBVIOUS
<1> QED BY <1>1, <1>2, <1>3

LEMMA ReplyForm ==
  ASSUME NEW req \in Requests, req # NoRequest
  PROVE  /\ ReplyTo(req) \in Seq(Segs) /\ DOMAIN ReplyTo(req) = 1..4
         /\ \A k \in 1..4 : ReplyTo(req)[k].k = k /\ ReplyTo(req)[k].id = req.id
<1>1. req.id \in CallIds /\ req.wraps \in Nat
  BY DEF Requests
<1>2. ReplyTo(req) = [k \in 1..4 |-> [id |-> req.id, wrapped |-> req.wraps, k |-> k]]
  BY DEF ReplyTo, Seg
<1>3. \A k \in 1..4 : [id |-> req.id, wrapped |-> req.wraps, k |-> k] \in Segs
  BY <1>1 DEF Segs
<1>4. ReplyTo(req) \in [1..4 -> Segs]
  BY <1>2, <1>3
<1>5. ReplyTo(req) \in Seq(Segs)
  BY <1>4, SeqDef
<1> QED BY <1>2, <1>5

\* A request waits only where a thread holds the connection, and is of its call.
LEMMA RequestHeld ==
  ASSUME ClientInv, NEW fd \in DOMAIN sockets, sockets[fd].request # NoRequest
  PROVE  \E t \in Threads : /\ held[t] = fd /\ held[t] # 0
                            /\ sockets[fd].request.id = CallId(t)
                            /\ got[t] = <<>>
                            /\ \A u \in Threads : held[u] # 0 => u = t
<1>1. PICK t \in Threads : held[t] = fd
  BY DEF ClientInv, Quiet
<1>2. held[t] # 0
  BY <1>1, FdsPositive DEF ClientInv, Types
<1>3. sockets[fd].request.id = CallId(t) /\ got[t] = <<>>
  BY <1>1, <1>2 DEF ClientInv, Own, OwnStream
<1> QED BY <1>1, <1>2, <1>3, HeldIsOpen DEF ClientInv

LEMMA ServeKeeps ==
  ASSUME ClientInv, NEW fd \in DOMAIN sockets, Serve(fd)
  PROVE  ClientInv'
<1> DEFINE old == sockets[fd]
           req == sockets[fd].request
<1>1. /\ req # NoRequest
      /\ UNCHANGED <<tableVars, rpcMutex, pc, callVars, refreshVars, worldVars, historyVars>>
      /\ sockets' = [sockets EXCEPT ![fd] =
           [old EXCEPT !.request = NoRequest, !.coming = old.coming \o ReplyTo(req)]]
  BY DEF Serve, ClientInv, Types, Sockets
<1>2. PICK t \in Threads : /\ held[t] = fd /\ held[t] # 0
                           /\ req.id = CallId(t)
                           /\ got[t] = <<>>
                           /\ \A u \in Threads : held[u] # 0 => u = t
  BY <1>1, RequestHeld
<1>3. old \in Sockets /\ req \in Requests
  BY DEF ClientInv, Types, Sockets
<1> DEFINE stream == old.coming \o ReplyTo(req)
<1>4. /\ ReplyTo(req) \in Seq(Segs) /\ DOMAIN ReplyTo(req) = 1..4
      /\ \A k \in 1..4 : ReplyTo(req)[k].k = k /\ ReplyTo(req)[k].id = CallId(t)
  BY <1>1, <1>2, <1>3, ReplyForm
<1>5. ~HeadIn(old.inbox) /\ ~HeadIn(old.coming)
  BY <1>1 DEF ClientInv, AtMostOne
<1>6. /\ stream \in Seq(Segs)
      /\ \A i \in DOMAIN stream : stream[i].k = 1 => /\ i = Len(old.coming) + 1
                                                     /\ stream[i].id = CallId(t)
  <2>1. old.coming \in Seq(Segs)
    BY <1>3 DEF Sockets
  <2>2. /\ stream \in Seq(Segs)
        /\ \A i \in DOMAIN stream :
             \/ i \in DOMAIN old.coming /\ stream[i] = old.coming[i]
             \/ i - Len(old.coming) \in 1..4 /\ stream[i] = ReplyTo(req)[i - Len(old.coming)]
    <3> DEFINE a == old.coming
               r == ReplyTo(req)
    <3>1. a \in Seq(Segs) /\ r \in Seq(Segs) /\ DOMAIN r = 1..4
      BY <1>4, <2>1
    <3>2. stream = a \o r
      OBVIOUS
    <3> HIDE DEF a, r, stream
    <3>3. /\ stream \in Seq(Segs)
          /\ \A i \in DOMAIN stream : \/ i \in DOMAIN a /\ stream[i] = a[i]
                                      \/ i - Len(a) \in DOMAIN r /\ stream[i] = r[i - Len(a)]
      BY <3>1, <3>2, JoinedAt
    <3>4. /\ stream \in Seq(Segs)
          /\ \A i \in DOMAIN stream : \/ i \in DOMAIN a /\ stream[i] = a[i]
                                      \/ i - Len(a) \in 1..4 /\ stream[i] = r[i - Len(a)]
      BY <3>1, <3>3
    <3> QED BY <3>4 DEF a, r
  <2>3. \A i \in DOMAIN old.coming : old.coming[i].k # 1
    BY <1>5 DEF HeadIn
  <2> HIDE DEF stream, old, req
  <2>4. Len(old.coming) \in Nat /\ \A i \in DOMAIN stream : i \in Nat
    BY <2>1, <2>2, LenProperties
  <2>5. \A i \in DOMAIN stream : stream[i].k = 1 => /\ i - Len(old.coming) = 1
                                                     /\ stream[i].id = CallId(t)
    BY <1>4, <2>2, <2>3
  <2> QED BY <2>2, <2>4, <2>5
<1> DEFINE new == [old EXCEPT !.request = NoRequest, !.coming = stream]
<1>7. /\ new \in Sockets /\ new.request = NoRequest /\ new.coming = stream
      /\ new.inbox = old.inbox /\ new.addr = old.addr
  BY <1>3, <1>6 DEF Sockets, Requests
<1>8. /\ DOMAIN sockets' = DOMAIN sockets /\ sockets'[fd] = new
      /\ \A fe \in DOMAIN sockets : fe # fd => sockets'[fe] = sockets[fe]
      /\ sockets' \in [DOMAIN sockets -> Sockets]
  BY <1>1, <1>7 DEF ClientInv, Types
<1>9. UNCHANGED <<held, got, calls, pc, historyVars>>
  BY <1>1 DEF callVars
<1> HIDE DEF new, stream
<1>10. executed' = IF t = Refresh THEN executed ELSE [executed EXCEPT ![t] = @ + 1]
  <2>1. req.id[1] = t
    BY <1>2 DEF CallId
  <2> QED BY <2>1 DEF Serve
<1>11. executed' \in [Callers -> Nat]
  <2>1. CASE t = Refresh
    BY <1>10, <2>1 DEF ClientInv, Types
  <2>2. CASE t # Refresh
    BY <1>10, <2>2 DEF ClientInv, Types, Threads
  <2> QED BY <2>1, <2>2
<1>12. Types' /\ Tables' /\ Holding' /\ ResultIsOwn' /\ \A u \in Threads : CallId(u)' = CallId(u)
  <2>1. \A fe \in DOMAIN sockets : sockets'[fe].addr = sockets[fe].addr
    BY <1>7, <1>8
  <2> QED BY <1>1, <1>8, <1>11, <2>1, SameThreads
<1>13. Quiet'
  BY <1>2, <1>8, <1>9 DEF ClientInv, Quiet
<1>14. AtMostOne'
  <2> SUFFICES ASSUME NEW fe \in DOMAIN sockets
               PROVE  /\ sockets'[fe].request # NoRequest
                           => ~HeadIn(sockets'[fe].inbox) /\ ~HeadIn(sockets'[fe].coming)
                      /\ HeadIn(sockets'[fe].coming) => ~HeadIn(sockets'[fe].inbox)
                      /\ \A i, j \in DOMAIN sockets'[fe].coming :
                           sockets'[fe].coming[i].k = 1 /\ sockets'[fe].coming[j].k = 1 => i = j
    BY <1>8 DEF AtMostOne
  <2>1. CASE fe = fd
    BY <1>5, <1>6, <1>7, <1>8, <2>1
  <2>2. CASE fe # fd
    BY <1>8, <2>2 DEF ClientInv, AtMostOne
  <2> QED BY <2>1, <2>2
<1>15. Own'
  <2> SUFFICES ASSUME NEW u \in Threads, held'[u] # 0 PROVE OwnStream(u)'
    BY DEF Own
  <2>1. u = t /\ held'[u] = fd /\ got'[u] = <<>> /\ CallId(u)' = CallId(t)
    BY <1>2, <1>9, <1>12
  <2>2. HeadsOf(new.inbox, CallId(t)) /\ HeadsOf(new.coming, CallId(t))
    BY <1>5, <1>6, <1>7 DEF HeadsOf, HeadIn
  <2> QED BY <1>7, <1>8, <2>1, <2>2 DEF OwnStream
<1>16. Executions'
  <2> SUFFICES ASSUME NEW u \in Callers PROVE ExecutionsOf(u)'
    BY DEF Executions
  <2>1. u \in Threads /\ u # Refresh /\ executed[u] \in Nat /\ dropped[u] \in Nat
        /\ late[u] \in Nat /\ ExecutionsOf(u) /\ UNCHANGED <<outcome, dropped, late>>
    BY <1>1, ClientAssumption DEF ClientInv, Types, Threads, Refresh, Executions,
                                  callVars, historyVars
  <2>2. CASE u = t
    <3>1. executed'[u] = executed[u] + 1
      BY <1>10, <2>1, <2>2 DEF ClientInv, Types
    <3>2. executed[u] + late[u] <= dropped[u]
      BY <1>1, <1>2, <2>1, <2>2 DEF ExecutionsOf
    <3>3. sockets'[held'[u]].request = NoRequest
      BY <1>2, <1>7, <1>8, <1>9, <2>2
    <3> QED BY <1>2, <1>9, <2>1, <2>2, <3>1, <3>2, <3>3 DEF ExecutionsOf, Attempts, Results
  <2>3. CASE u # t
    <3>1. executed'[u] = executed[u] /\ held'[u] = 0
      BY <1>2, <1>9, <1>10, <2>1, <2>3 DEF ClientInv, Types
    <3> QED BY <1>9, <2>1, <3>1 DEF ExecutionsOf, Attempts, Results
  <2> QED BY <2>2, <2>3
<1> QED BY <1>12, <1>13, <1>14, <1>15, <1>16 DEF ClientInv

LEMMA DeliverKeeps ==
  ASSUME ClientInv, NEW fd \in DOMAIN sockets, Deliver(fd)
  PROVE  ClientInv'
<1> DEFINE old == sockets[fd]
<1>1. UNCHANGED <<tableVars, rpcMutex, pc, callVars, refreshVars, netVars, historyVars>>
  BY DEF Deliver
<1>2. old \in Sockets /\ old.coming \in Seq(Segs) /\ old.inbox \in Seq(Segs)
  BY DEF ClientInv, Types, Sockets
<1>3. PICK n \in 1..Len(old.coming) :
        sockets' = [sockets EXCEPT ![fd].inbox = @ \o SubSeq(sockets[fd].coming, 1, n),
                                   ![fd].coming = SubSeq(@, n + 1, Len(@))]
  BY DEF Deliver
<1> DEFINE first == SubSeq(old.coming, 1, n)
           rest == SubSeq(old.coming, n + 1, Len(old.coming))
           box == old.inbox \o first
           new == [old EXCEPT !.inbox = box, !.coming = rest]
<1>4. sockets' = [sockets EXCEPT ![fd] = new]
  BY <1>2, <1>3 DEF ClientInv, Types, Sockets
<1>5. /\ first \in Seq(Segs) /\ rest \in Seq(Segs)
      /\ \A i \in DOMAIN first : i \in DOMAIN old.coming /\ i <= n /\ first[i] = old.coming[i]
      /\ \A i \in DOMAIN rest : i + n \in DOMAIN old.coming /\ i \in Nat /\ i >= 1
                                /\ rest[i] = old.coming[i + n]
  BY <1>2, <1>3, CutAt
<1>6. /\ box \in Seq(Segs)
      /\ \A i \in DOMAIN box : \/ i \in DOMAIN old.inbox /\ box[i] = old.inbox[i]
                               \/ i - Len(old.inbox) \in DOMAIN first /\ box[i] = first[i - Len(old.inbox)]
  BY <1>2, <1>5, JoinedAt
<1>7. /\ new \in Sockets /\ new.inbox = box /\ new.coming = rest
      /\ new.request = old.request /\ new.addr = old.addr
  BY <1>2, <1>5, <1>6 DEF Sockets
<1>8. /\ DOMAIN sockets' = DOMAIN sockets /\ sockets'[fd] = new
      /\ \A fe \in DOMAIN sockets : fe # fd => sockets'[fe] = sockets[fe]
      /\ sockets' \in [DOMAIN sockets -> Sockets]
  BY <1>4, <1>7 DEF ClientInv, Types
<1>9. UNCHANGED <<held, got, calls, pc, historyVars, executed>>
  BY <1>1 DEF callVars, netVars, historyVars
<1> HIDE DEF new, box, first, rest
<1>10. Types' /\ Tables' /\ Holding' /\ ResultIsOwn' /\ \A u \in Threads : CallId(u)' = CallId(u)
  <2>1. \A fe \in DOMAIN sockets : sockets'[fe].addr = sockets[fe].addr
    BY <1>7, <1>8
  <2>2. executed' \in [Callers -> Nat]
    BY <1>9 DEF ClientInv, Types
  <2> QED BY <1>1, <1>8, <2>1, <2>2, SameThreads
<1>11. /\ HeadIn(rest) => HeadIn(old.coming)
       /\ HeadIn(box) => HeadIn(old.inbox) \/ HeadIn(old.coming)
       /\ HeadIn(first) => HeadIn(old.coming)
       /\ ~(HeadIn(first) /\ HeadIn(rest))
  <2>1. HeadIn(rest) => HeadIn(old.coming)
    BY <1>5 DEF HeadIn
  <2>2. HeadIn(first) => HeadIn(old.coming)
    BY <1>5 DEF HeadIn
  <2>3. HeadIn(box) => HeadIn(old.inbox) \/ HeadIn(first)
    BY <1>6 DEF HeadIn
  <2>4. ASSUME HeadIn(first), HeadIn(rest) PROVE FALSE
    <3>1. PICK i \in DOMAIN first : first[i].k = 1
      BY <2>4 DEF HeadIn
    <3>2. PICK j \in DOMAIN rest : rest[j].k = 1
      BY <2>4 DEF HeadIn
    <3>3. /\ i \in DOMAIN old.coming /\ i <= n /\ old.coming[i].k = 1
          /\ j + n \in DOMAIN old.coming /\ j >= 1 /\ j \in Nat /\ old.coming[j + n].k = 1
      BY <1>5, <3>1, <3>2
    <3>4. i = j + n
      BY <3>3 DEF ClientInv, AtMostOne
    <3>5. i \in Nat /\ n \in Nat
      BY <1>2, <3>3
    <3> QED BY <3>3, <3>4, <3>5
  <2> QED BY <2>1, <2>2, <2>3, <2>4
<1>12. /\ old.request # NoRequest => ~HeadIn(old.inbox) /\ ~HeadIn(old.coming)
       /\ HeadIn(old.coming) => ~HeadIn(old.inbox)
       /\ \A i, j \in DOMAIN old.coming : old.coming[i].k = 1 /\ old.coming[j].k = 1 => i = j
  BY DEF ClientInv, AtMostOne
<1>13. /\ HeadIn(box) => HeadIn(old.inbox) \/ HeadIn(first)
  BY <1>6 DEF HeadIn
<1>14. Quiet'
  <2> SUFFICES ASSUME NEW fe \in DOMAIN sockets, \A t \in Threads : held[t] # fe
               PROVE  /\ sockets'[fe].request = NoRequest
                      /\ ~HeadIn(sockets'[fe].inbox) /\ ~HeadIn(sockets'[fe].coming)
    BY <1>8, <1>9 DEF Quiet
  <2>1. /\ sockets[fe].request = NoRequest
        /\ ~HeadIn(sockets[fe].inbox) /\ ~HeadIn(sockets[fe].coming)
    BY DEF ClientInv, Quiet
  <2>2. CASE fe = fd
    BY <1>7, <1>8, <1>11, <2>1, <2>2
  <2>3. CASE fe # fd
    BY <1>8, <2>1, <2>3
  <2> QED BY <2>2, <2>3
<1>15. AtMostOne'
  <2> SUFFICES ASSUME NEW fe \in DOMAIN sockets
               PROVE  /\ sockets'[fe].request # NoRequest
                           => ~HeadIn(sockets'[fe].inbox) /\ ~HeadIn(sockets'[fe].coming)
                      /\ HeadIn(sockets'[fe].coming) => ~HeadIn(sockets'[fe].inbox)
                      /\ \A i, j \in DOMAIN sockets'[fe].coming :
                           sockets'[fe].coming[i].k = 1 /\ sockets'[fe].coming[j].k = 1 => i = j
    BY <1>8 DEF AtMostOne
  <2>1. CASE fe = fd
    <3>1. \A i, j \in DOMAIN rest : rest[i].k = 1 /\ rest[j].k = 1 => i = j
      <4> SUFFICES ASSUME NEW i \in DOMAIN rest, NEW j \in DOMAIN rest, rest[i].k = 1, rest[j].k = 1
                   PROVE  i = j
        OBVIOUS
      <4>1. i + n = j + n /\ i \in Nat /\ j \in Nat /\ n \in Nat
        BY <1>2, <1>5, <1>12
      <4> QED BY <4>1
    <3>2. HeadIn(rest) => ~HeadIn(box)
      BY <1>11, <1>12, <1>13
    <3>3. old.request # NoRequest => ~HeadIn(box) /\ ~HeadIn(rest)
      BY <1>11, <1>12
    <3> QED BY <1>7, <1>8, <2>1, <3>1, <3>2, <3>3
  <2>2. CASE fe # fd
    BY <1>8, <2>2 DEF ClientInv, AtMostOne
  <2> QED BY <2>1, <2>2
<1>16. Own'
  <2> SUFFICES ASSUME NEW u \in Threads, held'[u] # 0 PROVE OwnStream(u)'
    BY DEF Own
  <2>1. OwnStream(u) /\ CallId(u)' = CallId(u) /\ held'[u] = held[u] /\ got'[u] = got[u]
        /\ held[u] \in DOMAIN sockets
    BY <1>9, <1>10, HeldIsOpen DEF ClientInv, Own
  <2>2. CASE held[u] = fd
    <3>1. HeadsOf(rest, CallId(u))
      BY <1>5, <2>1, <2>2 DEF OwnStream, HeadsOf
    <3>2. HeadsOf(box, CallId(u))
      BY <1>5, <1>6, <2>1, <2>2 DEF OwnStream, HeadsOf
    <3> QED BY <1>7, <1>8, <1>11, <2>1, <2>2, <3>1, <3>2 DEF OwnStream
  <2>3. CASE held[u] # fd
    BY <1>8, <2>1, <2>3 DEF OwnStream
  <2> QED BY <2>2, <2>3
<1>17. Executions'
  <2>1. \A u \in Threads : held[u] # 0 => sockets'[held[u]].request = sockets[held[u]].request
    BY <1>7, <1>8, HeldIsOpen DEF ClientInv
  <2>2. UNCHANGED outcome
    BY <1>1 DEF callVars
  <2> QED BY <1>9, <2>1, <2>2, SameExecutions
<1> QED BY <1>10, <1>14, <1>15, <1>16, <1>17 DEF ClientInv

LEMMA CrashKeeps ==
  ASSUME ClientInv, NEW a \in Addresses, Crash(a)
  PROVE  ClientInv'
<1>1. /\ UNCHANGED <<tableVars, rpcMutex, pc, callVars, refreshVars, executed, historyVars>>
      /\ sockets' = [fd \in DOMAIN sockets |->
           IF sockets[fd].addr # a THEN sockets[fd]
           ELSE [sockets[fd] EXCEPT !.ended = TRUE, !.request = NoRequest, !.coming = <<>>]]
  BY DEF Crash
<1>2. DOMAIN sockets' = DOMAIN sockets
  BY <1>1
<1>3. \A fd \in DOMAIN sockets :
        /\ sockets'[fd] \in Sockets
        /\ sockets'[fd].addr = sockets[fd].addr
        /\ sockets'[fd].inbox = sockets[fd].inbox
        /\ sockets'[fd].request \in {sockets[fd].request, NoRequest}
        /\ sockets'[fd].coming \in {sockets[fd].coming, <<>>}
  <2> SUFFICES ASSUME NEW fd \in DOMAIN sockets
               PROVE  /\ sockets'[fd] \in Sockets
                      /\ sockets'[fd].addr = sockets[fd].addr
                      /\ sockets'[fd].inbox = sockets[fd].inbox
                      /\ sockets'[fd].request \in {sockets[fd].request, NoRequest}
                      /\ sockets'[fd].coming \in {sockets[fd].coming, <<>>}
    OBVIOUS
  <2>1. sockets[fd] \in Sockets
    BY DEF ClientInv, Types
  <2>2. CASE sockets[fd].addr # a
    BY <1>1, <2>1, <2>2
  <2>3. CASE sockets[fd].addr = a
    <3>1. sockets'[fd] = [sockets[fd] EXCEPT !.ended = TRUE, !.request = NoRequest, !.coming = <<>>]
      BY <1>1, <2>3
    <3>2. <<>> \in Seq(Segs) /\ NoRequest \in Requests
      BY DEF Requests
    <3>3. /\ sockets'[fd].addr = sockets[fd].addr /\ sockets'[fd].inbox = sockets[fd].inbox
          /\ sockets'[fd].request = NoRequest /\ sockets'[fd].coming = <<>>
      BY <2>1, <3>1 DEF Sockets
    <3>4. sockets'[fd] \in Sockets
      BY <2>1, <3>1, <3>2 DEF Sockets
    <3> QED BY <3>3, <3>4
  <2> QED BY <2>2, <2>3
<1>4. Types' /\ Tables' /\ Holding' /\ ResultIsOwn' /\ \A u \in Threads : CallId(u)' = CallId(u)
  <2>1. sockets' \in [DOMAIN sockets -> Sockets]
    BY <1>1, <1>3
  <2>2. executed' \in [Callers -> Nat]
    BY <1>1 DEF ClientInv, Types
  <2> QED BY <1>1, <1>3, <2>1, <2>2, SameThreads
<1>5. ~HeadIn(<<>>) /\ \A id : HeadsOf(<<>>, id)
  BY DEF HeadIn, HeadsOf
<1>6. UNCHANGED <<held, got, calls, pc, historyVars, executed>>
  BY <1>1 DEF callVars
<1>7. Quiet'
  BY <1>2, <1>3, <1>5, <1>6 DEF ClientInv, Quiet
<1>8. AtMostOne'
  BY <1>2, <1>3, <1>5 DEF ClientInv, AtMostOne
<1>9. Own'
  <2> SUFFICES ASSUME NEW u \in Threads, held'[u] # 0 PROVE OwnStream(u)'
    BY DEF Own
  <2>1. OwnStream(u) /\ CallId(u)' = CallId(u) /\ held'[u] = held[u] /\ got'[u] = got[u]
        /\ held[u] \in DOMAIN sockets
    BY <1>4, <1>6, HeldIsOpen DEF ClientInv, Own
  <2> QED BY <1>3, <1>5, <2>1 DEF OwnStream
<1>10. Executions'
  <2>1. \A u \in Threads : held[u] # 0 =>
          sockets'[held[u]].request \in {sockets[held[u]].request, NoRequest}
    BY <1>3, HeldIsOpen DEF ClientInv
  <2>2. UNCHANGED outcome
    BY <1>1 DEF callVars
  <2> QED BY <1>6, <2>1, <2>2, SameExecutions
<1> QED BY <1>4, <1>7, <1>8, <1>9, <1>10 DEF ClientInv

-----------------------------------------------------------------------------
(***************************************************************************)
(* Reading a reply.                                                        *)
(***************************************************************************)

\* What has been read when read returns.
Now(t) == got[t] \o sockets[held[t]].inbox

\* What the parser takes, or waits for the rest of, starts with a first segment.
LEMMA ParsedStarts ==
  ASSUME NEW segs \in Seq(Segs), Parse(segs) # "throws"
  PROVE  segs # <<>> /\ 1 \in DOMAIN segs /\ segs[1].k = 1
<1>1. Len(segs) >= 2 /\ \A i \in 1..Len(segs) : segs[i] = Seg(segs[1].id, segs[1].wrapped, i)
  BY DEF Parse
<1>2. segs[1] = Seg(segs[1].id, segs[1].wrapped, 1)
  BY <1>1
<1> QED BY <1>1, <1>2 DEF Seg

\* When such a reply has begun, it is of the reader's call, and nothing else that
\* starts a reply is on the connection.
LEMMA ReplyIsOwn ==
  ASSUME ClientInv, NEW t \in Threads, held[t] # 0,
         got[t] # <<>> \/ Parse(Now(t)) # "throws"
  PROVE  /\ Now(t) \in Seq(Segs) /\ Now(t) # <<>>
         /\ Now(t)[1].id = CallId(t)
         /\ sockets[held[t]].request = NoRequest
         /\ ~HeadIn(sockets[held[t]].coming)
<1> DEFINE s == sockets[held[t]]
<1>1. held[t] \in DOMAIN sockets /\ s \in Sockets /\ OwnStream(t)
  BY HeldIsOpen DEF ClientInv, Own
<1>2. s.inbox \in Seq(Segs) /\ got[t] \in Seq(Segs)
  BY <1>1 DEF ClientInv, Types, Sockets
<1>3. Now(t) = got[t] \o s.inbox
  BY DEF Now
<1> HIDE DEF s
<1>4. CASE got[t] # <<>>
  <2>1. 1 \in DOMAIN got[t]
    BY <1>2, <1>4
  <2>a. /\ got[t] \o s.inbox \in Seq(Segs) /\ 1 \in DOMAIN (got[t] \o s.inbox)
        /\ (got[t] \o s.inbox)[1] = got[t][1]
    BY <1>2, <2>1, JoinedAt
  <2>2. Now(t) \in Seq(Segs) /\ 1 \in DOMAIN Now(t) /\ Now(t)[1] = got[t][1]
    BY <1>3, <2>a
  <2>3. Now(t) # <<>>
    BY <2>2
  <2> QED BY <1>1, <1>4, <2>2, <2>3 DEF OwnStream, s
<1>5. CASE got[t] = <<>>
  <2>1. Now(t) = s.inbox
    BY <1>2, <1>3, <1>5
  <2>2. Now(t) # <<>> /\ 1 \in DOMAIN s.inbox /\ s.inbox[1].k = 1
    BY <1>2, <1>5, <2>1, ParsedStarts
  <2>3. HeadIn(s.inbox)
    BY <2>2 DEF HeadIn
  <2>4. s.request = NoRequest /\ ~HeadIn(s.coming)
    BY <1>1, <2>3 DEF ClientInv, AtMostOne, s
  <2>5. s.inbox[1].id = CallId(t)
    BY <1>1, <2>2 DEF OwnStream, HeadsOf, s
  <2> QED BY <1>2, <2>1, <2>2, <2>4, <2>5 DEF s
<1> QED BY <1>4, <1>5

LEMMA ReadKeeps ==
  ASSUME ClientInv, NEW t \in Threads, Read(t)
  PROVE  ClientInv'
<1> DEFINE fd == held[t]
           old == sockets[fd]
           now == Now(t)
           new == [old EXCEPT !.inbox = <<>>]
<1>1. /\ pc[t] \in {"read", "more"}
      /\ sockets' = [sockets EXCEPT ![fd].inbox = <<>>]
      /\ UNCHANGED <<tableVars, calls, phase, status, netVars, historyVars>>
  BY DEF Read
<1>2. /\ held[t] # 0 /\ fd \in Fds /\ fd \in DOMAIN sockets /\ old \in Sockets /\ rpcMutex = {t}
      /\ \A u \in Threads : held[u] # 0 => u = t
      /\ \A u \in Threads : u # t => pc[u] \notin Using \cup {"pick"}
  <2>1. held[t] # 0
    BY <1>1 DEF ClientInv, Holding, Using
  <2>2. \A u \in Threads : u # t => pc[u] \notin Using \cup {"pick"}
    BY <2>1, HeldIsOpen DEF ClientInv, Holding
  <2> QED BY <2>1, <2>2, HeldIsOpen DEF ClientInv
<1>3. /\ new \in Sockets /\ new.inbox = <<>> /\ new.request = old.request
      /\ new.coming = old.coming /\ new.addr = old.addr
  <2> HIDE DEF old
  <2>1. <<>> \in Seq(Segs)
    OBVIOUS
  <2> QED BY <1>2, <2>1 DEF Sockets
<1>4. /\ DOMAIN sockets' = DOMAIN sockets /\ sockets'[fd] = new
      /\ \A fe \in DOMAIN sockets : fe # fd => sockets'[fe] = sockets[fe]
      /\ sockets' \in [DOMAIN sockets -> Sockets]
  BY <1>1, <1>2, <1>3 DEF ClientInv, Types
<1>5. \A fe \in DOMAIN sockets :
        /\ sockets'[fe].addr = sockets[fe].addr /\ sockets'[fe].request = sockets[fe].request
        /\ sockets'[fe].coming = sockets[fe].coming
        /\ sockets'[fe].inbox = sockets[fe].inbox \/ sockets'[fe].inbox = <<>>
  BY <1>3, <1>4
<1>6. ~HeadIn(<<>>) /\ \A id : HeadsOf(<<>>, id)
  BY DEF HeadIn, HeadsOf
<1>7. \A u \in Threads : CallId(u)' = CallId(u)
  BY <1>1 DEF CallId
<1>8. Tables'
  <2>1. /\ UNCHANGED tableVars
        /\ \A fe \in DOMAIN connectedIpportsMap : sockets'[fe].addr = connectedIpportsMap[fe]
    BY <1>1, <1>5 DEF ClientInv, Tables, Types
  <2> QED BY <2>1 DEF ClientInv, Tables, tableVars
<1>9. AtMostOne'
  BY <1>4, <1>5, <1>6 DEF ClientInv, AtMostOne
<1>10. DOMAIN connectedIpportsMap' = DOMAIN sockets
  BY <1>1 DEF tableVars, ClientInv, Types
<1> HIDE DEF new
<1>11. CASE /\ Parse(now) = "part" \/ (pc[t] = "more" /\ Len(now) < 4)
            /\ pc' = [pc EXCEPT ![t] = "more"]
            /\ got' = [got EXCEPT ![t] = now]
            /\ UNCHANGED <<held, wraps, rpcMutex, outcome, toConnect>>
  <2>1. got[t] # <<>> \/ Parse(now) # "throws"
    BY <1>11 DEF ClientInv, Holding
  <2>2. /\ now \in Seq(Segs) /\ now # <<>> /\ now[1].id = CallId(t)
        /\ old.request = NoRequest /\ ~HeadIn(old.coming)
    BY <1>2, <2>1, ReplyIsOwn
  <2> HIDE DEF now
  <2>3. pc'[t] = "more" /\ (\A u \in Threads : u # t => pc'[u] = pc[u])
        /\ got'[t] = now /\ (\A u \in Threads : u # t => got'[u] = got[u])
        /\ UNCHANGED <<held, wraps, rpcMutex, outcome, toConnect>>
    BY <1>11 DEF ClientInv, Types
  <2>4. Types'
    <3>1. pc' \in [Threads -> Places] /\ got' \in [Threads -> Seq(Segs)]
      BY <1>11, <2>2 DEF ClientInv, Types, Places, Using
    <3> QED BY <1>1, <1>4, <1>10, <2>3, <3>1 DEF ClientInv, Types, tableVars, netVars, historyVars
  <2>5. Holding'
    <3>1. UNCHANGED <<fdCache, serviceFdCache>>
      BY <1>1 DEF tableVars
    <3> QED BY <1>1, <1>2, <2>2, <2>3, <3>1 DEF ClientInv, Holding, Using, Cache
  <2>6. Quiet'
    BY <1>4, <1>5, <1>6, <2>3 DEF ClientInv, Quiet
  <2>7. Own'
    <3> SUFFICES ASSUME NEW u \in Threads, held'[u] # 0 PROVE OwnStream(u)'
      BY DEF Own
    <3>1. u = t /\ held'[u] = fd
      BY <1>2, <2>3
    <3>2. HeadsOf(old.coming, CallId(t))
      BY <2>2 DEF HeadIn, HeadsOf
    <3> QED BY <1>3, <1>4, <1>6, <1>7, <2>2, <2>3, <3>1, <3>2 DEF OwnStream
  <2>8. Executions'
    <3>1. UNCHANGED <<executed, historyVars>>
      BY <1>1 DEF netVars, historyVars
    <3>2. \A u \in Threads : held[u] # 0 => sockets'[held[u]].request = sockets[held[u]].request
      BY <1>2, <1>5
    <3>3. \A u \in Callers : pc'[u] # "idle" => pc[u] # "idle"
      BY <1>1, <2>3 DEF Threads
    <3> QED BY <2>3, <3>1, <3>2, <3>3, SameExecutions
  <2>9. ResultIsOwn'
    BY <1>7, <2>3 DEF ClientInv, ResultIsOwn, Threads
  <2> QED BY <1>8, <1>9, <2>4, <2>5, <2>6, <2>7, <2>8, <2>9 DEF ClientInv
<1>12. CASE Parse(now) = "whole" /\ Finish(t, Answer(now))
  <2>1. /\ now[1].id = CallId(t)
        /\ old.request = NoRequest /\ ~HeadIn(old.coming)
    <3>1. Parse(now) # "throws"
      BY <1>12
    <3> QED BY <1>2, <3>1, ReplyIsOwn
  <2> HIDE DEF now
  <2>2. /\ rpcMutex' = {} /\ held' = [held EXCEPT ![t] = 0]
        /\ got' = [got EXCEPT ![t] = <<>>] /\ wraps' = [wraps EXCEPT ![t] = 0]
        /\ pc' = [pc EXCEPT ![t] = IF t = Refresh THEN "connect" ELSE "idle"]
        /\ toConnect' \subseteq Addresses
        /\ outcome' = IF t = Refresh THEN outcome ELSE [outcome EXCEPT ![t] = Answer(now)]
    <3>1. toConnect \subseteq Addresses
      BY DEF ClientInv, Types
    <3>2. CASE t = Refresh
      BY <1>12, <3>2 DEF Finish, Addresses
    <3>3. CASE t # Refresh
      BY <1>12, <3>1, <3>3 DEF Finish
    <3> QED BY <3>2, <3>3
  <2>3. /\ pc'[t] \in {"connect", "idle"} /\ (\A u \in Threads : u # t => pc'[u] = pc[u])
        /\ \A u \in Threads : held'[u] = 0
        /\ got'[t] = <<>> /\ (\A u \in Threads : u # t => got'[u] = got[u])
    BY <1>2, <2>2 DEF ClientInv, Types
  <2>4. Types'
    <3>1. pc' \in [Threads -> Places] /\ got' \in [Threads -> Seq(Segs)]
      BY <2>2 DEF ClientInv, Types, Places
    <3>2. held' \in [Threads -> Fds \cup {0}] /\ wraps' \in [Threads -> Nat]
      BY <2>2 DEF ClientInv, Types
    <3>3. DOMAIN outcome' = Callers
      BY <2>2 DEF ClientInv, Types
    <3> QED BY <1>1, <1>4, <1>10, <2>2, <3>1, <3>2, <3>3 DEF ClientInv, Types, tableVars, netVars, historyVars
  <2>5. Holding'
    BY <1>2, <2>2, <2>3 DEF ClientInv, Holding, Using
  <2>6. Quiet'
    <3> SUFFICES ASSUME NEW fe \in DOMAIN sockets
                 PROVE  /\ sockets'[fe].request = NoRequest
                        /\ ~HeadIn(sockets'[fe].inbox) /\ ~HeadIn(sockets'[fe].coming)
      BY <1>4 DEF Quiet
    <3>1. CASE fe = fd
      BY <1>3, <1>4, <1>6, <2>1, <3>1
    <3>2. CASE fe # fd
      <4>1. fe # 0
        BY FdsPositive DEF ClientInv, Types
      <4>2. \A u \in Threads : held[u] # fe
        BY <1>2, <3>2, <4>1
      <4> QED BY <1>4, <3>2, <4>2 DEF ClientInv, Quiet
    <3> QED BY <3>1, <3>2
  <2>7. Own'
    BY <2>3 DEF Own
  <2>8. Executions'
    <3>1. UNCHANGED <<executed, dropped, late>>
      BY <1>1 DEF netVars, historyVars
    <3> SUFFICES ASSUME NEW u \in Callers PROVE ExecutionsOf(u)'
      BY DEF Executions
    <3>2. u \in Threads /\ u # Refresh /\ ExecutionsOf(u) /\ held'[u] = 0
      BY <2>3, ClientAssumption DEF ClientInv, Executions, Threads, Refresh
    <3>3. CASE u = t
      <4>1. outcome'[u] = Answer(now) /\ pc'[u] = "idle"
        BY <2>2, <3>2, <3>3 DEF ClientInv, Types
      <4>2. outcome'[u][1] \in {"answer", "empty"}
        BY <4>1 DEF Answer
      <4>3. executed[u] + late[u] <= dropped[u] + 1
        BY <1>2, <3>2, <3>3 DEF ExecutionsOf, Attempts, Results
      <4> QED BY <3>1, <3>2, <4>1, <4>2, <4>3 DEF ExecutionsOf, Attempts, Results
    <3>4. CASE u # t
      <4>1. outcome'[u] = outcome[u] /\ pc'[u] = pc[u] /\ held[u] = 0
        BY <1>2, <2>2, <2>3, <3>2, <3>4 DEF ClientInv, Types
      <4> QED BY <3>1, <3>2, <4>1 DEF ExecutionsOf, Attempts, Results
    <3> QED BY <3>3, <3>4
  <2>9. ResultIsOwn'
    <3> SUFFICES ASSUME NEW u \in Callers, outcome'[u][1] \in {"answer", "empty"}
                 PROVE  outcome'[u][2] = CallId(u)'
      BY DEF ResultIsOwn
    <3>1. u \in Threads /\ CallId(u)' = CallId(u)
      BY <1>7 DEF Threads
    <3>2. CASE u = t /\ t # Refresh
      <4>1. outcome'[u] = Answer(now)
        BY <2>2, <3>2 DEF ClientInv, Types
      <4> QED BY <2>1, <3>1, <3>2, <4>1 DEF Answer
    <3>3. CASE u # t \/ t = Refresh
      <4>1. outcome'[u] = outcome[u]
        BY <2>2, <3>3 DEF ClientInv, Types
      <4> QED BY <3>1, <4>1 DEF ClientInv, ResultIsOwn
    <3> QED BY <3>2, <3>3
  <2> QED BY <1>8, <1>9, <2>4, <2>5, <2>6, <2>7, <2>8, <2>9 DEF ClientInv
<1>13. CASE /\ pc' = [pc EXCEPT ![t] = "failed"]
            /\ UNCHANGED <<held, got, wraps, rpcMutex, outcome, toConnect>>
  <2>1. /\ pc'[t] = "failed" /\ \A u \in Threads : u # t => pc'[u] = pc[u]
    BY <1>13 DEF ClientInv, Types
  <2>2. Types'
    <3>1. pc' \in [Threads -> Places]
      BY <1>13 DEF ClientInv, Types, Places, Using
    <3> QED BY <1>1, <1>4, <1>10, <1>13, <3>1 DEF ClientInv, Types, tableVars, netVars, historyVars
  <2>3. Holding'
    <3>1. UNCHANGED <<fdCache, serviceFdCache>>
      BY <1>1 DEF tableVars
    <3> QED BY <1>1, <1>2, <1>13, <2>1, <3>1 DEF ClientInv, Holding, Using, Cache
  <2>4. Quiet'
    BY <1>4, <1>5, <1>6, <1>13 DEF ClientInv, Quiet
  <2>5. Own'
    <3> SUFFICES ASSUME NEW u \in Threads, held'[u] # 0 PROVE OwnStream(u)'
      BY DEF Own
    <3>1. u = t /\ held'[u] = fd /\ got'[u] = got[u] /\ OwnStream(u)
      BY <1>2, <1>13 DEF ClientInv, Own
    <3> QED BY <1>3, <1>4, <1>6, <1>7, <3>1 DEF OwnStream
  <2>6. Executions'
    <3>1. UNCHANGED <<executed, historyVars, held, outcome>>
      BY <1>1, <1>13 DEF netVars, historyVars
    <3>2. \A u \in Threads : held[u] # 0 => sockets'[held[u]].request = sockets[held[u]].request
      BY <1>2, <1>5
    <3>3. \A u \in Callers : pc'[u] # "idle" => pc[u] # "idle"
      BY <1>1, <2>1 DEF Threads
    <3> QED BY <3>1, <3>2, <3>3, SameExecutions
  <2>7. ResultIsOwn'
    BY <1>7, <1>13 DEF ClientInv, ResultIsOwn, Threads
  <2> QED BY <1>8, <1>9, <2>2, <2>3, <2>4, <2>5, <2>6, <2>7 DEF ClientInv
<1> QED BY <1>11, <1>12, <1>13 DEF Read, Now

-----------------------------------------------------------------------------
(***************************************************************************)
(* Connections that are cut.  Nothing is kept of what is on them, so that  *)
(* what is said of requests and replies holds of them for nothing.         *)
(***************************************************************************)
LEMMA WriteCutKeeps ==
  ASSUME ClientInv, NEW t \in Threads, WriteCut(t)
  PROVE  ClientInv'
<1>1. /\ pc[t] = "pick" /\ pc' = [pc EXCEPT ![t] = "read"]
      /\ wraps' = [wraps EXCEPT ![t] = Wrap(t)]
      /\ late' = IF t = Refresh THEN late ELSE [late EXCEPT ![t] = @ + 1]
      /\ UNCHANGED <<tableVars, rpcMutex, got, calls, outcome, refreshVars, sockets, netVars, dropped>>
  BY DEF WriteCut
<1>2. PICK fd \in Cache(t) : held' = [held EXCEPT ![t] = fd]
  BY DEF WriteCut
<1>3. rpcMutex = {t} /\ held[t] = 0 /\ got[t] = <<>>
  BY <1>1, InBodyAlone DEF ClientInv, Holding, Using
<1>4. \A u \in Threads : held[u] = 0
  BY <1>1, <1>3, InBodyAlone DEF ClientInv
<1>5. fd \in DOMAIN sockets /\ fd \in Fds /\ fd # 0
  <2>1. fd \in fdCache \cup serviceFdCache
    BY <1>2 DEF Cache
  <2>2. fd \in DOMAIN sockets /\ fd \in Fds
    BY <2>1 DEF ClientInv, Types, Tables
  <2> QED BY <2>2, FdsPositive
<1>6. /\ sockets[fd].request = NoRequest
      /\ ~HeadIn(sockets[fd].inbox) /\ ~HeadIn(sockets[fd].coming)
  BY <1>4, <1>5 DEF ClientInv, Quiet
<1>7. held'[t] = fd /\ \A u \in Threads : u # t => held'[u] = 0
  BY <1>2, <1>4 DEF ClientInv, Types
<1>8. pc'[t] = "read" /\ \A u \in Threads : u # t => pc'[u] = pc[u]
  BY <1>1 DEF ClientInv, Types
<1>9. Types'
  <2>1. pc' \in [Threads -> Places] /\ held' \in [Threads -> Fds \cup {0}]
    BY <1>1, <1>2, <1>5 DEF ClientInv, Types, Places, Using
  <2>2. wraps' \in [Threads -> Nat]
    <3>1. Wrap(t) \in Nat
      BY DEF ClientInv, Types, Wrap
    <3> QED BY <1>1, <3>1 DEF ClientInv, Types
  <2>3. late' \in [Callers -> Nat]
    <3>1. late \in [Callers -> Nat] /\ (t = Refresh \/ t \in Callers)
      BY DEF ClientInv, Types, Threads
    <3> QED BY <1>1, <3>1
  <2>4. UNCHANGED <<connectedIpports, connectedIpportsMap, fdCache, serviceFdCache, rpcMutex, got,
                    calls, outcome, toConnect, phase, status, sockets, executed, dropped>>
    BY <1>1 DEF tableVars, refreshVars, netVars
  <2> QED BY <2>1, <2>2, <2>3, <2>4 DEF ClientInv, Types
<1>10. Tables'
  BY <1>1 DEF ClientInv, Tables, tableVars
<1>11. Holding'
  <2>1. UNCHANGED <<rpcMutex, got, fdCache, serviceFdCache>>
    BY <1>1 DEF tableVars
  <2>2. fd \in Cache(t)'
    BY <2>1 DEF Cache
  <2>3. \A u \in Threads : u # t => pc[u] \notin Using \cup {"pick"}
    BY <1>1, <1>3 DEF ClientInv, Holding
  <2> QED BY <1>3, <1>5, <1>7, <1>8, <2>1, <2>2, <2>3 DEF ClientInv, Holding, Using
<1>12. Quiet' /\ AtMostOne'
  <2>1. \A fe \in DOMAIN sockets : \A u \in Threads : held[u] # fe
    BY <1>4, FdsPositive DEF ClientInv, Types
  <2>2. Quiet'
    BY <1>1, <2>1 DEF ClientInv, Quiet
  <2>3. AtMostOne'
    BY <1>1 DEF ClientInv, AtMostOne
  <2> QED BY <2>2, <2>3
<1>13. Own'
  <2> SUFFICES ASSUME NEW u \in Threads, held'[u] # 0 PROVE OwnStream(u)'
    BY DEF Own
  <2>1. u = t /\ got'[t] = <<>>
    BY <1>1, <1>3, <1>7
  <2>2. HeadsOf(sockets[fd].inbox, CallId(t)') /\ HeadsOf(sockets[fd].coming, CallId(t)')
    BY <1>6 DEF HeadsOf, HeadIn
  <2> QED BY <1>1, <1>6, <1>7, <2>1, <2>2 DEF OwnStream
<1>14. Executions'
  <2> SUFFICES ASSUME NEW u \in Callers PROVE ExecutionsOf(u)'
    BY DEF Executions
  <2>1. /\ u \in Threads /\ u # Refresh /\ held[u] = 0 /\ ExecutionsOf(u)
        /\ UNCHANGED <<executed, dropped, outcome, sockets>>
        /\ dropped[u] \in Nat /\ executed[u] \in Nat /\ late[u] \in Nat
    BY <1>1, <1>4, ClientAssumption DEF ClientInv, Executions, Types, Threads, Refresh, netVars
  <2>2. CASE u = t
    <3>1. outcome[u] = <<"none">>
      BY <1>1, <2>1, <2>2 DEF ExecutionsOf
    <3>2. outcome[u][1] = "none"
      BY <3>1, Marks
    <3>3. executed[u] + late[u] <= dropped[u]
      BY <2>1, <3>2 DEF ExecutionsOf, Attempts, Results
    <3>4. late'[u] = late[u] + 1 /\ held'[u] = fd
      BY <1>1, <1>7, <2>1, <2>2 DEF ClientInv, Types
    <3>5. Attempts(u)' = dropped[u] + 1
      BY <1>5, <2>1, <3>4 DEF Attempts, Results
    <3>6. executed'[u] + late'[u] <= dropped[u] + 1
      BY <2>1, <3>3, <3>4
    <3> QED BY <1>6, <2>1, <3>1, <3>4, <3>5, <3>6 DEF ExecutionsOf
  <2>3. CASE u # t
    <3>1. late'[u] = late[u] /\ held'[u] = 0 /\ pc'[u] = pc[u]
      BY <1>1, <1>7, <1>8, <2>1, <2>3 DEF ClientInv, Types
    <3> QED BY <2>1, <3>1 DEF ExecutionsOf, Attempts, Results
  <2> QED BY <2>2, <2>3
<1>15. ResultIsOwn'
  BY <1>1 DEF ClientInv, ResultIsOwn, CallId
<1> QED BY <1>9, <1>10, <1>11, <1>12, <1>13, <1>14, <1>15 DEF ClientInv

\* The three ends of a read from a connection that is cut.
LEMMA ReadCutEnds ==
  ASSUME NEW t \in Threads, ReadCut(t)
  PROVE  /\ pc[t] = "read" /\ sockets[held[t]].cut
         /\ UNCHANGED <<tableVars, calls, phase, sockets, netVars, historyVars>>
         /\ \/ /\ pc' \in {[pc EXCEPT ![t] = "failed"], [pc EXCEPT ![t] = "spin"]}
               /\ UNCHANGED <<held, got, wraps, rpcMutex, outcome, toConnect, status>>
            \/ /\ rpcMutex' = {} /\ held' = [held EXCEPT ![t] = 0]
               /\ got' \in {got, [got EXCEPT ![t] = <<>>]}
               /\ wraps' = [wraps EXCEPT ![t] = 0]
               /\ \/ /\ t = Refresh
                     /\ \E w \in {"connect", "none"} : pc' = [pc EXCEPT ![t] = w]
                     /\ toConnect' \subseteq Providers \/ UNCHANGED toConnect
                     /\ status' \in {status, "terminated", "refused"}
                     /\ UNCHANGED outcome
                  \/ /\ t # Refresh
                     /\ pc' = [pc EXCEPT ![t] = "idle"]
                     /\ outcome' = [outcome EXCEPT ![t] = <<"unmatched">>]
                     /\ UNCHANGED <<toConnect, status>>
<1>1. /\ pc[t] = "read" /\ sockets[held[t]].cut
      /\ UNCHANGED <<tableVars, calls, phase, sockets, netVars, historyVars>>
  BY DEF ReadCut
<1>2. CASE Finish(t, <<"unmatched">>) /\ UNCHANGED status
  BY <1>1, <1>2 DEF Finish
<1>3. CASE /\ \/ pc' = [pc EXCEPT ![t] = "failed"]
              \/ sockets[held[t]].ended /\ pc' = [pc EXCEPT ![t] = "spin"]
           /\ UNCHANGED <<held, got, wraps, rpcMutex, outcome, toConnect, status>>
  BY <1>1, <1>3
<1>4. CASE /\ t = Refresh
           /\ rpcMutex' = {}
           /\ held' = [held EXCEPT ![t] = 0]
           /\ wraps' = [wraps EXCEPT ![t] = 0]
           /\ pc' = [pc EXCEPT ![t] = "none"]
           /\ status' = IF phase = "built" THEN "terminated" ELSE "refused"
           /\ UNCHANGED <<got, outcome, toConnect>>
  BY <1>1, <1>4
<1> QED BY <1>2, <1>3, <1>4 DEF ReadCut

LEMMA UnmatchedMark == <<"unmatched">>[1] = "unmatched"
OBVIOUS

LEMMA ReadCutKeeps ==
  ASSUME ClientInv, CutKnown, NEW t \in Threads, ReadCut(t)
  PROVE  ClientInv'
<1> DEFINE fd == held[t]
<1>1. /\ pc[t] = "read" /\ sockets[fd].cut
      /\ UNCHANGED <<tableVars, calls, phase, sockets, netVars, historyVars>>
  BY ReadCutEnds
<1>2. /\ held[t] # 0 /\ fd \in Fds /\ fd \in DOMAIN sockets /\ rpcMutex = {t}
      /\ \A u \in Threads : held[u] # 0 => u = t
      /\ \A u \in Threads : u # t => pc[u] \notin Using \cup {"pick"}
  <2>1. held[t] # 0
    BY <1>1 DEF ClientInv, Holding, Using
  <2>2. \A u \in Threads : u # t => pc[u] \notin Using \cup {"pick"}
    BY <2>1, HeldIsOpen DEF ClientInv, Holding
  <2> QED BY <2>1, <2>2, HeldIsOpen DEF ClientInv
<1>3. got[t] = <<>>
  BY <1>1 DEF ClientInv, Holding
<1>4. sockets[fd].request = NoRequest /\ ~HeadIn(sockets[fd].inbox) /\ ~HeadIn(sockets[fd].coming)
  BY <1>1, <1>2 DEF CutKnown, HeadIn
<1>5. Tables' /\ AtMostOne' /\ \A u \in Threads : CallId(u)' = CallId(u)
  BY <1>1 DEF ClientInv, Tables, AtMostOne, CallId, tableVars
<1> HIDE DEF fd
<1>6. CASE /\ pc' \in {[pc EXCEPT ![t] = "failed"], [pc EXCEPT ![t] = "spin"]}
           /\ UNCHANGED <<held, got, wraps, rpcMutex, outcome, toConnect, status>>
  <2>1. /\ pc'[t] \in {"failed", "spin"} /\ \A u \in Threads : u # t => pc'[u] = pc[u]
    BY <1>6 DEF ClientInv, Types
  <2>2. Types'
    <3>1. pc' \in [Threads -> Places]
      BY <1>6 DEF ClientInv, Types, Places, Using
    <3> QED BY <1>1, <1>6, <3>1 DEF ClientInv, Types, tableVars, netVars, historyVars
  <2>3. Holding'
    <3>1. UNCHANGED <<fdCache, serviceFdCache>>
      BY <1>1 DEF tableVars
    <3> QED BY <1>1, <1>2, <1>6, <2>1, <3>1 DEF ClientInv, Holding, Using, Cache
  <2>4. Quiet' /\ Own'
    BY <1>1, <1>6, SameStreams
  <2>5. Executions'
    <3>1. \A u \in Callers : pc'[u] # "idle" => pc[u] # "idle"
      BY <1>1, <2>1 DEF Threads
    <3> QED BY <1>1, <1>6, <3>1, SameExecutions DEF netVars
  <2>6. ResultIsOwn'
    BY <1>5, <1>6 DEF ClientInv, ResultIsOwn, Threads
  <2> QED BY <1>5, <2>2, <2>3, <2>4, <2>5, <2>6 DEF ClientInv
<1>7. CASE /\ rpcMutex' = {} /\ held' = [held EXCEPT ![t] = 0]
           /\ got' \in {got, [got EXCEPT ![t] = <<>>]}
           /\ wraps' = [wraps EXCEPT ![t] = 0]
           /\ \/ /\ t = Refresh
                 /\ \E w \in {"connect", "none"} : pc' = [pc EXCEPT ![t] = w]
                 /\ toConnect' \subseteq Providers \/ UNCHANGED toConnect
                 /\ status' \in {status, "terminated", "refused"}
                 /\ UNCHANGED outcome
              \/ /\ t # Refresh
                 /\ pc' = [pc EXCEPT ![t] = "idle"]
                 /\ outcome' = [outcome EXCEPT ![t] = <<"unmatched">>]
                 /\ UNCHANGED <<toConnect, status>>
  <2>1. /\ pc'[t] \in {"connect", "none", "idle"} /\ (\A u \in Threads : u # t => pc'[u] = pc[u])
        /\ (t = Refresh \/ pc'[t] = "idle") /\ pc' \in [Threads -> Places]
    BY <1>7 DEF ClientInv, Types, Places
  <2>2. /\ \A u \in Threads : held'[u] = 0
        /\ got'[t] = <<>> /\ (\A u \in Threads : u # t => got'[u] = got[u])
        /\ got' \in [Threads -> Seq(Segs)]
    BY <1>2, <1>3, <1>7 DEF ClientInv, Types
  <2>3. Types'
    <3>1. held' \in [Threads -> Fds \cup {0}] /\ wraps' \in [Threads -> Nat]
      BY <1>7 DEF ClientInv, Types
    <3>2. DOMAIN outcome' = Callers
      BY <1>7 DEF ClientInv, Types
    <3>3. toConnect' \subseteq Addresses /\ status' \in {"up", "refused", "terminated"}
      BY <1>7 DEF ClientInv, Types, Addresses
    <3>4. rpcMutex' \subseteq Threads
      BY <1>7
    <3> QED BY <1>1, <2>1, <2>2, <3>1, <3>2, <3>3, <3>4 DEF ClientInv, Types, tableVars, netVars, historyVars
  <2>4. Holding'
    BY <1>2, <1>7, <2>1, <2>2 DEF ClientInv, Holding, Using
  <2>5. Quiet'
    <3> SUFFICES ASSUME NEW fe \in DOMAIN sockets
                 PROVE  /\ sockets[fe].request = NoRequest
                        /\ ~HeadIn(sockets[fe].inbox) /\ ~HeadIn(sockets[fe].coming)
      BY <1>1 DEF Quiet
    <3>1. CASE fe # fd
      <4>1. fe # 0
        BY FdsPositive DEF ClientInv, Types
      <4>2. \A u \in Threads : held[u] # fe
        BY <1>2, <3>1, <4>1 DEF fd
      <4> QED BY <4>2 DEF ClientInv, Quiet
    <3> QED BY <1>4, <3>1
  <2>6. Own'
    BY <2>2 DEF Own
  <2>7. Executions'
    <3> SUFFICES ASSUME NEW u \in Callers PROVE ExecutionsOf(u)'
      BY DEF Executions
    <3>1. u \in Threads /\ u # Refresh /\ ExecutionsOf(u) /\ held'[u] = 0
          /\ UNCHANGED <<executed, dropped, late>>
      BY <1>1, <2>2, ClientAssumption DEF ClientInv, Executions, Threads, Refresh, netVars, historyVars
    <3>2. CASE u = t
      <4>1. outcome'[u] = <<"unmatched">> /\ pc'[u] = "idle"
        BY <1>7, <2>1, <3>1, <3>2 DEF ClientInv, Types
      <4>2. outcome'[u][1] \in Results
        BY <4>1, UnmatchedMark DEF Results
      <4>3. executed[u] + late[u] <= dropped[u] + 1
        BY <1>2, <3>1, <3>2 DEF ExecutionsOf, Attempts, Results
      <4> QED BY <3>1, <4>1, <4>2, <4>3 DEF ExecutionsOf, Attempts, Results
    <3>3. CASE u # t
      <4>1. outcome'[u] = outcome[u] /\ pc'[u] = pc[u] /\ held[u] = 0
        BY <1>2, <1>7, <2>1, <3>1, <3>3 DEF ClientInv, Types
      <4> QED BY <3>1, <4>1 DEF ExecutionsOf, Attempts, Results
    <3> QED BY <3>2, <3>3
  <2>8. ResultIsOwn'
    <3> SUFFICES ASSUME NEW u \in Callers, outcome'[u][1] \in {"answer", "empty"}
                 PROVE  outcome'[u][2] = CallId(u)'
      BY DEF ResultIsOwn
    <3>1. outcome'[u] \in {outcome[u], <<"unmatched">>} /\ u \in Threads
      BY <1>7 DEF ClientInv, Types, Threads
    <3>2. outcome'[u] = outcome[u]
      BY <3>1, UnmatchedMark
    <3> QED BY <1>5, <3>1, <3>2 DEF ClientInv, ResultIsOwn
  <2> QED BY <1>5, <2>3, <2>4, <2>5, <2>6, <2>7, <2>8 DEF ClientInv
<1> QED BY <1>6, <1>7, ReadCutEnds

\* What was waiting for its reply may be executed or not; the rest is forgotten.
LEMMA ServeCutKeeps ==
  ASSUME ClientInv, NEW fd \in DOMAIN sockets, ServeCut(fd)
  PROVE  ClientInv'
<1> DEFINE old == sockets[fd]
           new == [old EXCEPT !.cut = TRUE, !.request = NoRequest, !.coming = <<>>, !.inbox = <<>>]
<1>1. /\ old.request # NoRequest
      /\ UNCHANGED <<tableVars, rpcMutex, pc, callVars, refreshVars, executed, dropped>>
      /\ sockets' = [sockets EXCEPT ![fd] = new]
  BY DEF ServeCut, ClientInv, Types, Sockets
<1>2. PICK t \in Threads : /\ held[t] = fd /\ held[t] # 0
                           /\ old.request.id = CallId(t)
                           /\ got[t] = <<>>
                           /\ \A u \in Threads : held[u] # 0 => u = t
  BY <1>1, RequestHeld
<1>3. /\ new \in Sockets /\ new.request = NoRequest /\ new.addr = old.addr
      /\ new.inbox = <<>> /\ new.coming = <<>>
  <2>1. old \in Sockets /\ NoRequest \in Requests
    BY DEF ClientInv, Types, Requests
  <2>2. <<>> \in Seq(Segs)
    OBVIOUS
  <2> QED BY <2>1, <2>2 DEF Sockets
<1>4. late' = IF t = Refresh THEN late ELSE [late EXCEPT ![t] = @ + 1]
  <2>1. old.request.id[1] = t
    BY <1>2 DEF CallId
  <2> QED BY <2>1 DEF ServeCut
<1> HIDE DEF new
<1>5. /\ DOMAIN sockets' = DOMAIN sockets /\ sockets'[fd] = new
      /\ \A fe \in DOMAIN sockets : fe # fd => sockets'[fe] = sockets[fe]
      /\ sockets' \in [DOMAIN sockets -> Sockets]
  BY <1>1, <1>3 DEF ClientInv, Types
<1>6. ~HeadIn(<<>>) /\ \A id : HeadsOf(<<>>, id)
  BY DEF HeadIn, HeadsOf
<1>7. \A fe \in DOMAIN sockets : sockets'[fe].addr = sockets[fe].addr
  BY <1>3, <1>5
<1>8. UNCHANGED <<held, got, calls, outcome>>
  BY <1>1 DEF callVars
<1>9. Types'
  <2>1. late' \in [Callers -> Nat]
    <3>1. late \in [Callers -> Nat] /\ (t = Refresh \/ t \in Callers)
      BY DEF ClientInv, Types, Threads
    <3> QED BY <1>4, <3>1
  <2>2. UNCHANGED <<connectedIpports, connectedIpportsMap, fdCache, serviceFdCache, rpcMutex, pc,
                    held, got, wraps, calls, outcome, toConnect, phase, status, executed, dropped>>
    BY <1>1 DEF tableVars, callVars, refreshVars
  <2>3. sockets' \in [DOMAIN connectedIpportsMap -> Sockets]
    BY <1>5 DEF ClientInv, Types
  <2> QED BY <2>1, <2>2, <2>3 DEF ClientInv, Types
<1>10. Tables'
  <2>1. \A fe \in DOMAIN connectedIpportsMap : sockets'[fe].addr = connectedIpportsMap[fe]
    BY <1>7 DEF ClientInv, Types, Tables
  <2> QED BY <1>1, <2>1 DEF ClientInv, Tables, tableVars
<1>11. Holding' /\ ResultIsOwn' /\ \A u \in Threads : CallId(u)' = CallId(u)
  BY <1>1 DEF ClientInv, Holding, ResultIsOwn, CallId, Cache, tableVars, callVars
<1>12. Quiet'
  BY <1>3, <1>5, <1>6, <1>8 DEF ClientInv, Quiet
<1>13. AtMostOne'
  BY <1>3, <1>5, <1>6 DEF ClientInv, AtMostOne
<1>14. Own'
  <2> SUFFICES ASSUME NEW u \in Threads, held'[u] # 0 PROVE OwnStream(u)'
    BY DEF Own
  <2>1. u = t /\ held'[u] = fd /\ got'[u] = <<>>
    BY <1>2, <1>8
  <2> QED BY <1>3, <1>5, <1>6, <2>1 DEF OwnStream
<1>15. Executions'
  <2> SUFFICES ASSUME NEW u \in Callers PROVE ExecutionsOf(u)'
    BY DEF Executions
  <2>1. /\ u \in Threads /\ u # Refresh /\ executed[u] \in Nat /\ dropped[u] \in Nat
        /\ late[u] \in Nat /\ ExecutionsOf(u) /\ UNCHANGED <<executed, outcome, dropped, pc, held>>
    BY <1>1, <1>8, ClientAssumption DEF ClientInv, Types, Threads, Refresh, Executions
  <2>2. CASE u = t
    <3>1. late'[u] = late[u] + 1
      BY <1>4, <2>1, <2>2 DEF ClientInv, Types
    <3>2. executed[u] + late[u] <= dropped[u] /\ Attempts(u)' = dropped[u] + 1
      BY <1>1, <1>2, <2>1, <2>2 DEF ExecutionsOf, Attempts, Results
    <3>3. sockets'[held'[u]].request = NoRequest
      BY <1>2, <1>3, <1>5, <1>8, <2>2
    <3>4. executed'[u] + late'[u] <= dropped[u] + 1
      BY <2>1, <3>1, <3>2
    <3> QED BY <2>1, <3>2, <3>3, <3>4 DEF ExecutionsOf
  <2>3. CASE u # t
    <3>1. late'[u] = late[u] /\ held'[u] = 0
      BY <1>2, <1>4, <1>8, <2>1, <2>3 DEF ClientInv, Types
    <3> QED BY <2>1, <3>1 DEF ExecutionsOf, Attempts, Results
  <2> QED BY <2>2, <2>3
<1> QED BY <1>9, <1>10, <1>11, <1>12, <1>13, <1>14, <1>15 DEF ClientInv

LEMMA CutKnownInit == Init => CutKnown
BY DEF Init, CutKnown

\* Steps that cut no connection leave those that are as they are, or empty.
LEMMA CutSame ==
  ASSUME CutKnown, UNCHANGED cuts,
         \A fd \in DOMAIN sockets' :
           \/ ~sockets'[fd].cut
           \/ /\ fd \in DOMAIN sockets /\ sockets[fd].cut
              /\ sockets'[fd].request \in {sockets[fd].request, NoRequest}
              /\ sockets'[fd].inbox \in {sockets[fd].inbox, <<>>}
              /\ sockets'[fd].coming \in {sockets[fd].coming, <<>>}
  PROVE  CutKnown'
BY DEF CutKnown

LEMMA CutKnownStep == ClientInv /\ CutKnown /\ [Next]_vars => CutKnown'
<1> SUFFICES ASSUME ClientInv, CutKnown, [Next]_vars PROVE CutKnown'
  OBVIOUS
<1>0. \A fd \in DOMAIN sockets : sockets[fd] \in Sockets
  BY DEF ClientInv, Types
<1>1. CASE UNCHANGED <<sockets, cuts>>
  BY <1>1, CutSame
<1>2. CASE ConnectEnd \/ WakeUp \/ UNCHANGED vars
  BY <1>1, <1>2 DEF ConnectEnd, WakeUp, vars, netVars, worldVars
<1>3. ASSUME NEW a \in Addresses, ConnectOne(a) PROVE CutKnown'
  <2>1. UNCHANGED cuts
    BY <1>3 DEF ConnectOne, netVars, worldVars
  <2>2. CASE Connectable(a) /\ sockets' = Extend(sockets, NewFd,
               [addr |-> a, ended |-> FALSE, cut |-> FALSE, request |-> NoRequest,
                coming |-> <<>>, inbox |-> <<>>])
    <3>1. NewFd \notin DOMAIN sockets
      BY <2>2, NewFdIsFree DEF ClientInv, Connectable
    <3>2. /\ DOMAIN sockets' = DOMAIN sockets \cup {NewFd} /\ ~sockets'[NewFd].cut
          /\ \A fd \in DOMAIN sockets : sockets'[fd] = sockets[fd]
      BY <2>2, <3>1 DEF Extend
    <3> QED BY <2>1, <3>2, CutSame
  <2> QED BY <1>1, <1>3, <2>1, <2>2 DEF ConnectOne
<1>4. ASSUME NEW t \in Threads,
             LockRpc(t) \/ WriteCut(t) \/ ReadCut(t) \/ ReadEnd(t) \/ Throw(t)
      PROVE  CutKnown'
  BY <1>1, <1>4 DEF LockRpc, WriteCut, ReadCut, ReadEnd, Throw, netVars, worldVars
<1>5. ASSUME NEW t \in Callers, Call(t) \/ ServeLate(t) PROVE CutKnown'
  BY <1>1, <1>5 DEF Call, ServeLate, worldVars
<1>6. ASSUME NEW t \in Threads, Write(t) PROVE CutKnown'
  <2>1. UNCHANGED cuts
    BY <1>6 DEF Write, netVars, worldVars
  <2>2. PICK fd \in Cache(t) :
          /\ sockets[fd].cut => sockets[fd].ended
          /\ sockets' = IF sockets[fd].ended THEN sockets
               ELSE [sockets EXCEPT ![fd].request = [id |-> CallId(t), wraps |-> Wrap(t)]]
    BY <1>6 DEF Write
  <2>3. CASE ~sockets[fd].ended
    <3>1. fd \in DOMAIN sockets
      BY <2>2 DEF Cache, ClientInv, Types, Tables
    <3>2. sockets' = [sockets EXCEPT ![fd] =
                        [sockets[fd] EXCEPT !.request = [id |-> CallId(t), wraps |-> Wrap(t)]]]
      BY <2>2, <2>3
    <3>3. /\ DOMAIN sockets' = DOMAIN sockets /\ sockets'[fd].cut = sockets[fd].cut
          /\ \A fe \in DOMAIN sockets : fe # fd => sockets'[fe] = sockets[fe]
      BY <1>0, <3>1, <3>2 DEF ClientInv, Types, Sockets
    <3> QED BY <2>1, <2>2, <2>3, <3>3, CutSame
  <2> QED BY <1>1, <2>1, <2>2, <2>3
<1>7. ASSUME NEW t \in Threads, Read(t) PROVE CutKnown'
  <2>1. UNCHANGED cuts /\ held[t] \in DOMAIN sockets
    <3>1. held[t] # 0
      BY <1>7 DEF Read, ClientInv, Holding, Using
    <3> QED BY <1>7, <3>1, HeldIsOpen DEF Read, ClientInv, netVars, worldVars
  <2>2. sockets' = [sockets EXCEPT ![held[t]] = [sockets[held[t]] EXCEPT !.inbox = <<>>]]
    BY <1>7 DEF Read
  <2>3. /\ DOMAIN sockets' = DOMAIN sockets
        /\ \A fe \in DOMAIN sockets :
             /\ sockets'[fe].cut = sockets[fe].cut /\ sockets'[fe].request = sockets[fe].request
             /\ sockets'[fe].inbox \in {sockets[fe].inbox, <<>>}
             /\ sockets'[fe].coming = sockets[fe].coming
    BY <1>0, <2>1, <2>2 DEF ClientInv, Types, Sockets
  <2> QED BY <2>1, <2>3, CutSame
<1>8. ASSUME NEW t \in Threads, Drop(t) PROVE CutKnown'
  <2>1. UNCHANGED cuts /\ sockets' = [fe \in DOMAIN sockets \ {held[t]} |-> sockets[fe]]
    BY <1>8 DEF Drop, Restrict, netVars, worldVars
  <2> QED BY <2>1, CutSame
<1>9. ASSUME NEW fd \in DOMAIN sockets, Serve(fd) \/ Deliver(fd) PROVE CutKnown'
  <2>1. UNCHANGED cuts
    BY <1>9 DEF Serve, Deliver, netVars, worldVars
  <2>2. ~sockets[fd].cut
    BY <1>9 DEF Serve, Deliver, CutKnown
  <2>3. PICK req, coming, inbox :
          sockets' = [sockets EXCEPT ![fd] =
            [sockets[fd] EXCEPT !.request = req, !.coming = coming, !.inbox = inbox]]
    <3>1. CASE Serve(fd)
      <4>1. sockets' = [sockets EXCEPT ![fd] = [sockets[fd] EXCEPT
                          !.request = NoRequest,
                          !.coming = sockets[fd].coming \o ReplyTo(sockets[fd].request),
                          !.inbox = sockets[fd].inbox]]
        BY <1>0, <3>1 DEF Serve, ClientInv, Types, Sockets
      <4> QED BY <4>1
    <3>2. CASE Deliver(fd)
      <4>1. PICK n \in 1..Len(sockets[fd].coming) :
              sockets' = [sockets EXCEPT
                ![fd].inbox = @ \o SubSeq(sockets[fd].coming, 1, n),
                ![fd].coming = SubSeq(@, n + 1, Len(@))]
        BY <3>2 DEF Deliver
      <4>2. sockets' = [sockets EXCEPT ![fd] = [sockets[fd] EXCEPT
                          !.request = sockets[fd].request,
                          !.coming = SubSeq(sockets[fd].coming, n + 1, Len(sockets[fd].coming)),
                          !.inbox = sockets[fd].inbox \o SubSeq(sockets[fd].coming, 1, n)]]
        BY <1>0, <4>1 DEF ClientInv, Types, Sockets
      <4> QED BY <4>2
    <3> QED BY <1>9, <3>1, <3>2
  <2>4. /\ DOMAIN sockets' = DOMAIN sockets /\ sockets'[fd].cut = sockets[fd].cut
        /\ \A fe \in DOMAIN sockets : fe # fd => sockets'[fe] = sockets[fe]
    BY <1>0, <2>3 DEF ClientInv, Types, Sockets
  <2> QED BY <2>1, <2>2, <2>4, CutSame
<1>10. ASSUME NEW fd \in DOMAIN sockets, ServeCut(fd) PROVE CutKnown'
  <2>1. cuts' = cuts + 1 /\ cuts \in Nat /\ cuts' > 0 /\ cuts' \in Nat
    BY <1>10 DEF ServeCut, CutKnown
  <2>2. sockets' = [sockets EXCEPT ![fd] = [sockets[fd] EXCEPT
                      !.cut = TRUE, !.request = NoRequest, !.coming = <<>>, !.inbox = <<>>]]
    BY <1>10 DEF ServeCut, ClientInv, Types
  <2>3. /\ DOMAIN sockets' = DOMAIN sockets
        /\ \A fe \in DOMAIN sockets : fe # fd => sockets'[fe] = sockets[fe]
        /\ sockets'[fd].request = NoRequest /\ sockets'[fd].inbox = <<>> /\ sockets'[fd].coming = <<>>
    BY <1>0, <2>2 DEF ClientInv, Types, Sockets
  <2> QED BY <2>1, <2>3 DEF CutKnown
<1>11. ASSUME NEW a \in Addresses, Crash(a) \/ Restart(a) PROVE CutKnown'
  <2>1. CASE Restart(a)
    BY <1>1, <2>1 DEF Restart
  <2>2. CASE Crash(a)
    <3>1. UNCHANGED cuts
      BY <2>2 DEF Crash
    <3>2. DOMAIN sockets' = DOMAIN sockets
          /\ \A fe \in DOMAIN sockets : sockets'[fe] \in {sockets[fe],
               [sockets[fe] EXCEPT !.ended = TRUE, !.request = NoRequest, !.coming = <<>>]}
      BY <2>2 DEF Crash
    <3>3. \A fe \in DOMAIN sockets :
             /\ sockets'[fe].cut = sockets[fe].cut
             /\ sockets'[fe].request \in {sockets[fe].request, NoRequest}
             /\ sockets'[fe].inbox = sockets[fe].inbox
             /\ sockets'[fe].coming \in {sockets[fe].coming, <<>>}
      BY <1>0, <3>2 DEF Sockets
    <3> QED BY <3>1, <3>2, <3>3, CutSame
  <2> QED BY <1>11, <2>1, <2>2
<1> QED BY <1>2, <1>3, <1>4, <1>5, <1>6, <1>7, <1>8, <1>9, <1>10, <1>11
        DEF Next, Refreshing, Run, Network

-----------------------------------------------------------------------------
(***************************************************************************)
(* The theorems.                                                           *)
(***************************************************************************)
LEMMA ClientStep == ClientInv /\ CutKnown /\ [Next]_vars => ClientInv'
<1> SUFFICES ASSUME ClientInv, CutKnown, [Next]_vars PROVE ClientInv'
  OBVIOUS
<1>1. CASE Refreshing
  BY <1>1, ConnectEndKeeps, ConnectOneKeeps DEF Refreshing
<1>2. CASE WakeUp
  BY <1>2, WakeUpKeeps
<1>3. ASSUME NEW t \in Callers, Call(t) PROVE ClientInv'
  BY <1>3, CallKeeps
<1>4. ASSUME NEW t \in Threads, LockRpc(t) \/ Run(t) PROVE ClientInv'
  BY <1>4, LockRpcKeeps, WriteKeeps, WriteCutKeeps, ReadKeeps, ReadCutKeeps, ReadEndKeeps,
     DropKeeps, ThrowKeeps DEF Run
<1>5. CASE Network
  BY <1>5, ServeKeeps, ServeCutKeeps, ServeLateKeeps, DeliverKeeps DEF Network
<1>6. ASSUME NEW a \in Addresses, Crash(a) \/ Restart(a) PROVE ClientInv'
  BY <1>6, CrashKeeps, RestartKeeps
<1>7. CASE UNCHANGED vars
  <2> USE <1>7 DEF vars, tableVars, callVars, refreshVars, netVars, historyVars
  <2>1. Tables' /\ Quiet' /\ AtMostOne' /\ Own'
    BY SameStreams
  <2>2. Types'
    BY DEF ClientInv, Types
  <2>3. Holding' /\ ResultIsOwn'
    BY DEF ClientInv, Holding, ResultIsOwn, CallId, Threads, Cache
  <2>4. Executions'
    BY SameExecutions
  <2> QED BY <2>1, <2>2, <2>3, <2>4 DEF ClientInv
<1> QED BY <1>1, <1>2, <1>3, <1>4, <1>5, <1>6, <1>7 DEF Next

LEMMA ClientAlways == Spec => [](ClientInv /\ CutKnown)
BY ClientInit, CutKnownInit, ClientStep, CutKnownStep, PTL DEF Spec

\* The client's state stays in its sets, and one thread at a time owns rpcMutex.
THEOREM ClientTypes == Spec => []TypeOK
<1>1. ClientInv => TypeOK
  <2> SUFFICES ASSUME ClientInv PROVE TypeOK
    OBVIOUS
  <2>1. Cardinality(rpcMutex) <= 1
    <3>1. CASE rpcMutex = {}
      BY <3>1, FS_EmptySet
    <3>2. CASE rpcMutex # {}
      <4>1. PICK t \in rpcMutex : TRUE
        BY <3>2
      <4>2. rpcMutex = {t}
        BY <4>1 DEF ClientInv, Holding
      <4>3. Cardinality({t}) = 1
        BY FS_Singleton
      <4> QED BY <4>2, <4>3
    <3> QED BY <3>1, <3>2
  <2> QED BY <2>1 DEF TypeOK, ClientInv, Types, Places, Using
<1> QED BY <1>1, ClientAlways, PTL

\* connectOne and the drop of a connection, whose critical sections are apart,
\* keep the caches, the tables and the kernel's descriptors in agreement, and no
\* thread loses the connection it works with to another.
THEOREM TablesAlwaysAgree == Spec => []TablesAgree
<1>1. ClientInv => TablesAgree
  <2> SUFFICES ASSUME ClientInv PROVE TablesAgree
    OBVIOUS
  <2>1. \A t \in Threads : held[t] # 0 => rpcMutex = {t} /\ held[t] \in Cache(t)
    BY HeldIsOpen DEF ClientInv, Holding
  <2>2. IsInjective(connectedIpportsMap) /\ Range(connectedIpportsMap) = connectedIpports
    BY DEF IsInjective, Range, ClientInv, Tables
  <2>3. DOMAIN sockets = DOMAIN connectedIpportsMap
    BY DEF ClientInv, Types
  <2> QED BY <2>1, <2>2, <2>3 DEF TablesAgree, ClientInv, Tables
<1> QED BY <1>1, ClientAlways, PTL

\* remoteCall returns the answer to the call it was asked for, whatever earlier
\* replies and parts of replies were left on the connections it uses, unless a
\* request was cut outside its body on that connection (rpcServer.cpp:53-66).
THEOREM ResultsAreOwn == Spec => []ResultIsOwn
BY ClientAlways, PTL DEF ClientInv

-----------------------------------------------------------------------------
(***************************************************************************)
(* RpcClient implements RemoteCalls.  What is missing is that a reply is   *)
(* seen only after its request was executed.                               *)
(***************************************************************************)
ReplyBegun(t) ==
  got[t] # <<>> \/ HeadIn(sockets[held[t]].inbox) \/ HeadIn(sockets[held[t]].coming)

ServedOf(t) ==
  /\ held[t] # 0 /\ ReplyBegun(t) => executed[t] > 0
  /\ outcome[t][1] \in {"answer", "empty"} => executed[t] > 0

Served == \A t \in Callers : ServedOf(t)

CallsInv == ClientInv /\ CutKnown /\ Served

LEMMA SameServed ==
  ASSUME CallsInv, UNCHANGED <<held, got, outcome>>,
         \A t \in Callers : executed'[t] \in Nat /\ executed'[t] >= executed[t],
         \A t \in Threads : held[t] # 0 =>
           /\ HeadIn(sockets[held[t]].inbox)' => \/ HeadIn(sockets[held[t]].inbox)
                                                 \/ HeadIn(sockets[held[t]].coming)
           /\ HeadIn(sockets[held[t]].coming)' => HeadIn(sockets[held[t]].coming)
  PROVE  Served'
<1> SUFFICES ASSUME NEW t \in Callers PROVE ServedOf(t)'
  BY DEF Served
<1>1. t \in Threads /\ ServedOf(t) /\ executed[t] \in Nat
  BY DEF CallsInv, Served, Threads, ClientInv, Types
<1>2. executed[t] > 0 => executed'[t] > 0
  <2>1. executed'[t] \in Nat /\ executed'[t] >= executed[t]
    OBVIOUS
  <2> QED BY <1>1, <2>1
<1>3. ASSUME held'[t] # 0, ReplyBegun(t)' PROVE held[t] # 0 /\ ReplyBegun(t)
  <2>1. held[t] # 0 /\ got'[t] = got[t]
    BY <1>3
  <2>2. CASE got'[t] # <<>>
    BY <2>1, <2>2 DEF ReplyBegun
  <2>3. CASE HeadIn(sockets[held[t]].inbox)' \/ HeadIn(sockets[held[t]].coming)'
    BY <1>1, <2>1, <2>3 DEF ReplyBegun
  <2> QED BY <1>3, <2>2, <2>3 DEF ReplyBegun
<1> QED BY <1>1, <1>2, <1>3 DEF ServedOf

LEMMA ServedInit == Init => Served
BY DEF Init, Served, ServedOf, Threads

\* Steps of the network and of threads that take nothing from a connection.
LEMMA QuietServed ==
  ASSUME CallsInv, UNCHANGED <<held, got, outcome, executed>>,
         \A t \in Threads : held[t] # 0 => sockets'[held[t]] = sockets[held[t]]
  PROVE  Served'
<1>1. \A t \in Callers : executed'[t] \in Nat /\ executed'[t] >= executed[t]
  BY DEF CallsInv, ClientInv, Types
<1> QED BY <1>1, SameServed

LEMMA ConnectOneServed ==
  ASSUME CallsInv, NEW a \in Addresses, ConnectOne(a)
  PROVE  Served'
<1>1. UNCHANGED <<held, got, outcome, executed>>
  BY DEF ConnectOne, callVars, netVars
<1>2. \A t \in Threads : held[t] # 0 => sockets'[held[t]] = sockets[held[t]]
  <2>1. CASE UNCHANGED sockets
    BY <2>1
  <2>2. CASE /\ Connectable(a)
             /\ sockets' = Extend(sockets, NewFd,
                  [addr |-> a, ended |-> FALSE, cut |-> FALSE, request |-> NoRequest, coming |-> <<>>, inbox |-> <<>>])
    <3>1. NewFd \notin DOMAIN sockets
      BY <2>2, NewFdIsFree DEF CallsInv, ClientInv, Connectable
    <3>2. \A t \in Threads : held[t] # 0 => held[t] \in DOMAIN sockets
      BY HeldIsOpen DEF CallsInv, ClientInv
    <3> QED BY <2>2, <3>1, <3>2 DEF Extend
  <2> QED BY <2>1, <2>2 DEF ConnectOne
<1> QED BY <1>1, <1>2, QuietServed

LEMMA CallServed ==
  ASSUME CallsInv, NEW t \in Callers, Call(t)
  PROVE  Served'
<1> SUFFICES ASSUME NEW u \in Callers PROVE ServedOf(u)'
  BY DEF Served
<1>1. UNCHANGED <<held, got, sockets>> /\ u \in Threads /\ ServedOf(u)
  BY DEF Call, CallsInv, Served, Threads
<1>2. CASE u = t
  <2>1. held[u] = 0
    BY <1>1, <1>2 DEF Call, CallsInv, ClientInv, Holding, Using
  <2>2. outcome'[u] = <<"none">>
    BY <1>2 DEF Call, CallsInv, ClientInv, Types
  <2> QED BY <1>1, <2>1, <2>2, Marks DEF ServedOf
<1>3. CASE u # t
  <2>1. outcome'[u] = outcome[u] /\ executed'[u] = executed[u]
    BY <1>3 DEF Call, CallsInv, ClientInv, Types
  <2> QED BY <1>1, <2>1 DEF ServedOf, ReplyBegun
<1> QED BY <1>2, <1>3

LEMMA ThrowServed ==
  ASSUME CallsInv, NEW t \in Threads, Throw(t)
  PROVE  Served'
<1> SUFFICES ASSUME NEW u \in Callers PROVE ServedOf(u)'
  BY DEF Served
<1>1. UNCHANGED <<held, got, sockets, executed>> /\ u \in Threads /\ ServedOf(u)
  BY DEF Throw, CallsInv, Served, Threads, netVars
<1>2. outcome'[u] \in {outcome[u], <<"connect error">>}
  BY DEF Throw, CallsInv, ClientInv, Types
<1> QED BY <1>1, <1>2, Marks DEF ServedOf, ReplyBegun

\* The request goes out on a connection that is quiet.
LEMMA WriteServed ==
  ASSUME CallsInv, NEW t \in Threads, Write(t)
  PROVE  Served'
<1>1. /\ pc[t] = "pick" /\ UNCHANGED <<got, outcome, executed>>
  BY DEF Write, netVars
<1>2. PICK fd \in Cache(t) :
        /\ held' = [held EXCEPT ![t] = fd]
        /\ sockets' = IF sockets[fd].ended THEN sockets
             ELSE [sockets EXCEPT ![fd].request = [id |-> CallId(t), wraps |-> Wrap(t)]]
  BY DEF Write
<1>3. (\A u \in Threads : held[u] = 0) /\ got[t] = <<>>
  BY <1>1, InBodyAlone DEF CallsInv, ClientInv, Holding, Using
<1>4. fd \in DOMAIN sockets /\ fd # 0 /\ sockets[fd] \in Sockets
  <2>1. fd \in fdCache \cup serviceFdCache
    BY <1>2 DEF Cache
  <2>2. fd \in DOMAIN sockets /\ fd \in Fds
    BY <2>1 DEF CallsInv, ClientInv, Types, Tables
  <2> QED BY <2>2, FdsPositive DEF CallsInv, ClientInv, Types
<1>5. ~HeadIn(sockets[fd].inbox) /\ ~HeadIn(sockets[fd].coming)
  BY <1>3, <1>4 DEF CallsInv, ClientInv, Quiet
<1>6. sockets'[fd].inbox = sockets[fd].inbox /\ sockets'[fd].coming = sockets[fd].coming
  BY <1>2, <1>4 DEF CallsInv, ClientInv, Types, Sockets
<1> SUFFICES ASSUME NEW u \in Callers PROVE ServedOf(u)'
  BY DEF Served
<1>7. u \in Threads /\ ServedOf(u)
  BY DEF CallsInv, Served, Threads
<1>8. CASE u = t
  <2>1. held'[u] = fd
    BY <1>2, <1>7, <1>8 DEF CallsInv, ClientInv, Types
  <2>2. ~ReplyBegun(u)'
    BY <1>1, <1>3, <1>5, <1>6, <1>8, <2>1 DEF ReplyBegun
  <2> QED BY <1>1, <1>7, <2>2 DEF ServedOf
<1>9. CASE u # t
  <2>1. held'[u] = 0
    BY <1>2, <1>3, <1>7, <1>9 DEF CallsInv, ClientInv, Types
  <2> QED BY <1>1, <1>7, <2>1 DEF ServedOf
<1> QED BY <1>8, <1>9

LEMMA DropServed ==
  ASSUME CallsInv, NEW t \in Threads, Drop(t)
  PROVE  Served'
<1>1. UNCHANGED <<outcome, executed>> /\ held' = [held EXCEPT ![t] = 0] /\ pc[t] = "failed"
  BY DEF Drop, netVars
<1>2. \A u \in Threads : held'[u] = 0
  <2>1. held[t] # 0
    BY <1>1 DEF CallsInv, ClientInv, Holding, Using
  <2> QED BY <1>1, <2>1, HeldIsOpen DEF CallsInv, ClientInv, Types
<1> QED BY <1>1, <1>2 DEF CallsInv, Served, ServedOf, Threads

\* A caller that has read a part of a reply, or reads one that starts as it should,
\* has had its request executed.
LEMMA ReplySeen ==
  ASSUME CallsInv, NEW t \in Callers, held[t] # 0,
         got[t] # <<>> \/ Parse(Now(t)) # "throws"
  PROVE  executed[t] > 0
<1>1. t \in Threads /\ ServedOf(t)
  BY DEF Threads, CallsInv, Served
<1>2. CASE got[t] # <<>>
  BY <1>1, <1>2 DEF ServedOf, ReplyBegun
<1>3. CASE got[t] = <<>> /\ Parse(Now(t)) # "throws"
  <2> DEFINE box == sockets[held[t]].inbox
  <2>1. sockets[held[t]] \in Sockets
    BY <1>1, HeldIsOpen DEF CallsInv, ClientInv
  <2>2. box \in Seq(Segs)
    BY <2>1 DEF Sockets
  <2>3. Now(t) = got[t] \o box
    BY DEF Now
  <2> HIDE DEF box
  <2>4. Now(t) = box
    BY <1>3, <2>2, <2>3
  <2>5. 1 \in DOMAIN box /\ box[1].k = 1
    BY <1>3, <2>2, <2>4, ParsedStarts
  <2>6. HeadIn(box)
    BY <2>5 DEF HeadIn
  <2> QED BY <1>1, <2>6 DEF ServedOf, ReplyBegun, box
<1> QED BY <1>2, <1>3

LEMMA ReadServed ==
  ASSUME CallsInv, NEW t \in Threads, Read(t)
  PROVE  Served'
<1> DEFINE fd == held[t]
           now == Now(t)
<1>1. /\ pc[t] \in {"read", "more"} /\ UNCHANGED executed
      /\ sockets' = [sockets EXCEPT ![fd].inbox = <<>>]
  BY DEF Read, netVars
<1>2. held[t] # 0
  BY <1>1 DEF CallsInv, ClientInv, Holding, Using
<1>3. /\ fd \in DOMAIN sockets /\ sockets[fd] \in Sockets
      /\ \A u \in Threads : held[u] # 0 => u = t
  BY <1>2, HeldIsOpen DEF CallsInv, ClientInv
<1>4. sockets'[fd].inbox = <<>> /\ sockets'[fd].coming = sockets[fd].coming
  BY <1>1, <1>3 DEF CallsInv, ClientInv, Types, Sockets
<1>5. \/ /\ Parse(now) = "part" \/ pc[t] = "more"
         /\ got' = [got EXCEPT ![t] = now] /\ UNCHANGED <<held, outcome>>
      \/ Parse(now) = "whole" /\ Finish(t, Answer(now))
      \/ UNCHANGED <<held, got, outcome>>
  BY DEF Read, Now
<1> SUFFICES ASSUME NEW u \in Callers PROVE ServedOf(u)'
  BY DEF Served
<1>6. u \in Threads /\ u # Refresh /\ ServedOf(u)
  BY ClientAssumption DEF CallsInv, Served, Threads, Refresh
<1>7. CASE u # t
  <2>1. held[u] = 0 /\ held'[u] = held[u] /\ outcome'[u] = outcome[u]
    <3>1. held' \in {held, [held EXCEPT ![t] = 0]}
      BY <1>5 DEF Finish
    <3>2. outcome'[u] = outcome[u]
      BY <1>5, <1>7 DEF Finish, CallsInv, ClientInv, Types
    <3> QED BY <1>3, <1>6, <1>7, <3>1, <3>2 DEF CallsInv, ClientInv, Types
  <2> QED BY <1>1, <1>6, <2>1 DEF ServedOf
<1>8. CASE u = t
  <2> HIDE DEF now
  <2>1. CASE (Parse(now) = "part" \/ pc[t] = "more") /\ UNCHANGED <<held, outcome>>
    <3>1. got[t] # <<>> \/ Parse(now) # "throws"
      BY <2>1 DEF CallsInv, ClientInv, Holding
    <3>2. executed[u] > 0
      BY <1>2, <1>8, <3>1, ReplySeen DEF now
    <3> QED BY <1>1, <3>2 DEF ServedOf
  <2>2. CASE Parse(now) = "whole" /\ Finish(t, Answer(now))
    <3>1. Parse(now) # "throws"
      BY <2>2
    <3>2. executed[u] > 0
      BY <1>2, <1>8, <3>1, ReplySeen DEF now
    <3> QED BY <1>1, <3>2 DEF ServedOf
  <2>3. CASE UNCHANGED <<held, got, outcome>>
    <3>1. ~HeadIn(<<>>)
      BY DEF HeadIn
    <3>2. held'[u] # 0 /\ ReplyBegun(u)' => held[u] # 0 /\ ReplyBegun(u)
      BY <1>4, <1>8, <2>3, <3>1 DEF ReplyBegun
    <3> QED BY <1>1, <1>6, <2>3, <3>2 DEF ServedOf
  <2> QED BY <1>5, <2>1, <2>2, <2>3
<1> QED BY <1>7, <1>8

LEMMA ServeServed ==
  ASSUME CallsInv, NEW fd \in DOMAIN sockets, Serve(fd)
  PROVE  Served'
<1>1. /\ UNCHANGED <<held, got, outcome>> /\ sockets[fd].request # NoRequest
      /\ DOMAIN sockets' = DOMAIN sockets
      /\ \A fe \in DOMAIN sockets : fe # fd => sockets'[fe] = sockets[fe]
  BY DEF Serve, callVars, CallsInv, ClientInv, Types
<1>2. PICK t \in Threads : /\ held[t] = fd /\ held[t] # 0
                           /\ sockets[fd].request.id = CallId(t)
                           /\ \A u \in Threads : held[u] # 0 => u = t
  BY <1>1, RequestHeld DEF CallsInv
<1>3. sockets[fd].request.id[1] = t
  BY <1>2 DEF CallId
<1>4. executed' = IF t = Refresh THEN executed ELSE [executed EXCEPT ![t] = @ + 1]
  BY <1>3 DEF Serve
<1> SUFFICES ASSUME NEW u \in Callers PROVE ServedOf(u)'
  BY DEF Served
<1>5. u \in Threads /\ u # Refresh /\ ServedOf(u) /\ executed[u] \in Nat
  BY ClientAssumption DEF CallsInv, Served, Threads, Refresh, ClientInv, Types
<1>6. CASE u = t
  <2>1. executed'[u] = executed[u] + 1
    BY <1>4, <1>5, <1>6 DEF CallsInv, ClientInv, Types
  <2> QED BY <1>5, <2>1 DEF ServedOf
<1>7. CASE u # t
  <2>1. executed'[u] = executed[u] /\ held[u] = 0
    BY <1>2, <1>4, <1>5, <1>7 DEF CallsInv, ClientInv, Types
  <2> QED BY <1>1, <1>5, <2>1 DEF ServedOf
<1> QED BY <1>6, <1>7

LEMMA ServeLateServed ==
  ASSUME CallsInv, NEW t \in Callers, ServeLate(t)
  PROVE  Served'
<1>1. UNCHANGED <<held, got, outcome, sockets>> /\ executed' = [executed EXCEPT ![t] = @ + 1]
  BY DEF ServeLate, callVars
<1>2. \A u \in Callers : executed'[u] \in Nat /\ executed'[u] >= executed[u]
  BY <1>1 DEF CallsInv, ClientInv, Types
<1> QED BY <1>1, <1>2, SameServed

LEMMA DeliverServed ==
  ASSUME CallsInv, NEW fd \in DOMAIN sockets, Deliver(fd)
  PROVE  Served'
<1> DEFINE old == sockets[fd]
<1>1. UNCHANGED <<held, got, outcome, executed>>
  BY DEF Deliver, callVars, netVars
<1>2. old \in Sockets /\ old.coming \in Seq(Segs) /\ old.inbox \in Seq(Segs)
  BY DEF CallsInv, ClientInv, Types, Sockets
<1>3. PICK n \in 1..Len(old.coming) :
        sockets' = [sockets EXCEPT ![fd].inbox = @ \o SubSeq(sockets[fd].coming, 1, n),
                                   ![fd].coming = SubSeq(@, n + 1, Len(@))]
  BY DEF Deliver
<1> DEFINE first == SubSeq(old.coming, 1, n)
           rest == SubSeq(old.coming, n + 1, Len(old.coming))
           box == old.inbox \o first
<1>4. /\ sockets'[fd].inbox = box /\ sockets'[fd].coming = rest
      /\ \A fe \in DOMAIN sockets : fe # fd => sockets'[fe] = sockets[fe]
  BY <1>2, <1>3 DEF CallsInv, ClientInv, Types, Sockets
<1>5. /\ first \in Seq(Segs)
      /\ \A i \in DOMAIN first : i \in DOMAIN old.coming /\ first[i] = old.coming[i]
      /\ \A i \in DOMAIN rest : i + n \in DOMAIN old.coming /\ rest[i] = old.coming[i + n]
  BY <1>2, <1>3, CutAt
<1>6. \A i \in DOMAIN box : \/ i \in DOMAIN old.inbox /\ box[i] = old.inbox[i]
                            \/ i - Len(old.inbox) \in DOMAIN first /\ box[i] = first[i - Len(old.inbox)]
  BY <1>2, <1>5, JoinedAt
<1> HIDE DEF first, rest, box
<1>7. HeadIn(rest) => HeadIn(old.coming)
  BY <1>5 DEF HeadIn
<1>8. HeadIn(box) => HeadIn(old.inbox) \/ HeadIn(old.coming)
  BY <1>5, <1>6 DEF HeadIn
<1>9. \A t \in Threads : held[t] # 0 =>
        /\ HeadIn(sockets[held[t]].inbox)' => \/ HeadIn(sockets[held[t]].inbox)
                                              \/ HeadIn(sockets[held[t]].coming)
        /\ HeadIn(sockets[held[t]].coming)' => HeadIn(sockets[held[t]].coming)
  <2> SUFFICES ASSUME NEW t \in Threads, held[t] # 0
               PROVE  /\ HeadIn(sockets[held[t]].inbox)' => \/ HeadIn(sockets[held[t]].inbox)
                                                             \/ HeadIn(sockets[held[t]].coming)
                      /\ HeadIn(sockets[held[t]].coming)' => HeadIn(sockets[held[t]].coming)
    OBVIOUS
  <2>1. held'[t] = held[t] /\ held[t] \in DOMAIN sockets
    BY <1>1, HeldIsOpen DEF CallsInv, ClientInv
  <2>2. CASE held[t] = fd
    BY <1>4, <1>7, <1>8, <2>1, <2>2
  <2>3. CASE held[t] # fd
    BY <1>4, <2>1, <2>3
  <2> QED BY <2>2, <2>3
<1>10. \A u \in Callers : executed'[u] \in Nat /\ executed'[u] >= executed[u]
  BY <1>1 DEF CallsInv, ClientInv, Types
<1> QED BY <1>1, <1>9, <1>10, SameServed

LEMMA CrashServed ==
  ASSUME CallsInv, NEW a \in Addresses, Crash(a)
  PROVE  Served'
<1>1. UNCHANGED <<held, got, outcome, executed>>
  BY DEF Crash, callVars
<1>2. \A t \in Threads : held[t] # 0 =>
        /\ sockets'[held[t]].inbox = sockets[held[t]].inbox
        /\ sockets'[held[t]].coming \in {sockets[held[t]].coming, <<>>}
  <2> SUFFICES ASSUME NEW t \in Threads, held[t] # 0
               PROVE  /\ sockets'[held[t]].inbox = sockets[held[t]].inbox
                      /\ sockets'[held[t]].coming \in {sockets[held[t]].coming, <<>>}
    OBVIOUS
  <2>1. held[t] \in DOMAIN sockets /\ sockets[held[t]] \in Sockets
    BY HeldIsOpen DEF CallsInv, ClientInv
  <2>2. sockets'[held[t]] \in {sockets[held[t]],
          [sockets[held[t]] EXCEPT !.ended = TRUE, !.request = NoRequest, !.coming = <<>>]}
    BY <2>1 DEF Crash
  <2> QED BY <2>1, <2>2 DEF Sockets
<1>3. ~HeadIn(<<>>)
  BY DEF HeadIn
<1>4. \A t \in Threads : held[t] # 0 =>
        /\ HeadIn(sockets[held[t]].inbox)' => \/ HeadIn(sockets[held[t]].inbox)
                                              \/ HeadIn(sockets[held[t]].coming)
        /\ HeadIn(sockets[held[t]].coming)' => HeadIn(sockets[held[t]].coming)
  BY <1>1, <1>2, <1>3
<1>5. \A u \in Callers : executed'[u] \in Nat /\ executed'[u] >= executed[u]
  BY <1>1 DEF CallsInv, ClientInv, Types
<1> QED BY <1>1, <1>4, <1>5, SameServed

\* On a connection that is cut there is no reply, and what a call gets there is not
\* called an answer.
LEMMA WriteCutServed ==
  ASSUME CallsInv, NEW t \in Threads, WriteCut(t)
  PROVE  Served'
<1>1. /\ pc[t] = "pick" /\ UNCHANGED <<got, outcome, sockets, executed>>
  BY DEF WriteCut, netVars
<1>2. PICK fd \in Cache(t) : /\ sockets[fd].cut /\ held' = [held EXCEPT ![t] = fd]
  BY DEF WriteCut
<1>3. got[t] = <<>> /\ fd \in DOMAIN sockets
  BY <1>1, <1>2 DEF CallsInv, ClientInv, Holding, Types, Tables, Cache
<1>4. ~HeadIn(sockets[fd].inbox) /\ ~HeadIn(sockets[fd].coming)
  BY <1>2, <1>3 DEF CallsInv, CutKnown, HeadIn
<1> SUFFICES ASSUME NEW u \in Callers PROVE ServedOf(u)'
  BY DEF Served
<1>5. ServedOf(u) /\ u \in Threads
  BY DEF CallsInv, Served, Threads
<1>6. CASE u = t
  <2>1. held'[u] = fd
    BY <1>2, <1>5, <1>6 DEF CallsInv, ClientInv, Types
  <2>2. ~ReplyBegun(u)'
    BY <1>1, <1>3, <1>4, <1>6, <2>1 DEF ReplyBegun
  <2> QED BY <1>1, <1>5, <2>2 DEF ServedOf
<1>7. CASE u # t
  <2>1. held'[u] = held[u]
    BY <1>2, <1>5, <1>7 DEF CallsInv, ClientInv, Types
  <2> QED BY <1>1, <1>5, <2>1 DEF ServedOf, ReplyBegun
<1> QED BY <1>6, <1>7

LEMMA ReadCutServed ==
  ASSUME CallsInv, NEW t \in Threads, ReadCut(t)
  PROVE  Served'
<1>1. UNCHANGED <<sockets, executed>>
  BY ReadCutEnds DEF netVars
<1> SUFFICES ASSUME NEW u \in Callers PROVE ServedOf(u)'
  BY DEF Served
<1>2. ServedOf(u) /\ u \in Threads
  BY DEF CallsInv, Served, Threads
<1>3. /\ held'[u] \in {held[u], 0}
      /\ held'[u] = held[u] => got'[u] \in {got[u], <<>>}
      /\ outcome'[u] \in {outcome[u], <<"unmatched">>}
  BY <1>2, ReadCutEnds DEF CallsInv, ClientInv, Types
<1>4. held'[u] # 0 /\ ReplyBegun(u)' => held[u] # 0 /\ ReplyBegun(u)
  BY <1>1, <1>3 DEF ReplyBegun
<1>5. outcome'[u][1] \in {"answer", "empty"} => outcome[u][1] \in {"answer", "empty"}
  BY <1>3, UnmatchedMark
<1> QED BY <1>1, <1>2, <1>4, <1>5 DEF ServedOf

LEMMA ServeCutServed ==
  ASSUME CallsInv, NEW fd \in DOMAIN sockets, ServeCut(fd)
  PROVE  Served'
<1>1. UNCHANGED <<held, got, outcome, executed>>
  BY DEF ServeCut, callVars
<1>2. sockets' = [sockets EXCEPT ![fd] = [sockets[fd] EXCEPT
                    !.cut = TRUE, !.request = NoRequest, !.coming = <<>>, !.inbox = <<>>]]
  BY DEF ServeCut, CallsInv, ClientInv, Types
<1>3. /\ sockets'[fd].inbox = <<>> /\ sockets'[fd].coming = <<>>
      /\ \A fe \in DOMAIN sockets : fe # fd => sockets'[fe] = sockets[fe]
  BY <1>2 DEF CallsInv, ClientInv, Types, Sockets
<1>4. \A u \in Threads : held[u] # 0 => held[u] \in DOMAIN sockets
  BY HeldIsOpen DEF CallsInv, ClientInv
<1>5. \A u \in Threads : held[u] # 0 =>
        /\ HeadIn(sockets[held[u]].inbox)' => \/ HeadIn(sockets[held[u]].inbox)
                                              \/ HeadIn(sockets[held[u]].coming)
        /\ HeadIn(sockets[held[u]].coming)' => HeadIn(sockets[held[u]].coming)
  BY <1>1, <1>3, <1>4 DEF HeadIn
<1>6. \A u \in Callers : executed'[u] \in Nat /\ executed'[u] >= executed[u]
  BY <1>1 DEF CallsInv, ClientInv, Types
<1> QED BY <1>1, <1>5, <1>6, SameServed

LEMMA ServedStep == CallsInv /\ [Next]_vars => Served'
<1> SUFFICES ASSUME CallsInv, [Next]_vars PROVE Served'
  OBVIOUS
<1>1. CASE ConnectEnd \/ WakeUp
  BY <1>1, QuietServed DEF ConnectEnd, WakeUp, callVars, netVars
<1>2. ASSUME NEW a \in Addresses, ConnectOne(a) PROVE Served'
  BY <1>2, ConnectOneServed
<1>3. ASSUME NEW t \in Callers, Call(t) PROVE Served'
  BY <1>3, CallServed
<1>4. ASSUME NEW t \in Threads, LockRpc(t) \/ ReadEnd(t) PROVE Served'
  BY <1>4, QuietServed DEF LockRpc, ReadEnd, callVars, netVars
<1>5. ASSUME NEW t \in Threads, Write(t) \/ Read(t) \/ Drop(t) \/ Throw(t) PROVE Served'
  BY <1>5, WriteServed, ReadServed, DropServed, ThrowServed
<1>10. ASSUME NEW t \in Threads, WriteCut(t) \/ ReadCut(t) PROVE Served'
  BY <1>10, WriteCutServed, ReadCutServed
<1>6. CASE Network
  BY <1>6, ServeServed, ServeCutServed, ServeLateServed, DeliverServed DEF Network
<1>7. ASSUME NEW a \in Addresses, Crash(a) PROVE Served'
  BY <1>7, CrashServed
<1>8. ASSUME NEW a \in Addresses, Restart(a) PROVE Served'
  BY <1>8, QuietServed DEF Restart, callVars
<1>9. CASE UNCHANGED vars
  BY <1>9, QuietServed DEF vars, callVars, netVars
<1> QED BY <1>1, <1>2, <1>3, <1>4, <1>5, <1>6, <1>7, <1>8, <1>9, <1>10 DEF Next, Refreshing, Run

LEMMA CallsAlways == Spec => []CallsInv
<1>1. Init => CallsInv
  BY ClientInit, CutKnownInit, ServedInit DEF CallsInv
<1>2. CallsInv /\ [Next]_vars => CallsInv'
  BY ClientStep, CutKnownStep, ServedStep DEF CallsInv
<1> QED BY <1>1, <1>2, PTL DEF Spec

-----------------------------------------------------------------------------
(***************************************************************************)
(* Steps of the client as steps of RemoteCalls.                            *)
(***************************************************************************)
Sent == [t \in Callers |-> Attempts(t)]

\* The outcome of a call that goes on is none: it has been sent once for every
\* connection it lost, and once more while it holds one.
LEMMA SentWhileCalling ==
  ASSUME CallsInv, NEW t \in Callers, pc[t] # "idle"
  PROVE  outcome[t] = <<"none">> /\ Attempts(t) = dropped[t] + IF held[t] # 0 THEN 1 ELSE 0
<1>1. outcome[t] = <<"none">>
  BY DEF CallsInv, ClientInv, Executions, ExecutionsOf
<1>2. outcome[t][1] = "none"
  BY <1>1, Marks
<1> QED BY <1>1, <1>2 DEF Attempts, Results

\* What the callers do not see.
LEMMA HiddenStep ==
  ASSUME UNCHANGED <<held, calls, outcome, executed, dropped, cuts>>,
         \A t \in Callers : (pc'[t] = "idle") = (pc[t] = "idle")
  PROVE  UNCHANGED <<Calling, calls, Sent, executed, outcome, cuts>>
<1>1. Calling' = Calling
  BY DEF Calling
<1>2. \A t \in Callers : Attempts(t)' = Attempts(t)
  BY DEF Attempts, Results
<1>3. Sent' = Sent
  BY <1>2 DEF Sent
<1> QED BY <1>1, <1>3

LEMMA CallIsBegin ==
  ASSUME CallsInv, NEW t \in Callers, Call(t)
  PROVE  Abstract!Begin(t)
<1>1. t \notin Calling /\ held[t] = 0 /\ UNCHANGED held
  BY DEF Call, Calling, CallsInv, ClientInv, Holding, Using, Threads
<1>2. t \in Threads /\ pc'[t] = "lock" /\ \A u \in Threads : u # t => pc'[u] = pc[u]
  BY DEF Call, CallsInv, ClientInv, Types, Threads
<1>3. Calling' = Calling \cup {t}
  BY <1>2 DEF Calling, Threads
<1>4. Sent' = [Sent EXCEPT ![t] = 0]
  <2>1. Attempts(t)' = 0
    <3>1. dropped'[t] = 0 /\ outcome'[t] = <<"none">>
      BY DEF Call, CallsInv, ClientInv, Types
    <3> QED BY <1>1, <3>1, Marks DEF Attempts, Results
  <2>2. \A u \in Callers : u # t => Attempts(u)' = Attempts(u)
    BY <1>1 DEF Call, Attempts, Results, CallsInv, ClientInv, Types
  <2> QED BY <2>1, <2>2 DEF Sent
<1> QED BY <1>1, <1>3, <1>4 DEF Call, Abstract!Begin, Sent, worldVars

LEMMA WriteIsSend ==
  ASSUME CallsInv, NEW t \in Callers, Write(t)
  PROVE  Abstract!Send(t)
<1>1. /\ pc[t] = "pick" /\ pc' = [pc EXCEPT ![t] = "read"]
      /\ UNCHANGED <<calls, outcome, executed, dropped, cuts>>
  BY DEF Write, netVars, worldVars, historyVars
<1>2. PICK fd \in Cache(t) : held' = [held EXCEPT ![t] = fd]
  BY DEF Write
<1>3. t \in Threads /\ held[t] = 0 /\ fd # 0
  BY <1>1, <1>2, FdsPositive DEF CallsInv, ClientInv, Holding, Using, Threads, Cache, Types
<1>4. held'[t] = fd /\ \A u \in Threads : u # t => held'[u] = held[u]
  BY <1>2, <1>3 DEF CallsInv, ClientInv, Types
<1>5. Calling' = Calling /\ t \in Calling
  BY <1>1, <1>3 DEF Calling, CallsInv, ClientInv, Types, Threads
<1>6. Sent' = [Sent EXCEPT ![t] = @ + 1]
  <2>1. Attempts(t) = dropped[t] + 0
    BY <1>1, <1>3, SentWhileCalling
  <2>2. Attempts(t)' = dropped[t] + 1
    BY <1>1, <1>3, <1>4 DEF Attempts, Results
  <2>3. Attempts(t)' = Attempts(t) + 1
    BY <2>1, <2>2 DEF CallsInv, ClientInv, Types
  <2>4. \A u \in Callers : u # t => Attempts(u)' = Attempts(u)
    BY <1>1, <1>4 DEF Attempts, Results, Threads
  <2> QED BY <2>3, <2>4 DEF Sent
<1> QED BY <1>1, <1>5, <1>6 DEF Abstract!Send, Sent

\* Dropping a connection takes back nothing that was sent.
LEMMA DropIsHidden ==
  ASSUME CallsInv, NEW t \in Threads, Drop(t)
  PROVE  UNCHANGED <<Calling, calls, Sent, executed, outcome, cuts>>
<1>1. /\ pc[t] = "failed" /\ pc' = [pc EXCEPT ![t] = "pick"]
      /\ held' = [held EXCEPT ![t] = 0] /\ UNCHANGED <<calls, outcome, executed, cuts>>
      /\ dropped' = IF t = Refresh THEN dropped ELSE [dropped EXCEPT ![t] = @ + 1]
  BY DEF Drop, netVars, worldVars, historyVars
<1>2. held[t] # 0
  BY <1>1 DEF CallsInv, ClientInv, Holding, Using
<1>3. Calling' = Calling
  BY <1>1 DEF Calling, CallsInv, ClientInv, Types, Threads
<1>4. ASSUME NEW u \in Callers PROVE Attempts(u)' = Attempts(u)
  <2>1. u \in Threads /\ u # Refresh
    BY ClientAssumption DEF Threads, Refresh
  <2>2. CASE u = t
    <3>1. outcome[u] = <<"none">> /\ Attempts(u) = dropped[u] + 1
      BY <1>1, <1>2, <2>2, SentWhileCalling
    <3>2. held'[u] = 0 /\ dropped'[u] = dropped[u] + 1 /\ outcome'[u][1] = "none"
      BY <1>1, <2>1, <2>2, <3>1, Marks DEF CallsInv, ClientInv, Types
    <3>3. Attempts(u)' = (dropped[u] + 1) + 0
      BY <3>2 DEF Attempts, Results
    <3> QED BY <3>1, <3>3 DEF CallsInv, ClientInv, Types
  <2>3. CASE u # t
    BY <1>1, <2>1, <2>3 DEF Attempts, Results, CallsInv, ClientInv, Types
  <2> QED BY <2>2, <2>3
<1>5. Sent' = Sent
  BY <1>4 DEF Sent
<1> QED BY <1>1, <1>3, <1>5

LEMMA ThrowIsFail ==
  ASSUME CallsInv, NEW t \in Callers, Throw(t)
  PROVE  Abstract!Fail(t)
<1>1. t \in Threads /\ t # Refresh
  BY ClientAssumption DEF Threads, Refresh
<1>2. /\ pc[t] = "pick" /\ pc' = [pc EXCEPT ![t] = "idle"]
      /\ outcome' = [outcome EXCEPT ![t] = <<"connect error">>]
      /\ UNCHANGED <<held, calls, executed, dropped, cuts>>
  BY <1>1 DEF Throw, netVars, worldVars, historyVars
<1>3. t \in Calling /\ Calling' = Calling \ {t}
  BY <1>1, <1>2 DEF Calling, CallsInv, ClientInv, Types, Threads
<1>4. ASSUME NEW u \in Callers PROVE Attempts(u)' = Attempts(u)
  <2>1. CASE u = t
    <3>1. outcome[u] = <<"none">> /\ outcome'[u] = <<"connect error">>
      BY <1>2, <2>1, SentWhileCalling DEF CallsInv, ClientInv, Types
    <3>2. outcome[u][1] = "none" /\ outcome'[u][1] = "connect error"
      BY <3>1, Marks
    <3> QED BY <1>2, <3>2 DEF Attempts, Results
  <2>2. CASE u # t
    BY <1>2, <2>2 DEF Attempts, Results, CallsInv, ClientInv, Types
  <2> QED BY <2>1, <2>2
<1>5. Sent' = Sent
  BY <1>4 DEF Sent
<1> QED BY <1>2, <1>3, <1>5 DEF Abstract!Fail, Sent

\* The answer that read gives is to the caller's own request, which was executed.
LEMMA ReadIsReturn ==
  ASSUME CallsInv, NEW t \in Callers, Read(t), Parse(Now(t)) = "whole", Finish(t, Answer(Now(t)))
  PROVE  Abstract!Return(t)
<1> DEFINE now == Now(t)
<1>1. t \in Threads /\ t # Refresh
  BY ClientAssumption DEF Threads, Refresh
<1>2. pc[t] \in {"read", "more"} /\ UNCHANGED <<calls, executed, dropped, cuts>>
  BY DEF Read, netVars, worldVars, historyVars
<1>3. held[t] # 0 /\ Parse(now) # "throws"
  BY <1>1, <1>2 DEF CallsInv, ClientInv, Holding, Using
<1>4. executed[t] > 0 /\ now[1].id = <<t, calls[t]>>
  BY <1>1, <1>3, ReplySeen, ReplyIsOwn DEF CallsInv, CallId
<1> HIDE DEF now
<1>5. /\ held' = [held EXCEPT ![t] = 0] /\ pc' = [pc EXCEPT ![t] = "idle"]
      /\ outcome' = [outcome EXCEPT ![t] = Answer(now)]
  BY <1>1 DEF Finish, now
<1>6. PICK kind \in {"answer", "empty"} : Answer(now) = <<kind, <<t, calls[t]>>>>
  BY <1>4 DEF Answer
<1>7. t \in Calling /\ Calling' = Calling \ {t}
  BY <1>1, <1>2, <1>5 DEF Calling, CallsInv, ClientInv, Types, Threads
<1>8. ASSUME NEW u \in Callers PROVE Attempts(u)' = Attempts(u)
  <2>1. CASE u = t
    <3>1. Attempts(u) = dropped[u] + 1
      BY <1>2, <1>3, <2>1, SentWhileCalling
    <3>2. outcome'[u] = <<kind, <<t, calls[t]>>>>
      BY <1>5, <1>6, <2>1 DEF CallsInv, ClientInv, Types
    <3>3. outcome'[u][1] = kind
      BY <3>2
    <3> QED BY <1>2, <1>6, <3>1, <3>3 DEF Attempts, Results
  <2>2. CASE u # t
    <3>1. u \in Threads
      BY DEF Threads
    <3> QED BY <1>2, <1>5, <2>2, <3>1 DEF Attempts, Results, CallsInv, ClientInv, Types
  <2> QED BY <2>1, <2>2
<1>9. Sent' = Sent
  BY <1>8 DEF Sent
<1> QED BY <1>2, <1>4, <1>5, <1>6, <1>7, <1>9 DEF Abstract!Return, Sent

LEMMA ReadHidden ==
  ASSUME CallsInv, NEW t \in Threads, Read(t), t = Refresh \/ Parse(Now(t)) # "whole" \/ UNCHANGED held
  PROVE  UNCHANGED <<Calling, calls, Sent, executed, outcome, cuts>>
<1>1. /\ pc[t] \in {"read", "more"} /\ UNCHANGED <<calls, executed, dropped, cuts>>
  BY DEF Read, netVars, worldVars, historyVars
<1>2. held[t] # 0
  BY <1>1 DEF CallsInv, ClientInv, Holding, Using
<1>3. CASE pc' \in {[pc EXCEPT ![t] = "more"], [pc EXCEPT ![t] = "failed"]} /\ UNCHANGED <<held, outcome>>
  <2>1. \A u \in Callers : (pc'[u] = "idle") = (pc[u] = "idle")
    BY <1>1, <1>3 DEF CallsInv, ClientInv, Types, Threads
  <2> QED BY <1>1, <1>3, <2>1, HiddenStep
<1>4. CASE Parse(Now(t)) = "whole" /\ Finish(t, Answer(Now(t)))
  <2>1. held'[t] = 0
    BY <1>4 DEF Finish, CallsInv, ClientInv, Types
  <2>2. t = Refresh
    BY <1>2, <1>4, <2>1
  <2>3. pc' = [pc EXCEPT ![t] = "connect"] /\ UNCHANGED outcome /\ held' = [held EXCEPT ![t] = 0]
    BY <1>4, <2>2 DEF Finish
  <2>4. \A u \in Callers : u \in Threads /\ u # t
    BY <2>2, ClientAssumption DEF Threads, Refresh
  <2>5. Calling' = Calling
    BY <2>3, <2>4 DEF Calling, CallsInv, ClientInv, Types
  <2>6. \A u \in Callers : Attempts(u)' = Attempts(u)
    BY <1>1, <2>3, <2>4 DEF Attempts, Results, CallsInv, ClientInv, Types
  <2>7. Sent' = Sent
    BY <2>6 DEF Sent
  <2> QED BY <1>1, <2>3, <2>5, <2>7
<1> QED BY <1>3, <1>4 DEF Read, Now

LEMMA ServeIsExecute ==
  ASSUME CallsInv, NEW fd \in DOMAIN sockets, Serve(fd)
  PROVE  \/ \E t \in Callers : Abstract!Execute(t)
         \/ UNCHANGED <<Calling, calls, Sent, executed, outcome, cuts>>
<1>1. /\ UNCHANGED <<held, calls, outcome, dropped, pc, cuts>> /\ sockets[fd].request # NoRequest
  BY DEF Serve, callVars, worldVars, historyVars
<1>2. PICK t \in Threads : /\ held[t] = fd /\ held[t] # 0
                           /\ sockets[fd].request.id = CallId(t)
  BY <1>1, RequestHeld DEF CallsInv
<1>3. sockets[fd].request.id[1] = t
  BY <1>2 DEF CallId
<1>4. executed' = IF t = Refresh THEN executed ELSE [executed EXCEPT ![t] = @ + 1]
  BY <1>3 DEF Serve
<1>5. Calling' = Calling /\ Sent' = Sent
  <2>1. \A u \in Callers : Attempts(u)' = Attempts(u)
    BY <1>1 DEF Attempts, Results
  <2> QED BY <1>1, <2>1 DEF Calling, Sent
<1>6. CASE t = Refresh
  BY <1>1, <1>4, <1>5, <1>6
<1>7. CASE t # Refresh
  <2>1. t \in Callers
    BY <1>7 DEF Threads
  <2>2. executed[t] + late[t] <= dropped[t] /\ Attempts(t) = dropped[t] + 1
    BY <1>1, <1>2, <2>1 DEF CallsInv, ClientInv, Executions, ExecutionsOf, Attempts, Results
  <2>3. executed[t] < Sent[t]
    BY <2>1, <2>2 DEF Sent, CallsInv, ClientInv, Types
  <2>4. Abstract!Execute(t)
    BY <1>1, <1>4, <1>5, <1>7, <2>3 DEF Abstract!Execute, Sent
  <2> QED BY <2>1, <2>4
<1> QED BY <1>6, <1>7

LEMMA ServeLateIsExecute ==
  ASSUME CallsInv, NEW t \in Callers, ServeLate(t)
  PROVE  Abstract!Execute(t)
<1>1. /\ UNCHANGED <<held, calls, outcome, dropped, pc, cuts>> /\ late[t] > 0
      /\ executed' = [executed EXCEPT ![t] = @ + 1]
  BY DEF ServeLate, callVars, worldVars
<1>2. Calling' = Calling /\ Sent' = Sent
  <2>1. \A u \in Callers : Attempts(u)' = Attempts(u)
    BY <1>1 DEF Attempts, Results
  <2> QED BY <1>1, <2>1 DEF Calling, Sent
<1>3. executed[t] + late[t] <= Attempts(t) /\ Attempts(t) \in Nat
  BY DEF CallsInv, ClientInv, Executions, ExecutionsOf, Attempts, Results, Types
<1>4. executed[t] < Sent[t]
  BY <1>1, <1>3 DEF Sent, CallsInv, ClientInv, Types
<1> QED BY <1>1, <1>2, <1>4 DEF Abstract!Execute, Sent

LEMMA WriteCutIsSend ==
  ASSUME CallsInv, NEW t \in Threads, WriteCut(t)
  PROVE  \/ t \in Callers /\ Abstract!Send(t)
         \/ UNCHANGED <<Calling, calls, Sent, executed, outcome, cuts>>
<1>1. /\ pc[t] = "pick" /\ pc' = [pc EXCEPT ![t] = "read"]
      /\ UNCHANGED <<calls, outcome, executed, dropped, cuts>>
  BY DEF WriteCut, netVars, worldVars
<1>2. PICK fd \in Cache(t) : held' = [held EXCEPT ![t] = fd]
  BY DEF WriteCut
<1>3. held[t] = 0 /\ fd # 0
  BY <1>1, <1>2, FdsPositive DEF CallsInv, ClientInv, Holding, Using, Cache, Types
<1>4. held'[t] = fd /\ \A u \in Threads : u # t => held'[u] = held[u]
  BY <1>2 DEF CallsInv, ClientInv, Types
<1>5. Calling' = Calling
  BY <1>1 DEF Calling, CallsInv, ClientInv, Types, Threads
<1>6. \A u \in Callers : u # t => Attempts(u)' = Attempts(u)
  BY <1>1, <1>4 DEF Attempts, Results, Threads
<1>7. CASE t \in Callers
  <2>1. Attempts(t) = dropped[t] + 0
    BY <1>1, <1>3, <1>7, SentWhileCalling
  <2>2. Attempts(t)' = dropped[t] + 1
    BY <1>1, <1>3, <1>4 DEF Attempts, Results
  <2>3. Attempts(t)' = Attempts(t) + 1
    BY <1>7, <2>1, <2>2 DEF CallsInv, ClientInv, Types
  <2>4. Sent' = [Sent EXCEPT ![t] = @ + 1]
    BY <1>6, <1>7, <2>3 DEF Sent
  <2>5. t \in Calling
    BY <1>1, <1>7 DEF Calling
  <2> QED BY <1>1, <1>5, <1>7, <2>4, <2>5 DEF Abstract!Send, Sent
<1>8. CASE t \notin Callers
  <2>1. Sent' = Sent
    BY <1>6, <1>8 DEF Sent
  <2> QED BY <1>1, <1>5, <2>1
<1> QED BY <1>7, <1>8

\* A result that is anybody's comes from a connection that is cut.
LEMMA ReadCutIsMismatch ==
  ASSUME CallsInv, NEW t \in Threads, ReadCut(t)
  PROVE  \/ t \in Callers /\ Abstract!Mismatch(t)
         \/ UNCHANGED <<Calling, calls, Sent, executed, outcome, cuts>>
<1>1. /\ pc[t] = "read" /\ sockets[held[t]].cut
      /\ UNCHANGED <<calls, executed, dropped, cuts>>
  BY ReadCutEnds DEF netVars, worldVars, historyVars
<1>2. held[t] # 0
  BY <1>1 DEF CallsInv, ClientInv, Holding, Using
<1>3. cuts > 0
  <2>1. held[t] \in DOMAIN sockets
    BY <1>2, HeldIsOpen DEF CallsInv, ClientInv
  <2> QED BY <1>1, <2>1 DEF CallsInv, CutKnown
<1>4. CASE /\ pc' \in {[pc EXCEPT ![t] = "failed"], [pc EXCEPT ![t] = "spin"]}
           /\ UNCHANGED <<held, outcome>>
  <2>1. \A u \in Callers : (pc'[u] = "idle") = (pc[u] = "idle")
    BY <1>1, <1>4 DEF CallsInv, ClientInv, Types, Threads
  <2> QED BY <1>1, <1>4, <2>1, HiddenStep
<1>5. CASE /\ t = Refresh /\ held' = [held EXCEPT ![t] = 0] /\ UNCHANGED outcome
           /\ \E w \in {"connect", "none"} : pc' = [pc EXCEPT ![t] = w]
  <2>1. \A u \in Callers : u \in Threads /\ u # t
    BY <1>5, ClientAssumption DEF Threads, Refresh
  <2>2. \A u \in Callers : pc'[u] = pc[u] /\ held'[u] = held[u]
    BY <1>5, <2>1 DEF CallsInv, ClientInv, Types
  <2>3. \A u \in Callers : Attempts(u)' = Attempts(u)
    BY <1>1, <1>5, <2>2 DEF Attempts, Results
  <2> QED BY <1>1, <1>5, <2>2, <2>3 DEF Calling, Sent
<1>6. CASE /\ t # Refresh /\ held' = [held EXCEPT ![t] = 0]
           /\ pc' = [pc EXCEPT ![t] = "idle"]
           /\ outcome' = [outcome EXCEPT ![t] = <<"unmatched">>]
  <2>1. t \in Callers
    BY <1>6 DEF Threads
  <2>2. t \in Calling /\ Calling' = Calling \ {t}
    BY <1>1, <1>6, <2>1 DEF Calling, CallsInv, ClientInv, Types, Threads
  <2>3. ASSUME NEW u \in Callers PROVE Attempts(u)' = Attempts(u)
    <3>1. CASE u = t
      <4>1. Attempts(u) = dropped[u] + 1
        BY <1>1, <1>2, <3>1, SentWhileCalling
      <4>2. outcome'[u] = <<"unmatched">>
        BY <1>6, <3>1 DEF CallsInv, ClientInv, Types
      <4>3. outcome'[u][1] = "unmatched"
        BY <4>2, UnmatchedMark
      <4> QED BY <1>1, <4>1, <4>3 DEF Attempts, Results
    <3>2. CASE u # t
      <4>1. u \in Threads
        BY DEF Threads
      <4> QED BY <1>1, <1>6, <3>2, <4>1 DEF Attempts, Results, CallsInv, ClientInv, Types
    <3> QED BY <3>1, <3>2
  <2>4. Sent' = Sent
    BY <2>3 DEF Sent
  <2> QED BY <1>1, <1>3, <1>6, <2>1, <2>2, <2>4 DEF Abstract!Mismatch, Sent
<1> QED BY <1>4, <1>5, <1>6, ReadCutEnds

LEMMA ServeCutIsCut ==
  ASSUME CallsInv, NEW fd \in DOMAIN sockets, ServeCut(fd)
  PROVE  Abstract!Cut
<1>1. UNCHANGED <<held, calls, outcome, executed, dropped, pc>> /\ cuts' = cuts + 1
  BY DEF ServeCut, callVars
<1>2. \A u \in Callers : Attempts(u)' = Attempts(u)
  BY <1>1 DEF Attempts, Results
<1> QED BY <1>1, <1>2 DEF Abstract!Cut, Calling

LEMMA ClientImplements ==
  CallsInv /\ [Next]_vars => [Abstract!Next]_<<Calling, calls, Sent, executed, outcome, cuts>>
<1> DEFINE Same == UNCHANGED <<Calling, calls, Sent, executed, outcome, cuts>>
<1> SUFFICES ASSUME CallsInv, [Next]_vars PROVE Abstract!Next \/ Same
  OBVIOUS
<1>1. CASE ConnectEnd \/ WakeUp
  <2>1. \A t \in Callers : pc'[t] = pc[t]
    BY <1>1, ClientAssumption DEF ConnectEnd, WakeUp, CallsInv, ClientInv, Types, Threads, Refresh
  <2>2. UNCHANGED <<held, calls, outcome, executed, dropped, cuts>>
    BY <1>1 DEF ConnectEnd, WakeUp, callVars, netVars, worldVars, historyVars
  <2> QED BY <2>1, <2>2, HiddenStep
<1>2. ASSUME NEW a \in Addresses, ConnectOne(a) PROVE Same
  BY <1>2, HiddenStep DEF ConnectOne, callVars, netVars, worldVars, historyVars
<1>3. ASSUME NEW t \in Callers, Call(t) PROVE Abstract!Next
  BY <1>3, CallIsBegin DEF Abstract!Next
<1>4. ASSUME NEW t \in Threads, LockRpc(t) \/ ReadEnd(t) PROVE Same
  <2>1. \A u \in Callers : (pc'[u] = "idle") = (pc[u] = "idle")
    BY <1>4 DEF LockRpc, ReadEnd, CallsInv, ClientInv, Types, Threads
  <2>2. UNCHANGED <<held, calls, outcome, executed, dropped, cuts>>
    BY <1>4 DEF LockRpc, ReadEnd, callVars, netVars, worldVars, historyVars
  <2> QED BY <2>1, <2>2, HiddenStep
<1>5. ASSUME NEW t \in Threads, Write(t) PROVE Abstract!Next \/ Same
  <2>1. CASE t \in Callers
    BY <1>5, <2>1, WriteIsSend DEF Abstract!Next
  <2>2. CASE t = Refresh
    <3>1. \A u \in Callers : u \in Threads /\ u # t
      BY <2>2, ClientAssumption DEF Threads, Refresh
    <3>2. UNCHANGED <<calls, outcome, executed, dropped, cuts>> /\ pc' = [pc EXCEPT ![t] = "read"]
      BY <1>5 DEF Write, netVars, worldVars, historyVars
    <3>3. \A u \in Callers : pc'[u] = pc[u] /\ held'[u] = held[u]
      BY <1>5, <3>1 DEF Write, CallsInv, ClientInv, Types
    <3>4. \A u \in Callers : Attempts(u)' = Attempts(u)
      BY <3>2, <3>3 DEF Attempts, Results
    <3> QED BY <3>2, <3>3, <3>4 DEF Calling, Sent
  <2> QED BY <2>1, <2>2 DEF Threads
<1>6. ASSUME NEW t \in Threads, Read(t) PROVE Abstract!Next \/ Same
  <2>1. CASE t \in Callers /\ Parse(Now(t)) = "whole" /\ Finish(t, Answer(Now(t)))
    BY <1>6, <2>1, ReadIsReturn DEF Abstract!Next
  <2>2. CASE t = Refresh \/ Parse(Now(t)) # "whole" \/ UNCHANGED held
    BY <1>6, <2>2, ReadHidden
  <2> QED BY <1>6, <2>1, <2>2 DEF Read, Now, Threads
<1>12. ASSUME NEW t \in Threads, WriteCut(t) \/ ReadCut(t) PROVE Abstract!Next \/ Same
  BY <1>12, WriteCutIsSend, ReadCutIsMismatch DEF Abstract!Next
<1>7. ASSUME NEW t \in Threads, Drop(t) PROVE Same
  BY <1>7, DropIsHidden
<1>8. ASSUME NEW t \in Threads, Throw(t) PROVE Abstract!Next \/ Same
  <2>1. CASE t \in Callers
    BY <1>8, <2>1, ThrowIsFail DEF Abstract!Next
  <2>2. CASE t = Refresh
    <3>1. \A u \in Callers : pc'[u] = pc[u]
      BY <1>8, <2>2, ClientAssumption DEF Throw, CallsInv, ClientInv, Types, Threads, Refresh
    <3>2. UNCHANGED <<held, calls, outcome, executed, dropped, cuts>>
      BY <1>8, <2>2 DEF Throw, netVars, worldVars, historyVars
    <3> QED BY <3>1, <3>2, HiddenStep
  <2> QED BY <2>1, <2>2 DEF Threads
<1>9. CASE Network
  <2>1. ASSUME NEW fd \in DOMAIN sockets, Deliver(fd) PROVE Same
    BY <2>1, HiddenStep DEF Deliver, callVars, netVars, worldVars, historyVars
  <2> QED BY <1>9, <2>1, ServeIsExecute, ServeCutIsCut, ServeLateIsExecute DEF Network, Abstract!Next
<1>10. ASSUME NEW a \in Addresses, Crash(a) \/ Restart(a) PROVE Same
  BY <1>10, HiddenStep DEF Crash, Restart, callVars, historyVars
<1>11. CASE UNCHANGED vars
  BY <1>11, HiddenStep DEF vars, callVars, netVars, worldVars, historyVars
<1> QED BY <1>1, <1>2, <1>3, <1>4, <1>5, <1>6, <1>7, <1>8, <1>9, <1>10, <1>11, <1>12
        DEF Next, Refreshing, Run

\* The caller's view of remoteCall: sent once per lost connection and once more,
\* executed at most as often, answered only when executed, and given what may be
\* another's answer only when a request was cut outside its body.
THEOREM CallsImplemented == Spec => ImplementsCalls
<1>1. Init => Abstract!Init
  <2> SUFFICES ASSUME Init PROVE Abstract!Init
    OBVIOUS
  <2>1. Calling = {}
    BY ClientAssumption DEF Init, Calling, Threads, Refresh
  <2>2. \A t \in Callers : Attempts(t) = 0
    BY Marks DEF Init, Attempts, Results, Threads
  <2> QED BY <2>1, <2>2 DEF Init, Abstract!Init
<1>2. CallsInv /\ [Next]_vars => [Abstract!Next]_(Abstract!remoteVars)
  BY ClientImplements DEF Abstract!remoteVars, Sent
<1> QED BY <1>1, <1>2, CallsAlways, PTL DEF Spec, ImplementsCalls, Abstract!Spec

\* A call that is answered on a connection that is not cut was executed, and at most
\* once for every connection it lost besides; one that fails, at most as often as
\* it lost connections; one that took what it found on a connection that is cut, at
\* most once more, and perhaps never.
ExecutionsKnown ==
  \A t \in Callers :
    /\ executed[t] + late[t] <= dropped[t] + 1
    /\ outcome[t][1] \in {"answer", "empty"} => executed[t] >= 1
    /\ outcome[t][1] = "connect error" => executed[t] + late[t] <= dropped[t]

\* However late the copies of a request are executed, they are counted: a call that
\* lost no connection and was answered, from a connection that is not cut, has been
\* executed exactly once.
THEOREM ExecutionsCounted == Spec => []ExecutionsKnown
<1>1. CallsInv => ExecutionsKnown
  <2> SUFFICES ASSUME CallsInv, NEW t \in Callers
               PROVE  /\ executed[t] + late[t] <= dropped[t] + 1
                      /\ outcome[t][1] \in {"answer", "empty"} => executed[t] >= 1
                      /\ outcome[t][1] = "connect error" => executed[t] + late[t] <= dropped[t]
    BY DEF ExecutionsKnown
  <2>1. executed[t] \in Nat /\ dropped[t] \in Nat /\ late[t] \in Nat
    BY DEF CallsInv, ClientInv, Types
  <2>2. ExecutionsOf(t) /\ ServedOf(t)
    BY DEF CallsInv, ClientInv, Executions, Served
  <2>3. outcome[t][1] = "connect error" => held[t] = 0
    <3>1. held[t] # 0 => pc[t] # "idle"
      BY DEF CallsInv, ClientInv, Holding, Using, Threads
    <3> QED BY <3>1, SentWhileCalling, Marks
  <2>4. executed[t] + late[t] <= dropped[t] + 1
    BY <2>1, <2>2 DEF ExecutionsOf, Attempts, Results
  <2>5. outcome[t][1] \in {"answer", "empty"} => executed[t] >= 1
    BY <2>1, <2>2 DEF ServedOf
  <2>6. ASSUME outcome[t][1] = "connect error" PROVE executed[t] + late[t] <= dropped[t]
    <3>1. Attempts(t) = dropped[t] + 0
      BY <2>3, <2>6 DEF Attempts, Results
    <3> QED BY <2>1, <2>2, <3>1 DEF ExecutionsOf
  <2> QED BY <2>4, <2>5, <2>6
<1> QED BY <1>1, CallsAlways, PTL

-----------------------------------------------------------------------------
(***************************************************************************)
(* Nobody waits for a reply that cannot come.                              *)
(***************************************************************************)

\* What is still to be read on a connection.
Stream(s) == s.inbox \o s.coming

\* A reply that begins is whole: three segments follow the first one.
Whole(segs) == \A i \in DOMAIN segs : segs[i].k = 1 => Len(segs) = i + 3

RepliesWhole == \A fd \in DOMAIN sockets : ~sockets[fd].ended => Whole(Stream(sockets[fd]))

\* Places in which a thread waits for the connection it holds.
Attending == {"read", "more", "spin"}

Awaits(t) ==
  LET s == sockets[held[t]]
  IN  /\ pc[t] = "read" => s.ended \/ s.cut \/ s.request # NoRequest \/ HeadIn(Stream(s))
      /\ pc[t] = "more" => /\ Len(got[t]) \in {2, 3}
                           /\ s.ended \/ Len(got[t]) + Len(Stream(s)) = 4
      /\ pc[t] = "spin" => s.ended /\ (s.cut \/ Len(got[t]) \in {2, 3})

\* A call under way has a number, by which its request differs from none.
Numbered == \A t \in Callers : pc[t] # "idle" => calls[t] > 0

RepliesInv == RepliesWhole /\ (\A t \in Threads : Awaits(t)) /\ Numbered

LEMMA StreamTyped ==
  ASSUME NEW s \in Sockets
  PROVE  /\ s.inbox \in Seq(Segs) /\ s.coming \in Seq(Segs)
         /\ Stream(s) \in Seq(Segs) /\ Len(Stream(s)) = Len(s.inbox) + Len(s.coming)
BY DEF Stream, Sockets

\* What remains of a connection when the first segments were read.
LEMMA RestWhole ==
  ASSUME NEW s \in Seq(Segs), NEW r \in Seq(Segs), Whole(s \o r)
  PROVE  Whole(r)
<1> SUFFICES ASSUME NEW i \in DOMAIN r, r[i].k = 1 PROVE Len(r) = i + 3
  BY DEF Whole
<1>1. /\ i + Len(s) \in DOMAIN (s \o r) /\ (s \o r)[i + Len(s)] = r[i]
      /\ Len(s \o r) = Len(s) + Len(r)
  OBVIOUS
<1>2. Len(s \o r) = i + Len(s) + 3
  BY <1>1 DEF Whole
<1>3. i \in Nat /\ Len(s) \in Nat /\ Len(r) \in Nat
  OBVIOUS
<1> QED BY <1>1, <1>2, <1>3

\* A connection whose next segment is the first of a reply holds one reply.
LEMMA WholeLength ==
  ASSUME NEW s \in Seq(Segs), NEW r \in Seq(Segs), Whole(s \o r),
         1 \in DOMAIN s, s[1].k = 1
  PROVE  Len(s) + Len(r) = 4
<1>1. 1 \in DOMAIN (s \o r) /\ (s \o r)[1] = s[1] /\ Len(s \o r) = Len(s) + Len(r)
  OBVIOUS
<1> QED BY <1>1 DEF Whole

\* A reply comes after what is left of earlier ones.
LEMMA ReplyWhole ==
  ASSUME NEW s \in Seq(Segs), NEW r \in Seq(Segs), ~HeadIn(s),
         DOMAIN r = 1..4, \A k \in 1..4 : r[k].k = k
  PROVE  Whole(s \o r) /\ HeadIn(s \o r)
<1>1. Len(s) \in Nat /\ Len(r) = 4 /\ Len(s \o r) = Len(s) + 4
  <2>1. 4 \in DOMAIN r /\ 5 \notin DOMAIN r
    OBVIOUS
  <2>2. Len(r) = 4
    BY <2>1
  <2>3. Len(s) \in Nat /\ Len(s \o r) = Len(s) + Len(r)
    BY JoinedAt
  <2> QED BY <2>2, <2>3
<1>2. Whole(s \o r)
  <2> SUFFICES ASSUME NEW i \in DOMAIN (s \o r), (s \o r)[i].k = 1 PROVE Len(s \o r) = i + 3
    BY DEF Whole
  <2>1. \/ i \in DOMAIN s /\ (s \o r)[i] = s[i]
        \/ i - Len(s) \in DOMAIN r /\ (s \o r)[i] = r[i - Len(s)]
    BY JoinedAt
  <2>2. i - Len(s) \in 1..4 /\ (s \o r)[i] = r[i - Len(s)]
    BY <2>1 DEF HeadIn
  <2>3. i - Len(s) = 1 /\ i \in Nat
    BY <2>2
  <2> QED BY <1>1, <2>3
<1>3. HeadIn(s \o r)
  <2>1. Len(s) + 1 \in DOMAIN (s \o r) /\ (s \o r)[Len(s) + 1] = r[1]
    BY <1>1
  <2> QED BY <2>1 DEF HeadIn
<1> QED BY <1>2, <1>3

\* A sequence in two pieces.
LEMMA Pieces ==
  ASSUME NEW r \in Seq(Segs), NEW a \in Seq(Segs), NEW b \in Seq(Segs),
         Len(a) + Len(b) = Len(r),
         \A i \in 1..Len(a) : a[i] = r[i],
         \A i \in 1..Len(b) : b[i] = r[i + Len(a)]
  PROVE  a \o b = r
<1>1. /\ a \o b \in Seq(Segs) /\ Len(a \o b) = Len(a) + Len(b)
      /\ \A i \in 1..(Len(a) + Len(b)) : (a \o b)[i] = IF i <= Len(a) THEN a[i] ELSE b[i - Len(a)]
  BY ConcatProperties
<1>2. ASSUME NEW i \in 1..Len(r) PROVE (a \o b)[i] = r[i]
  <2>1. CASE i <= Len(a)
    BY <1>1, <2>1
  <2>2. CASE ~(i <= Len(a))
    <3>1. i - Len(a) \in 1..Len(b) /\ (i - Len(a)) + Len(a) = i
      BY <2>2
    <3>2. (a \o b)[i] = b[i - Len(a)]
      BY <1>1, <2>2
    <3> QED BY <3>1, <3>2
  <2> QED BY <2>1, <2>2
<1> QED BY <1>1, <1>2, SeqEqual

LEMMA JoinThree ==
  \A a, b, c \in Seq(Segs) : (a \o b) \o c = a \o (b \o c)
<1> TAKE a, b, c \in Seq(Segs)
<1> DEFINE S == Segs
<1>1. a \in Seq(S) /\ b \in Seq(S) /\ c \in Seq(S)
  OBVIOUS
<1> HIDE DEF S
<1> QED BY <1>1, ConcatAssociative

\* Delivery moves segments; it does not change what is still to be read.
LEMMA MovedSame ==
  ASSUME NEW s \in Seq(Segs), NEW r \in Seq(Segs), NEW n \in 1..Len(r)
  PROVE  (s \o SubSeq(r, 1, n)) \o SubSeq(r, n + 1, Len(r)) = s \o r
<1>1. PICK a \in Seq(Segs) : a = SubSeq(r, 1, n) /\ Len(a) = n /\ \A i \in 1..n : a[i] = r[i]
  <2>1. /\ SubSeq(r, 1, n) \in Seq(Segs) /\ Len(SubSeq(r, 1, n)) = n
        /\ \A i \in 1..n : SubSeq(r, 1, n)[i] = r[i]
    OBVIOUS
  <2> QED BY <2>1
<1>2. PICK b \in Seq(Segs) : /\ b = SubSeq(r, n + 1, Len(r)) /\ Len(b) = Len(r) - n
                             /\ \A i \in 1..(Len(r) - n) : b[i] = r[i + n]
  <2> DEFINE q == SubSeq(r, n + 1, Len(r))
  <2>1. q \in Seq(Segs)
    OBVIOUS
  <2>2. Len(q) = Len(r) - n
    OBVIOUS
  <2>3. \A i \in 1..(Len(r) - n) : q[i] = r[i + n]
    OBVIOUS
  <2>4. q = SubSeq(r, n + 1, Len(r))
    OBVIOUS
  <2> HIDE DEF q
  <2> QED BY <2>1, <2>2, <2>3, <2>4, Zenon
<1>3. a \o b = r
  BY <1>1, <1>2, Pieces
<1>4. (s \o a) \o b = s \o (a \o b)
  BY JoinThree, Zenon
<1> QED BY <1>1, <1>2, <1>3, <1>4

\* A step after which the connection has ended, or carries what it carried.
Undisturbed(fd) ==
  /\ sockets'[fd].cut = sockets[fd].cut
  /\ \/ sockets'[fd].ended
     \/ /\ ~sockets[fd].ended
        /\ sockets'[fd].request = sockets[fd].request
        /\ Stream(sockets'[fd]) = Stream(sockets[fd])

LEMMA CalmStep ==
  ASSUME RepliesInv,
         \A fd \in DOMAIN sockets' : \/ fd \in DOMAIN sockets /\ Undisturbed(fd)
                                     \/ sockets'[fd].inbox = <<>> /\ sockets'[fd].coming = <<>>,
         \A t \in Threads : pc'[t] \in Attending =>
           /\ pc'[t] = pc[t] /\ held'[t] = held[t] /\ got'[t] = got[t]
           /\ Undisturbed(held[t]),
         \A t \in Callers : pc'[t] # "idle" => pc[t] # "idle" /\ calls'[t] = calls[t]
  PROVE  RepliesInv'
<1>1. RepliesWhole'
  <2> SUFFICES ASSUME NEW fd \in DOMAIN sockets', ~sockets'[fd].ended
               PROVE  Whole(Stream(sockets'[fd]))
    BY DEF RepliesWhole
  <2>1. CASE fd \in DOMAIN sockets /\ Undisturbed(fd)
    BY <2>1 DEF RepliesInv, RepliesWhole, Undisturbed
  <2>2. CASE sockets'[fd].inbox = <<>> /\ sockets'[fd].coming = <<>>
    <3>1. Stream(sockets'[fd]) = <<>>
      BY <2>2 DEF Stream
    <3> QED BY <3>1 DEF Whole
  <2> QED BY <2>1, <2>2
<1>2. ASSUME NEW t \in Threads PROVE Awaits(t)'
  <2>1. CASE pc'[t] \in Attending
    <3>1. /\ pc'[t] = pc[t] /\ held'[t] = held[t] /\ got'[t] = got[t]
          /\ Undisturbed(held[t]) /\ Awaits(t)
      BY <2>1 DEF RepliesInv
    <3> QED BY <3>1 DEF Awaits, Undisturbed
  <2>2. CASE pc'[t] \notin Attending
    BY <2>2 DEF Awaits, Attending
  <2> QED BY <2>1, <2>2
<1>3. Numbered'
  BY DEF RepliesInv, Numbered
<1> QED BY <1>1, <1>2, <1>3 DEF RepliesInv

\* Steps that leave the connections as they are.
LEMMA StillReplies ==
  ASSUME RepliesInv, UNCHANGED sockets,
         \A t \in Threads : pc'[t] \in Attending =>
           pc'[t] = pc[t] /\ held'[t] = held[t] /\ got'[t] = got[t],
         \A t \in Callers : pc'[t] # "idle" => pc[t] # "idle" /\ calls'[t] = calls[t]
  PROVE  RepliesInv'
<1>1. \A fd : Undisturbed(fd) \/ sockets[fd].ended
  BY DEF Undisturbed
<1>2. \A fd : Undisturbed(fd)
  BY <1>1 DEF Undisturbed
<1> QED BY <1>2, CalmStep

LEMMA OthersReplies ==
  ASSUME ClientInv, RepliesInv,
         \/ ConnectEnd \/ WakeUp \/ UNCHANGED vars
         \/ \E a \in Addresses : Restart(a)
         \/ \E t \in Callers : ServeLate(t)
         \/ \E t \in Threads : LockRpc(t) \/ Throw(t)
  PROVE  RepliesInv'
<1>1. /\ UNCHANGED sockets
      /\ \A t \in Threads : pc'[t] \in Attending =>
           pc'[t] = pc[t] /\ held'[t] = held[t] /\ got'[t] = got[t]
      /\ \A t \in Callers : pc'[t] # "idle" => pc[t] # "idle" /\ calls'[t] = calls[t]
  <2> USE DEF callVars, Attending
  <2>1. CASE ConnectEnd \/ WakeUp
    <3>1. /\ UNCHANGED <<sockets, held, got, calls>>
          /\ \A t \in Threads : t # Refresh => pc'[t] = pc[t]
          /\ pc'[Refresh] \in {"lock", "sleep", "none"}
      BY <2>1 DEF ConnectEnd, WakeUp, ClientInv, Types, Threads
    <3>2. \A t \in Callers : t # Refresh
      BY ClientAssumption DEF Refresh
    <3> QED BY <3>1, <3>2 DEF Threads
  <2>2. CASE \/ UNCHANGED vars
             \/ \E a \in Addresses : Restart(a)
             \/ \E t \in Callers : ServeLate(t)
    BY <2>2 DEF vars, Restart, ServeLate
  <2>3. ASSUME NEW t \in Threads, LockRpc(t) \/ Throw(t)
        PROVE  /\ UNCHANGED <<sockets, held, got, calls>>
               /\ \A u \in Threads : u # t => pc'[u] = pc[u]
               /\ pc'[t] \in {"pick", "none", "idle"} /\ pc[t] \in {"lock", "pick"}
    BY <2>3 DEF LockRpc, Throw, ClientInv, Types
  <2> QED BY <2>1, <2>2, <2>3 DEF Threads
<1> QED BY <1>1, StillReplies

LEMMA CallReplies ==
  ASSUME ClientInv, RepliesInv, NEW t \in Callers, Call(t)
  PROVE  RepliesInv'
<1>1. /\ UNCHANGED <<sockets, held, got>> /\ t \in Threads
      /\ pc' = [pc EXCEPT ![t] = "lock"] /\ calls' = [calls EXCEPT ![t] = @ + 1]
  BY DEF Call, Threads
<1>2. /\ pc'[t] = "lock" /\ calls'[t] = calls[t] + 1 /\ calls[t] \in Nat
      /\ \A u \in Threads : u # t => pc'[u] = pc[u]
      /\ \A u \in Callers : u # t => calls'[u] = calls[u]
  BY <1>1 DEF ClientInv, Types
<1>3. RepliesWhole'
  BY <1>1 DEF RepliesInv, RepliesWhole
<1>4. \A u \in Threads : Awaits(u)'
  BY <1>1, <1>2 DEF RepliesInv, Awaits
<1>5. Numbered'
  BY <1>2 DEF RepliesInv, Numbered, Threads
<1> QED BY <1>3, <1>4, <1>5 DEF RepliesInv

LEMMA ConnectOneReplies ==
  ASSUME ClientInv, RepliesInv, NEW a \in Addresses, ConnectOne(a)
  PROVE  RepliesInv'
<1>1. UNCHANGED <<held, got, calls, pc>>
  BY DEF ConnectOne, callVars
<1>2. CASE UNCHANGED sockets
  BY <1>1, <1>2, StillReplies
<1>3. CASE /\ Connectable(a)
           /\ sockets' = Extend(sockets, NewFd,
                [addr |-> a, ended |-> FALSE, cut |-> FALSE, request |-> NoRequest, coming |-> <<>>, inbox |-> <<>>])
  <2>1. NewFd \notin DOMAIN sockets
    BY <1>3, NewFdIsFree DEF ClientInv, Connectable
  <2>2. /\ \A fd \in DOMAIN sockets : sockets'[fd] = sockets[fd]
        /\ DOMAIN sockets' = DOMAIN sockets \cup {NewFd}
        /\ sockets'[NewFd].inbox = <<>> /\ sockets'[NewFd].coming = <<>>
    BY <1>3, <2>1 DEF Extend
  <2>3. \A fd \in DOMAIN sockets : Undisturbed(fd)
    BY <2>2 DEF Undisturbed
  <2>4. \A t \in Threads : pc[t] \in Attending => held[t] \in DOMAIN sockets
    BY HeldIsOpen DEF ClientInv, Holding, Using, Attending
  <2> QED BY <1>1, <2>2, <2>3, <2>4, CalmStep
<1> QED BY <1>2, <1>3 DEF ConnectOne

LEMMA CrashReplies ==
  ASSUME ClientInv, RepliesInv, NEW a \in Addresses, Crash(a)
  PROVE  RepliesInv'
<1>1. /\ UNCHANGED <<held, got, calls, pc>>
      /\ sockets' = [fd \in DOMAIN sockets |->
           IF sockets[fd].addr # a THEN sockets[fd]
           ELSE [sockets[fd] EXCEPT !.ended = TRUE, !.request = NoRequest, !.coming = <<>>]]
  BY DEF Crash, callVars
<1>2. ASSUME NEW fd \in DOMAIN sockets PROVE fd \in DOMAIN sockets' /\ Undisturbed(fd)
  <2>1. sockets[fd] \in Sockets
    BY DEF ClientInv, Types
  <2>2. CASE sockets[fd].addr # a
    BY <1>1, <2>2 DEF Undisturbed
  <2>3. CASE sockets[fd].addr = a
    <3>1. sockets'[fd] = [sockets[fd] EXCEPT !.ended = TRUE, !.request = NoRequest, !.coming = <<>>]
      BY <1>1, <2>3
    <3>2. sockets'[fd].ended /\ sockets'[fd].cut = sockets[fd].cut
      BY <2>1, <3>1 DEF Sockets
    <3> QED BY <1>1, <3>2 DEF Undisturbed
  <2> QED BY <1>1, <2>2, <2>3
<1>3. DOMAIN sockets' = DOMAIN sockets
  BY <1>1
<1>4. \A t \in Threads : pc[t] \in Attending => held[t] \in DOMAIN sockets
  BY HeldIsOpen DEF ClientInv, Holding, Using, Attending
<1> QED BY <1>1, <1>2, <1>3, <1>4, CalmStep

LEMMA DeliverReplies ==
  ASSUME ClientInv, RepliesInv, NEW fd \in DOMAIN sockets, Deliver(fd)
  PROVE  RepliesInv'
<1> DEFINE old == sockets[fd]
           box == old.inbox
           rest == old.coming
<1>1. UNCHANGED <<held, got, calls, pc>>
  BY DEF Deliver, callVars
<1>2. old \in Sockets /\ box \in Seq(Segs) /\ rest \in Seq(Segs)
  BY DEF ClientInv, Types, Sockets
<1>3. PICK n \in 1..Len(rest) :
        sockets' = [sockets EXCEPT ![fd].inbox = @ \o SubSeq(sockets[fd].coming, 1, n),
                                   ![fd].coming = SubSeq(@, n + 1, Len(@))]
  BY DEF Deliver
<1>4. /\ sockets'[fd].inbox = box \o SubSeq(rest, 1, n)
      /\ sockets'[fd].coming = SubSeq(rest, n + 1, Len(rest))
      /\ sockets'[fd].ended = old.ended /\ sockets'[fd].request = old.request
      /\ sockets'[fd].cut = old.cut
      /\ DOMAIN sockets' = DOMAIN sockets
      /\ \A fe \in DOMAIN sockets : fe # fd => sockets'[fe] = sockets[fe]
  BY <1>2, <1>3 DEF ClientInv, Types, Sockets
<1> HIDE DEF box, rest
<1>5. Stream(sockets'[fd]) = Stream(old)
  <2>1. (box \o SubSeq(rest, 1, n)) \o SubSeq(rest, n + 1, Len(rest)) = box \o rest
    BY <1>2, MovedSame
  <2> QED BY <1>4, <2>1 DEF Stream, box, rest
<1>6. ASSUME NEW fe \in DOMAIN sockets PROVE Undisturbed(fe)
  BY <1>4, <1>5 DEF Undisturbed
<1>7. \A t \in Threads : pc[t] \in Attending => held[t] \in DOMAIN sockets
  BY HeldIsOpen DEF ClientInv, Holding, Using, Attending
<1> QED BY <1>1, <1>4, <1>6, <1>7, CalmStep

LEMMA DropReplies ==
  ASSUME ClientInv, RepliesInv, NEW t \in Threads, Drop(t)
  PROVE  RepliesInv'
<1>1. /\ pc[t] = "failed" /\ pc' = [pc EXCEPT ![t] = "pick"] /\ UNCHANGED calls
      /\ held' = [held EXCEPT ![t] = 0] /\ got' = [got EXCEPT ![t] = <<>>]
      /\ sockets' = [fe \in DOMAIN sockets \ {held[t]} |-> sockets[fe]]
  BY DEF Drop, Restrict
<1>2. pc'[t] = "pick" /\ \A u \in Threads : u # t => pc'[u] = pc[u]
  BY <1>1 DEF ClientInv, Types
<1>3. held[t] # 0
  BY <1>1 DEF ClientInv, Holding, Using
<1>4. \A u \in Threads : pc'[u] \notin Attending
  BY <1>1, <1>2, <1>3, HeldIsOpen DEF ClientInv, Holding, Using, Attending
<1>5. \A fd \in DOMAIN sockets' : fd \in DOMAIN sockets /\ Undisturbed(fd)
  BY <1>1 DEF Undisturbed
<1>6. \A u \in Callers : pc'[u] # "idle" => pc[u] # "idle" /\ calls'[u] = calls[u]
  BY <1>1, <1>2 DEF Threads
<1> QED BY <1>4, <1>5, <1>6, CalmStep

LEMMA ReadEndReplies ==
  ASSUME ClientInv, RepliesInv, NEW t \in Threads, ReadEnd(t)
  PROVE  RepliesInv'
<1>1. /\ UNCHANGED <<sockets, held, got, calls>> /\ pc[t] \in {"read", "more"}
      /\ sockets[held[t]].ended
      /\ \/ pc' = [pc EXCEPT ![t] = "failed"]
         \/ pc[t] = "more" /\ pc' = [pc EXCEPT ![t] = "spin"]
  BY DEF ReadEnd, callVars
<1>2. \A u \in Threads : u # t => pc'[u] = pc[u]
  BY <1>1 DEF ClientInv, Types
<1>3. \/ pc'[t] = "failed"
      \/ pc[t] = "more" /\ pc'[t] = "spin"
  BY <1>1 DEF ClientInv, Types
<1>4. RepliesWhole'
  BY <1>1 DEF RepliesInv, RepliesWhole
<1>5. ASSUME NEW u \in Threads PROVE Awaits(u)'
  <2>1. Awaits(u)
    BY DEF RepliesInv
  <2>2. CASE u = t
    BY <1>1, <1>3, <2>1, <2>2 DEF Awaits
  <2>3. CASE u # t
    BY <1>1, <1>2, <2>1, <2>3 DEF Awaits
  <2> QED BY <2>2, <2>3
<1>6. Numbered'
  BY <1>1, <1>2 DEF RepliesInv, Numbered, Threads
<1> QED BY <1>4, <1>5, <1>6 DEF RepliesInv

\* A request differs from none by the number of its call.
LEMMA RequestSeen ==
  ASSUME ClientInv, RepliesInv, NEW t \in Threads, pc[t] = "pick", NEW w
  PROVE  [id |-> CallId(t), wraps |-> w] # NoRequest
<1>1. CallId(t) # <<"none", 0>>
  <2>1. CASE t = Refresh
    BY <2>1 DEF CallId, Refresh
  <2>2. CASE t # Refresh
    <3>1. t \in Callers /\ pc[t] # "idle"
      BY <2>2 DEF Threads
    <3>2. calls[t] > 0 /\ CallId(t) = <<t, calls[t]>>
      BY <2>2, <3>1 DEF RepliesInv, Numbered, CallId
    <3>3. calls[t] # 0
      BY <3>1, <3>2 DEF ClientInv, Types
    <3> QED BY <3>2, <3>3
  <2> QED BY <2>1, <2>2
<1>2. [id |-> CallId(t), wraps |-> w].id = CallId(t) /\ NoRequest.id = <<"none", 0>>
  BY DEF NoRequest
<1> QED BY <1>1, <1>2

LEMMA WriteReplies ==
  ASSUME ClientInv, RepliesInv, NEW t \in Threads, Write(t)
  PROVE  RepliesInv'
<1>1. /\ pc[t] = "pick" /\ pc' = [pc EXCEPT ![t] = "read"] /\ UNCHANGED <<got, calls>>
  BY DEF Write
<1>2. PICK fd \in Cache(t) :
        /\ held' = [held EXCEPT ![t] = fd]
        /\ sockets' = IF sockets[fd].ended THEN sockets
             ELSE [sockets EXCEPT ![fd].request = [id |-> CallId(t), wraps |-> Wrap(t)]]
  BY DEF Write
<1>3. /\ pc'[t] = "read" /\ held'[t] = fd
      /\ \A u \in Threads : u # t => pc'[u] = pc[u]
  BY <1>1, <1>2 DEF ClientInv, Types
<1>4. \A u \in Threads : u # t => pc'[u] \notin Attending
  BY <1>1, <1>3, InBodyAlone DEF ClientInv, Using, Attending
<1>5. fd \in DOMAIN sockets /\ sockets[fd] \in Sockets
  BY <1>2 DEF ClientInv, Types, Tables, Cache
<1>6. /\ DOMAIN sockets' = DOMAIN sockets
      /\ \A fe \in DOMAIN sockets : /\ sockets'[fe].ended = sockets[fe].ended
                                    /\ sockets'[fe].inbox = sockets[fe].inbox
                                    /\ sockets'[fe].coming = sockets[fe].coming
      /\ sockets'[fd].ended \/ sockets'[fd].request = [id |-> CallId(t), wraps |-> Wrap(t)]
  <2>1. CASE sockets[fd].ended
    BY <1>2, <1>5, <2>1
  <2>2. CASE ~sockets[fd].ended
    <3>1. sockets' = [sockets EXCEPT ![fd] =
                        [sockets[fd] EXCEPT !.request = [id |-> CallId(t), wraps |-> Wrap(t)]]]
      BY <1>2, <2>2
    <3> QED BY <1>5, <3>1 DEF ClientInv, Types, Sockets
  <2> QED BY <2>1, <2>2
<1>7. RepliesWhole'
  BY <1>6 DEF RepliesInv, RepliesWhole, Stream
<1>8. Awaits(t)'
  <2>1. sockets'[fd].ended \/ sockets'[fd].request # NoRequest
    BY <1>1, <1>6, RequestSeen
  <2> QED BY <1>3, <2>1 DEF Awaits
<1>9. \A u \in Threads : Awaits(u)'
  BY <1>4, <1>8 DEF Awaits, Attending
<1>10. Numbered'
  BY <1>1, <1>3 DEF RepliesInv, Numbered, Threads
<1> QED BY <1>7, <1>9, <1>10 DEF RepliesInv

LEMMA ServeReplies ==
  ASSUME ClientInv, RepliesInv, NEW fd \in DOMAIN sockets, Serve(fd)
  PROVE  RepliesInv'
<1> DEFINE old == sockets[fd]
<1>1. UNCHANGED <<held, got, calls, pc>> /\ old.request # NoRequest
  BY DEF Serve, callVars
<1>2. /\ old \in Sockets /\ old.request \in Requests
      /\ old.inbox \in Seq(Segs) /\ old.coming \in Seq(Segs)
  BY DEF ClientInv, Types, Sockets
<1>3. PICK reply \in Seq(Segs) : /\ reply = ReplyTo(old.request) /\ DOMAIN reply = 1..4
                                 /\ \A k \in 1..4 : reply[k].k = k
  BY <1>1, <1>2, ReplyForm
<1>4. /\ sockets'[fd].coming = old.coming \o reply /\ sockets'[fd].inbox = old.inbox
      /\ sockets'[fd].cut = old.cut /\ sockets'[fd].ended = old.ended
      /\ DOMAIN sockets' = DOMAIN sockets
      /\ \A fe \in DOMAIN sockets : fe # fd => sockets'[fe] = sockets[fe]
  BY <1>2, <1>3 DEF Serve, ClientInv, Types, Sockets
<1>5. Stream(sockets'[fd]) = Stream(old) \o reply
  <2>1. (old.inbox \o old.coming) \o reply = old.inbox \o (old.coming \o reply)
    BY <1>2, JoinThree, Zenon
  <2> QED BY <1>4, <2>1 DEF Stream
<1>6. ~HeadIn(Stream(old)) /\ Stream(old) \in Seq(Segs)
  <2>1. ~HeadIn(old.inbox) /\ ~HeadIn(old.coming)
    BY <1>1 DEF ClientInv, AtMostOne
  <2>2. \A i \in DOMAIN Stream(old) :
          \/ i \in DOMAIN old.inbox /\ Stream(old)[i] = old.inbox[i]
          \/ i - Len(old.inbox) \in DOMAIN old.coming /\ Stream(old)[i] = old.coming[i - Len(old.inbox)]
    BY <1>2, JoinedAt DEF Stream
  <2> QED BY <1>2, <2>1, <2>2, StreamTyped DEF HeadIn
<1>7. Whole(Stream(sockets'[fd])) /\ HeadIn(Stream(sockets'[fd]))
  BY <1>3, <1>5, <1>6, ReplyWhole
<1>8. RepliesWhole'
  BY <1>4, <1>7 DEF RepliesInv, RepliesWhole
<1>9. PICK t \in Threads : /\ held[t] = fd /\ held[t] # 0 /\ got[t] = <<>>
                           /\ \A u \in Threads : held[u] # 0 => u = t
  BY <1>1, RequestHeld
<1>10. ASSUME NEW u \in Threads PROVE Awaits(u)'
  <2>1. Awaits(u)
    BY DEF RepliesInv
  <2>2. CASE u = t
    <3>1. pc[u] # "more"
      BY <1>9, <2>2 DEF ClientInv, Holding
    <3> QED BY <1>1, <1>4, <1>7, <1>9, <2>1, <2>2, <3>1 DEF Awaits
  <2>3. CASE u # t
    <3>1. pc[u] \notin Attending
      BY <1>9, <2>3 DEF ClientInv, Holding, Using, Attending
    <3> QED BY <1>1, <3>1 DEF Awaits, Attending
  <2> QED BY <2>2, <2>3
<1>11. Numbered'
  BY <1>1 DEF RepliesInv, Numbered
<1> QED BY <1>8, <1>10, <1>11 DEF RepliesInv

\* What remains after read returned, and what the thread then has of its reply.
LEMMA ReadReplies ==
  ASSUME ClientInv, RepliesInv, NEW t \in Threads, Read(t)
  PROVE  RepliesInv'
<1> DEFINE fd == held[t]
           old == sockets[fd]
           box == old.inbox
           rest == old.coming
           had == got[t]
<1>1. /\ pc[t] \in {"read", "more"} /\ box # <<>> /\ UNCHANGED calls
      /\ sockets' = [sockets EXCEPT ![fd].inbox = <<>>]
  BY DEF Read
<1>2. /\ fd \in DOMAIN sockets /\ old \in Sockets
      /\ \A u \in Threads : held[u] # 0 => u = t
  BY <1>1, HeldIsOpen DEF ClientInv, Holding, Using
<1>3. box \in Seq(Segs) /\ rest \in Seq(Segs) /\ had \in Seq(Segs)
  BY <1>2 DEF Sockets, ClientInv, Types
<1>4. /\ sockets'[fd].inbox = <<>> /\ sockets'[fd].coming = rest
      /\ sockets'[fd].ended = old.ended
      /\ DOMAIN sockets' = DOMAIN sockets
      /\ \A fe \in DOMAIN sockets : fe # fd => sockets'[fe] = sockets[fe]
  BY <1>1, <1>2 DEF ClientInv, Types, Sockets
<1> HIDE DEF rest
<1>5. Stream(sockets'[fd]) = rest
  BY <1>3, <1>4, ConcatEmptySeq DEF Stream
<1>6. Stream(old) = box \o rest /\ Len(Stream(old)) = Len(box) + Len(rest)
  BY <1>3 DEF Stream, rest
<1> HIDE DEF box, had
<1>7. RepliesWhole'
  <2>1. ~old.ended => Whole(rest)
    BY <1>2, <1>3, <1>6, RestWhole DEF RepliesInv, RepliesWhole
  <2> QED BY <1>4, <1>5, <2>1 DEF RepliesInv, RepliesWhole
<1>8. \/ /\ Parse(had \o box) = "part" \/ (pc[t] = "more" /\ Len(had \o box) < 4)
         /\ pc' = [pc EXCEPT ![t] = "more"]
         /\ got' = [got EXCEPT ![t] = had \o box]
         /\ UNCHANGED held
      \/ /\ pc'[t] \in {"connect", "idle", "failed"}
         /\ \E p : pc' = [pc EXCEPT ![t] = p]
  BY DEF Read, Finish, box, had, ClientInv, Types
<1>9. \A u \in Threads : u # t => pc'[u] = pc[u]
  BY <1>8 DEF ClientInv, Types
<1>10. \A u \in Threads : u # t => pc'[u] \notin Attending
  BY <1>2, <1>9 DEF ClientInv, Holding, Using, Attending
<1>11. Awaits(t)'
  <2>1. CASE /\ Parse(had \o box) = "part" \/ (pc[t] = "more" /\ Len(had \o box) < 4)
             /\ pc' = [pc EXCEPT ![t] = "more"]
             /\ got' = [got EXCEPT ![t] = had \o box]
             /\ UNCHANGED held
    <3>1. pc'[t] = "more" /\ got'[t] = had \o box /\ held'[t] = fd
      BY <2>1 DEF ClientInv, Types
    <3>2. Len(had \o box) = Len(had) + Len(box) /\ Len(box) >= 1 /\ Len(box) \in Nat
          /\ Len(had) \in Nat /\ Len(rest) \in Nat
      BY <1>1, <1>3
    <3>3. Awaits(t)
      BY DEF RepliesInv
    <3>4. CASE pc[t] = "more"
      <4>1. /\ Len(had) \in {2, 3}
            /\ old.ended \/ Len(had) + (Len(box) + Len(rest)) = 4
        BY <1>6, <3>3, <3>4 DEF Awaits, had
      <4>2. Len(had \o box) = 3
        <5>1. Parse(had \o box) = "part" => Len(had \o box) = 2
          BY DEF Parse
        <5>2. Len(had \o box) >= 3 /\ Len(had \o box) \in Nat
          <6>1. \A a, b \in Nat : a \in {2, 3} /\ b >= 1 => a + b >= 3 /\ a + b \in Nat
            OBVIOUS
          <6>2. Len(had) \in {2, 3}
            BY <4>1
          <6> QED BY <3>2, <6>1, <6>2
        <5>3. Len(had \o box) < 4
          BY <2>1, <5>1, <5>2
        <5> QED BY <5>2, <5>3
      <4>3. sockets'[fd].ended \/ Len(had \o box) + Len(rest) = 4
        BY <1>4, <3>2, <4>1, <4>2
      <4> QED BY <1>5, <3>1, <4>2, <4>3 DEF Awaits
    <3>5. CASE pc[t] = "read"
      <4>1. had = <<>>
        BY <3>5 DEF ClientInv, Holding, had
      <4>2. had \o box = box /\ Parse(box) = "part"
        BY <1>3, <2>1, <3>5, <4>1, ConcatEmptySeq
      <4>3. Len(box) = 2 /\ 1 \in DOMAIN box /\ box[1].k = 1
        BY <1>3, <4>2, ParsedStarts DEF Parse
      <4>4. ~old.ended => Len(box) + Len(rest) = 4
        BY <1>2, <1>3, <1>6, <4>3, WholeLength DEF RepliesInv, RepliesWhole
      <4> QED BY <1>4, <1>5, <3>1, <4>2, <4>3, <4>4 DEF Awaits
    <3> QED BY <1>1, <3>4, <3>5
  <2>2. CASE pc'[t] \in {"connect", "idle", "failed"}
    BY <2>2 DEF Awaits
  <2> QED BY <1>8, <2>1, <2>2
<1>12. \A u \in Threads : Awaits(u)'
  BY <1>10, <1>11 DEF Awaits, Attending
<1>13. Numbered'
  BY <1>1, <1>9 DEF RepliesInv, Numbered, Threads
<1> QED BY <1>7, <1>12, <1>13 DEF RepliesInv

\* On a connection that is cut something always comes, until the peer dies.
LEMMA WriteCutReplies ==
  ASSUME ClientInv, RepliesInv, NEW t \in Threads, WriteCut(t)
  PROVE  RepliesInv'
<1>1. /\ pc[t] = "pick" /\ pc' = [pc EXCEPT ![t] = "read"] /\ UNCHANGED <<got, calls, sockets>>
  BY DEF WriteCut
<1>2. PICK fd \in Cache(t) : sockets[fd].cut /\ held' = [held EXCEPT ![t] = fd]
  BY DEF WriteCut
<1>3. /\ pc'[t] = "read" /\ held'[t] = fd
      /\ \A u \in Threads : u # t => pc'[u] = pc[u]
  BY <1>1, <1>2 DEF ClientInv, Types
<1>4. \A u \in Threads : u # t => pc'[u] \notin Attending
  BY <1>1, <1>3, InBodyAlone DEF ClientInv, Using, Attending
<1>5. \A u \in Threads : Awaits(u)'
  BY <1>1, <1>2, <1>3, <1>4 DEF Awaits, Attending
<1>6. RepliesWhole' /\ Numbered'
  BY <1>1, <1>3 DEF RepliesInv, RepliesWhole, Numbered, Threads
<1> QED BY <1>5, <1>6 DEF RepliesInv

LEMMA ReadCutReplies ==
  ASSUME ClientInv, RepliesInv, NEW t \in Threads, ReadCut(t)
  PROVE  RepliesInv'
<1>1. /\ pc[t] = "read" /\ sockets[held[t]].cut /\ UNCHANGED <<sockets, calls>>
      /\ \A u \in Threads : u # t => pc'[u] = pc[u]
  <2>1. /\ pc[t] = "read" /\ sockets[held[t]].cut
        /\ UNCHANGED <<tableVars, calls, phase, sockets, netVars, historyVars>>
    BY DEF ReadCut
  <2>2. \E w : pc' = [pc EXCEPT ![t] = w]
    BY DEF ReadCut, Finish
  <2>3. \A u \in Threads : u # t => pc'[u] = pc[u]
    BY <2>2 DEF ClientInv, Types
  <2> QED BY <2>1, <2>3
<1>2. \/ pc'[t] \notin Attending
      \/ pc'[t] = "spin" /\ sockets[held[t]].ended /\ UNCHANGED held
  <2>1. t \in DOMAIN pc
    BY DEF ClientInv, Types
  <2>2. \/ pc' = [pc EXCEPT ![t] = "connect"] \/ pc' = [pc EXCEPT ![t] = "idle"]
        \/ pc' = [pc EXCEPT ![t] = "failed"] \/ pc' = [pc EXCEPT ![t] = "none"]
        \/ /\ pc' = [pc EXCEPT ![t] = "spin"]
           /\ sockets[held[t]].ended /\ UNCHANGED held
    BY DEF ReadCut, Finish
  <2> QED BY <2>1, <2>2 DEF Attending
<1>3. \A u \in Threads : u # t => pc'[u] \notin Attending
  BY <1>1, InBodyAlone, HeldIsOpen DEF ClientInv, Holding, Using, Attending
<1>4. \A u \in Threads : Awaits(u)'
  BY <1>1, <1>2, <1>3 DEF Awaits, Attending
<1>5. RepliesWhole' /\ Numbered'
  BY <1>1 DEF RepliesInv, RepliesWhole, Numbered, Threads
<1> QED BY <1>4, <1>5 DEF RepliesInv

LEMMA ServeCutReplies ==
  ASSUME ClientInv, RepliesInv, NEW fd \in DOMAIN sockets, ServeCut(fd)
  PROVE  RepliesInv'
<1>1. /\ UNCHANGED <<held, got, calls, pc>> /\ sockets[fd].request # NoRequest
      /\ sockets' = [sockets EXCEPT ![fd] = [sockets[fd] EXCEPT
           !.cut = TRUE, !.request = NoRequest, !.coming = <<>>, !.inbox = <<>>]]
  BY DEF ServeCut, callVars, ClientInv, Types
<1>2. /\ sockets'[fd].inbox = <<>> /\ sockets'[fd].coming = <<>> /\ sockets'[fd].cut
      /\ sockets'[fd].ended = sockets[fd].ended /\ DOMAIN sockets' = DOMAIN sockets
      /\ \A fe \in DOMAIN sockets : fe # fd => sockets'[fe] = sockets[fe]
  BY <1>1 DEF ClientInv, Types, Sockets
<1>3. PICK t \in Threads : /\ held[t] = fd /\ held[t] # 0 /\ got[t] = <<>>
                           /\ \A u \in Threads : held[u] # 0 => u = t
  BY <1>1, RequestHeld
<1>4. ASSUME NEW u \in Threads PROVE Awaits(u)'
  <2>1. Awaits(u)
    BY DEF RepliesInv
  <2>2. CASE u = t
    <3>1. pc[u] # "more"
      BY <1>3, <2>2 DEF ClientInv, Holding
    <3> QED BY <1>1, <1>2, <1>3, <2>1, <2>2, <3>1 DEF Awaits
  <2>3. CASE u # t
    <3>1. pc[u] \notin Attending
      BY <1>3, <2>3 DEF ClientInv, Holding, Using, Attending
    <3> QED BY <1>1, <3>1 DEF Awaits, Attending
  <2> QED BY <2>2, <2>3
<1>5. RepliesWhole'
  <2>1. Stream(sockets'[fd]) = <<>>
    BY <1>2 DEF Stream
  <2>2. Whole(Stream(sockets'[fd]))
    BY <2>1 DEF Whole
  <2> QED BY <1>2, <2>2 DEF RepliesInv, RepliesWhole
<1>6. Numbered'
  BY <1>1 DEF RepliesInv, Numbered
<1> QED BY <1>4, <1>5, <1>6 DEF RepliesInv

LEMMA RepliesStep == ClientInv /\ RepliesInv /\ [Next]_vars => RepliesInv'
<1> SUFFICES ASSUME ClientInv, RepliesInv, [Next]_vars PROVE RepliesInv'
  OBVIOUS
<1>1. CASE Refreshing
  BY <1>1, OthersReplies, ConnectOneReplies DEF Refreshing
<1>2. CASE WakeUp \/ UNCHANGED vars
  BY <1>2, OthersReplies
<1>3. ASSUME NEW t \in Callers, Call(t) PROVE RepliesInv'
  BY <1>3, CallReplies
<1>4. ASSUME NEW t \in Threads, LockRpc(t) \/ Run(t) PROVE RepliesInv'
  BY <1>4, OthersReplies, WriteReplies, WriteCutReplies, ReadReplies, ReadCutReplies,
     ReadEndReplies, DropReplies DEF Run
<1>5. CASE Network
  BY <1>5, OthersReplies, ServeReplies, ServeCutReplies, DeliverReplies DEF Network
<1>6. ASSUME NEW a \in Addresses, Crash(a) \/ Restart(a) PROVE RepliesInv'
  BY <1>6, OthersReplies, CrashReplies
<1> QED BY <1>1, <1>2, <1>3, <1>4, <1>5, <1>6 DEF Next

\* A thread in remoteCall has a step to take, or the peer or the network does it for
\* it: it has something to read, something comes, its request was not executed yet,
\* the stream has ended, or the connection is cut, where every piece is answered.
GoesOn(t) ==
  \/ pc[t] \in {"pick", "failed"}
  \/ /\ pc[t] \in {"read", "more"}
     /\ LET s == sockets[held[t]]
        IN  s.inbox # <<>> \/ s.coming # <<>> \/ s.request # NoRequest \/ s.ended \/ s.cut

\* What a thread that spins had read of its reply: two or three of the four segments,
\* or something from a connection that is cut.
SpinsOn(t) == /\ pc[t] = "spin" /\ sockets[held[t]].ended
              /\ sockets[held[t]].cut \/ Len(got[t]) \in {2, 3}

\* The owner of rpcMutex, for whom the others wait, goes on, unless its peer died
\* after it had read a part of a reply.
OwnerGoesOn == \A t \in rpcMutex : GoesOn(t) \/ SpinsOn(t)

\* No thread in remoteCall waits for a reply that will not come, whatever was cut,
\* dropped or left on the connections: the safety core of CallsEnd.
THEOREM RepliesAwaited == Spec => []OwnerGoesOn
<1>1. Init => RepliesInv
  <2> SUFFICES ASSUME Init PROVE RepliesInv
    OBVIOUS
  <2>1. \A t \in Threads : pc[t] \in {"connect", "idle"}
    BY DEF Init
  <2>2. \A t \in Callers : pc[t] = "idle"
    BY ClientAssumption DEF Init, Threads, Refresh
  <2> QED BY <2>1, <2>2 DEF Init, RepliesInv, RepliesWhole, Awaits, Numbered
<1>2. ClientInv /\ RepliesInv => OwnerGoesOn
  <2> SUFFICES ASSUME ClientInv, RepliesInv, NEW t \in rpcMutex
               PROVE  GoesOn(t) \/ SpinsOn(t)
    BY DEF OwnerGoesOn
  <2>1. t \in Threads /\ pc[t] \in Using \cup {"pick"} /\ Awaits(t)
    BY DEF ClientInv, Types, Holding, RepliesInv
  <2>2. CASE pc[t] \in {"pick", "failed", "spin"}
    BY <2>1, <2>2 DEF GoesOn, SpinsOn, Awaits
  <2>3. CASE pc[t] \in {"read", "more"}
    <3> DEFINE s == sockets[held[t]]
    <3>1. s \in Sockets /\ got[t] \in Seq(Segs)
      BY <2>1, <2>3, HeldIsOpen DEF ClientInv, Types, Holding, Using
    <3>2. s.inbox = <<>> /\ s.coming = <<>> => Stream(s) = <<>>
      BY DEF Stream
    <3>3. ~HeadIn(<<>>) /\ Len(<<>>) = 0
      BY DEF HeadIn
    <3> HIDE DEF s
    <3>4. pc[t] = "read" => s.ended \/ s.cut \/ s.request # NoRequest \/ HeadIn(Stream(s))
      BY <2>1 DEF Awaits, s
    <3>5. pc[t] = "more" => s.ended \/ Stream(s) # <<>>
      <4>1. pc[t] = "more" => /\ Len(got[t]) \in {2, 3}
                              /\ s.ended \/ Len(got[t]) + Len(Stream(s)) = 4
        BY <2>1 DEF Awaits, s
      <4>2. ASSUME pc[t] = "more", ~s.ended, Stream(s) = <<>> PROVE FALSE
        <5>1. Len(got[t]) \in {2, 3} /\ Len(got[t]) + 0 = 4
          BY <3>3, <4>1, <4>2
        <5> QED BY <5>1
      <4> QED BY <4>2
    <3>6. s.inbox # <<>> \/ s.coming # <<>> \/ s.request # NoRequest \/ s.ended \/ s.cut
      BY <2>3, <3>2, <3>3, <3>4, <3>5
    <3> QED BY <2>3, <3>6 DEF GoesOn, s
  <2> QED BY <2>1, <2>2, <2>3 DEF Using
<1>3. ClientInv /\ RepliesInv /\ [Next]_vars => RepliesInv'
  BY RepliesStep
<1> QED BY <1>1, <1>2, <1>3, ClientAlways, PTL DEF Spec

\* Connections on which a call can still be tried: those in its cache, and those the
\* refresh thread has still to make, which needs rpcMutex to learn of more.
AttemptsLeft(t) == Cardinality(Cache(t)) + Cardinality(toConnect)

\* While a thread owns rpcMutex its attempts run out: nothing adds to them, and each
\* failure takes one away.
AttemptsRunOut ==
  [][\A t \in Threads : t \in rpcMutex /\ t \in rpcMutex' =>
       /\ AttemptsLeft(t)' <= AttemptsLeft(t)
       /\ Drop(t) => AttemptsLeft(t)' < AttemptsLeft(t)]_vars

LEMMA FdsFinite ==
  ASSUME Types
  PROVE  /\ IsFiniteSet(fdCache) /\ IsFiniteSet(serviceFdCache) /\ IsFiniteSet(toConnect)
         /\ \A t \in Threads : /\ IsFiniteSet(Cache(t))
                               /\ Cardinality(Cache(t)) \in Nat
                               /\ Cardinality(toConnect) \in Nat
<1>1. IsFiniteSet(Addresses)
  BY ClientAssumption, FS_Union DEF Addresses
<1>2. IsFiniteSet(Fds)
  <2>1. Cardinality(Addresses) \in Nat
    BY <1>1, FS_CardinalityType
  <2> QED BY <2>1, FS_Interval DEF Fds
<1>3. IsFiniteSet(fdCache) /\ IsFiniteSet(serviceFdCache) /\ IsFiniteSet(toConnect)
  BY <1>1, <1>2, FS_Subset DEF Types
<1>4. \A t \in Threads : IsFiniteSet(Cache(t))
  BY <1>3 DEF Cache
<1> QED BY <1>3, <1>4, FS_CardinalityType

LEMMA DropUsesOne ==
  ASSUME ClientInv, NEW t \in Threads, Drop(t)
  PROVE  AttemptsLeft(t)' < AttemptsLeft(t) /\ AttemptsLeft(t)' <= AttemptsLeft(t)
<1>1. pc[t] = "failed" /\ UNCHANGED toConnect
  BY DEF Drop, refreshVars
<1>2. held[t] \in Cache(t)
  BY <1>1 DEF ClientInv, Holding, Using
<1>3. Cache(t)' = Cache(t) \ {held[t]}
  BY DEF Drop, Cache
<1>4. /\ IsFiniteSet(Cache(t)) /\ Cardinality(Cache(t)) \in Nat /\ Cardinality(toConnect) \in Nat
  BY FdsFinite DEF ClientInv
<1>5. Cardinality(Cache(t) \ {held[t]}) = Cardinality(Cache(t)) - 1
  BY <1>2, <1>4, FS_RemoveElement
<1>6. /\ AttemptsLeft(t)' = Cardinality(Cache(t)') + Cardinality(toConnect')
      /\ Cardinality(Cache(t)') = Cardinality(Cache(t)) - 1
      /\ Cardinality(toConnect') = Cardinality(toConnect)
  BY <1>1, <1>3, <1>5 DEF AttemptsLeft
<1> QED BY <1>4, <1>6 DEF AttemptsLeft

LEMMA ConnectOneMoves ==
  ASSUME ClientInv, NEW t \in Threads, NEW a \in Addresses, ConnectOne(a)
  PROVE  AttemptsLeft(t)' <= AttemptsLeft(t)
<1>1. a \in toConnect /\ toConnect' = toConnect \ {a}
  BY DEF ConnectOne
<1>2. Cache(t)' \in {Cache(t), Cache(t) \cup {NewFd}}
  BY DEF ConnectOne, Cache, tableVars
<1>3. /\ IsFiniteSet(Cache(t)) /\ Cardinality(Cache(t)) \in Nat
      /\ IsFiniteSet(toConnect) /\ Cardinality(toConnect) \in Nat
  BY FdsFinite DEF ClientInv
<1>4. Cardinality(toConnect') = Cardinality(toConnect) - 1
  BY <1>1, <1>3, FS_RemoveElement
<1>5. /\ Cardinality(Cache(t)') \in Nat
      /\ Cardinality(Cache(t)') <= Cardinality(Cache(t)) + 1
  <2>1. CASE Cache(t)' = Cache(t)
    BY <1>3, <2>1
  <2>2. CASE Cache(t)' = Cache(t) \cup {NewFd}
    <3>1. Cardinality(Cache(t) \cup {NewFd}) =
            IF NewFd \in Cache(t) THEN Cardinality(Cache(t)) ELSE Cardinality(Cache(t)) + 1
      BY <1>3, FS_AddElement
    <3> QED BY <1>3, <2>2, <3>1
  <2> QED BY <1>2, <2>1, <2>2
<1>6. AttemptsLeft(t)' = Cardinality(Cache(t)') + Cardinality(toConnect')
  BY DEF AttemptsLeft
<1> QED BY <1>3, <1>4, <1>5, <1>6 DEF AttemptsLeft

\* A call is tried no more often than there are connections, made or about to be;
\* with RepliesAwaited it ends, or waits with one whose peer died.
THEOREM AttemptsAreBounded == Spec => AttemptsRunOut
<1>1. ASSUME ClientInv, [Next]_vars, NEW t \in Threads, t \in rpcMutex, t \in rpcMutex'
      PROVE  AttemptsLeft(t)' <= AttemptsLeft(t)
  <2>1. CASE UNCHANGED <<fdCache, serviceFdCache, toConnect>>
    <3>1. AttemptsLeft(t)' = AttemptsLeft(t)
      BY <2>1 DEF AttemptsLeft, Cache
    <3>2. AttemptsLeft(t) \in Nat
      BY <1>1, FdsFinite DEF ClientInv, AttemptsLeft
    <3> QED BY <3>1, <3>2
  <2>2. CASE ConnectEnd \/ WakeUp \/ Network \/ UNCHANGED vars
    BY <2>1, <2>2 DEF ConnectEnd, WakeUp, Network, Serve, ServeCut, Deliver, ServeLate, vars,
                   tableVars, refreshVars
  <2>3. ASSUME NEW a \in Addresses, ConnectOne(a) \/ Crash(a) \/ Restart(a)
        PROVE  AttemptsLeft(t)' <= AttemptsLeft(t)
    <3>1. CASE Crash(a) \/ Restart(a)
      BY <2>1, <3>1 DEF Crash, Restart, tableVars, refreshVars
    <3> QED BY <1>1, <2>3, <3>1, ConnectOneMoves
  <2>4. ASSUME NEW u \in Callers, Call(u) PROVE AttemptsLeft(t)' <= AttemptsLeft(t)
    BY <2>1, <2>4 DEF Call, tableVars, refreshVars
  <2>5. ASSUME NEW u \in Threads, LockRpc(u) \/ Run(u)
        PROVE  AttemptsLeft(t)' <= AttemptsLeft(t)
    <3>1. CASE LockRpc(u) \/ Write(u) \/ WriteCut(u) \/ ReadEnd(u) \/ Throw(u)
      BY <2>1, <3>1 DEF LockRpc, Write, WriteCut, ReadEnd, Throw, tableVars, refreshVars
    <3>2. CASE Read(u)
      BY <1>1, <2>1, <3>2 DEF Read, Finish, tableVars
    <3>4. CASE ReadCut(u)
      BY <1>1, <2>1, <3>4, ReadCutEnds DEF tableVars
    <3>3. CASE Drop(u)
      <4>1. u \in rpcMutex
        BY <1>1, <3>3 DEF Drop, ClientInv, Holding, Using
      <4>2. u = t
        BY <1>1, <4>1 DEF ClientInv, Holding
      <4> QED BY <1>1, <3>3, <4>2, DropUsesOne
    <3> QED BY <2>5, <3>1, <3>2, <3>3, <3>4 DEF Run
  <2> QED BY <1>1, <2>2, <2>3, <2>4, <2>5 DEF Next, Refreshing
<1>2. ClientInv /\ [Next]_vars =>
        [\A t \in Threads : t \in rpcMutex /\ t \in rpcMutex' =>
           /\ AttemptsLeft(t)' <= AttemptsLeft(t)
           /\ Drop(t) => AttemptsLeft(t)' < AttemptsLeft(t)]_vars
  BY <1>1, DropUsesOne
<1> QED BY <1>2, ClientAlways, PTL DEF Spec, AttemptsRunOut

=============================================================================
