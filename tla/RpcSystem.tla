------------------------------ MODULE RpcSystem ------------------------------
(***************************************************************************)
(* The system put together: clients, the balancer and the providers of two *)
(* services, for who waits for whom.  Clients call the service of Fronts,  *)
(* whose handlers may call the service of Backs.  What the other modules   *)
(* show of each part is taken here as one step: a process handles one      *)
(* request at a time, in order (ThreadPool, RpcServer), a caller waits for *)
(* its answer without a timeout and loses it only with the connection      *)
(* (RpcClient), and the balancer handles requestService by calling a       *)
(* provider itself (Balancer).                                             *)
(*                                                                         *)
(* A provider that starts listens first, then registers with the balancer  *)
(* and waits for the answer, and only then accepts: meanwhile the kernel   *)
(* takes connections and requests for it.                                  *)
(***************************************************************************)
EXTENDS Integers, Sequences, FiniteSets

CONSTANTS
  Clients,    \* threads that call the service of Fronts
  Balancer,   \* the balancer's process
  Fronts,     \* the providers of the service that clients call
  Backs,      \* the providers of the service that Fronts call
  Mode,       \* how each client and each front calls: rpcClient's type, or
              \* "none" for a front whose handler calls nobody
  MaxCrashes, \* crashes of providers: bounds the model
  None,       \* nobody, nothing
  Gone        \* one who died in the middle of an answer, to who reads it

Providers == Fronts \cup Backs
Processes == Providers \cup {Balancer}

\* The refresh thread of the rpcClient that a front's handler uses.
Refresher(f) == <<"refresh", f>>
Refreshers == {Refresher(f) : f \in {f \in Fronts : Mode[f] = "CLIENT"}}
Actors == Clients \cup Processes \cup Refreshers

\* The requests of processes that died: who sent it, and what it asks of the
\* balancer.  A request that an actor awaits is known by the actor.
Orphans == {"gone"} \X (Providers \cup Refreshers)
                    \X {"insertService", "getService", "requestService"}

ASSUME SystemAssumption ==
  /\ Mode \in [Clients \cup Fronts -> {"SERVER", "CLIENT", "none"}]
  /\ \A c \in Clients : Mode[c] # "none"
  /\ Balancer \notin Providers \cup Clients
  /\ Fronts \cap Backs = {} /\ Providers \cap Clients = {}
  /\ None # Gone /\ {None, Gone} \cap Actors = {}
  /\ Orphans \cap (Actors \cup {None}) = {}
  /\ \A f \in Fronts : Refresher(f) \notin Clients \cup Processes \cup {None, Gone}
  /\ MaxCrashes \in Nat

VARIABLES
  status,    \* each provider: "down", "registering" or "serving"
  table,     \* the providers that the balancer lists
  listed,    \* those it has listed at any time: whoever asked then may know them
  inbox,     \* the requests that each process has not begun, oldest first
  current,   \* whose request its pool executes
  step,      \* where that handler stands: "start" or "called"
  asked,     \* for each actor, the process whose answer it awaits, or Gone
  rpcMutex,  \* who owns the mutex of a front's rpcClient
  crashes    \* crashes so far

vars == <<status, table, listed, inbox, current, step, asked, rpcMutex, crashes>>

Init ==
  /\ status = [p \in Providers |-> "down"]
  /\ table = {}
  /\ listed = {}
  /\ inbox = [p \in Processes |-> <<>>]
  /\ current = [p \in Processes |-> None]
  /\ step = [p \in Processes |-> "start"]
  /\ asked = [a \in Actors |-> None]
  /\ rpcMutex = [f \in Fronts |-> None]
  /\ crashes = 0

-----------------------------------------------------------------------------
\* a sends a request to p and waits.
Ask(a, p) ==
  /\ asked' = [asked EXCEPT ![a] = p]
  /\ inbox' = [inbox EXCEPT ![p] = Append(@, a)]

\* A mistake (see ThreadPool): the server replaces the future of a handler whose
\* answer it has not sent.
DropReply(p) ==
  /\ current' = [current EXCEPT ![p] = None]
  /\ UNCHANGED asked

\* The handler of p returns: its caller has the answer.
Reply(p) ==
  /\ asked' = [a \in Actors |-> IF a = current[p] THEN None ELSE asked[a]]
  /\ current' = [current EXCEPT ![p] = None]

\* The service that a calls.
Service(a) == IF a \in Fronts THEN Backs ELSE Fronts

Up == {p \in Providers : status[p] # "down"}

\* Where a sends a call: to the balancer, or to a provider it can be connected
\* to.  It learnt of it from getService at some time, and a provider that
\* listens can be connected to before it accepts.
Targets(a) == IF Mode[a] = "SERVER" THEN {Balancer} ELSE Service(a) \cap listed \cap Up

\* What a asks of the balancer.
Asks(a) ==
  CASE a \in Refreshers -> "getService"
    [] a \in Providers /\ status[a] = "registering" -> "insertService"
    [] OTHER -> "requestService"

\* Who sent a request, and what the balancer is asked with it.
Orphan(a) == <<"gone", a, Asks(a)>>
Sender(r) == IF r \in Orphans THEN r[2] ELSE r
Content(r) == IF r \in Orphans THEN r[3] ELSE Asks(r)

\* p's handler has come to its end: it calls nobody or nobody is there to call,
\* or its call has ended.
Returns(p) ==
  /\ current[p] # None
  /\ \/ /\ step[p] = "start"
        /\ \/ p \in Backs
           \/ p \in Fronts /\ Mode[p] = "none"
           \/ p \in Fronts /\ rpcMutex[p] = None /\ Targets(p) = {}
     \/ step[p] = "called" /\ asked[p] = None

-----------------------------------------------------------------------------
(***************************************************************************)
(* Mistakes (see ThreadPool).                                              *)
(***************************************************************************)
\* A handler calls its own service.
CallOwnService(f) ==
  /\ current[f] # None /\ step[f] = "start" /\ Mode[f] # "none"
  /\ rpcMutex[f] = None
  /\ rpcMutex' = [rpcMutex EXCEPT ![f] = f]
  /\ step' = [step EXCEPT ![f] = "called"]
  /\ \E p \in IF Mode[f] = "SERVER" THEN {Balancer} ELSE Fronts \cap listed \cap Up : Ask(f, p)
  /\ UNCHANGED <<status, table, listed, current, crashes>>

\* A provider that cannot be reached stays in the table.
KeepUnreachable ==
  /\ current[Balancer] # None /\ step[Balancer] = "start"
  /\ Content(current[Balancer]) = "requestService"
  /\ \E p \in table \cap Service(Sender(current[Balancer])) :
       IF p \in Up
       THEN Ask(Balancer, p) /\ step' = [step EXCEPT ![Balancer] = "called"]
       ELSE UNCHANGED <<asked, inbox, step>>
  /\ UNCHANGED <<status, table, listed, current, rpcMutex, crashes>>

-----------------------------------------------------------------------------
(***************************************************************************)
(* Callers.                                                                *)
(***************************************************************************)

\* A client calls: through the balancer, or a provider it is connected to.
Call(c) ==
  /\ asked[c] = None
  /\ \E p \in Targets(c) : Ask(c, p)
  /\ UNCHANGED <<status, table, listed, current, step, rpcMutex, crashes>>

\* The refresh thread takes rpcMutex and asks for the list of providers.
Refresh(f) ==
  /\ Mode[f] = "CLIENT" /\ status[f] = "serving" /\ rpcMutex[f] = None
  /\ rpcMutex' = [rpcMutex EXCEPT ![f] = Refresher(f)]
  /\ Ask(Refresher(f), Balancer)
  /\ UNCHANGED <<status, table, listed, current, step, crashes>>

RefreshEnd(f) ==
  /\ rpcMutex[f] = Refresher(f) /\ asked[Refresher(f)] = None
  /\ rpcMutex' = [rpcMutex EXCEPT ![f] = None]
  /\ UNCHANGED <<status, table, listed, inbox, current, step, asked, crashes>>

-----------------------------------------------------------------------------
(***************************************************************************)
(* Processes.                                                              *)
(***************************************************************************)

\* The pool takes the next request; a provider accepts none before it serves.
Begin(p) ==
  /\ p = Balancer \/ (p \in Providers /\ status[p] = "serving")
  /\ current[p] = None /\ inbox[p] # <<>>
  /\ current' = [current EXCEPT ![p] = Head(inbox[p])]
  /\ inbox' = [inbox EXCEPT ![p] = Tail(@)]
  /\ step' = [step EXCEPT ![p] = "start"]
  /\ UNCHANGED <<status, table, listed, asked, rpcMutex, crashes>>

\* A front's handler makes its own call, with the mutex of its rpcClient.
NestedCall(f) ==
  /\ current[f] # None /\ step[f] = "start" /\ Mode[f] # "none"
  /\ rpcMutex[f] = None
  /\ rpcMutex' = [rpcMutex EXCEPT ![f] = f]
  /\ step' = [step EXCEPT ![f] = "called"]
  /\ \E p \in Targets(f) : Ask(f, p)
  /\ UNCHANGED <<status, table, listed, current, crashes>>

\* A provider's handler returns, and its caller takes the answer.
Finish(p) ==
  /\ Returns(p)
  /\ rpcMutex' = [f \in Fronts |-> IF f = p /\ step[p] = "called" THEN None ELSE rpcMutex[f]]
  /\ Reply(p)
  /\ UNCHANGED <<status, table, listed, inbox, step, crashes>>

\* insertService and getService, of processes that have died too.
Answer ==
  /\ current[Balancer] # None /\ step[Balancer] = "start"
  /\ Content(current[Balancer]) # "requestService"
  /\ table' = table \cup (Providers \cap {Sender(current[Balancer])})
  /\ Reply(Balancer)
  /\ listed' = listed \cup table'
  /\ UNCHANGED <<status, inbox, step, rpcMutex, crashes>>

\* balanceCall: a provider of the table is called, or erased when it cannot be
\* reached; another one is tried then.
Forward ==
  /\ current[Balancer] # None /\ step[Balancer] = "start"
  /\ Content(current[Balancer]) = "requestService"
  /\ \E p \in table \cap Service(Sender(current[Balancer])) :
       IF p \in Up
       THEN /\ Ask(Balancer, p)
            /\ step' = [step EXCEPT ![Balancer] = "called"]
            /\ UNCHANGED table
       ELSE /\ table' = table \ {p}
            /\ UNCHANGED <<asked, inbox, step>>
  /\ UNCHANGED <<status, listed, current, rpcMutex, crashes>>

\* balanceCall returns the provider's answer, or {} when the table has none.
ForwardEnd ==
  /\ current[Balancer] # None
  /\ \/ step[Balancer] = "called" /\ asked[Balancer] = None
     \/ /\ step[Balancer] = "start" /\ Content(current[Balancer]) = "requestService"
        /\ table \cap Service(Sender(current[Balancer])) = {}
  /\ Reply(Balancer)
  /\ UNCHANGED <<status, table, listed, inbox, step, rpcMutex, crashes>>

-----------------------------------------------------------------------------
(***************************************************************************)
(* Providers start and die.                                                *)
(***************************************************************************)

\* listen, then registService.
Start(p) ==
  /\ status[p] = "down"
  /\ status' = [status EXCEPT ![p] = "registering"]
  /\ Ask(p, Balancer)
  /\ UNCHANGED <<table, listed, current, step, rpcMutex, crashes>>

\* registService has returned: the loop that accepts begins.
Accept(p) ==
  /\ status[p] = "registering" /\ asked[p] = None
  /\ status' = [status EXCEPT ![p] = "serving"]
  /\ UNCHANGED <<table, listed, inbox, current, step, asked, rpcMutex, crashes>>

\* The process dies with its threads, and so do its connections.  Who awaits its
\* answer sees an error (the balancer picks again); but one who has read a part
\* of the answer reads the rest for ever (rpcClient.cpp:119).  Requests that the
\* process has sent stay where they are: a server reads what came before the
\* end of a connection.
Crash(p) ==
  LET dead == {p} \cup (Refreshers \cap {Refresher(p)})
      Left(r) == IF r \in dead THEN Orphan(r) ELSE r
  IN
  /\ p \in Up /\ crashes < MaxCrashes
  /\ crashes' = crashes + 1
  /\ status' = [status EXCEPT ![p] = "down"]
  /\ \E reading \in SUBSET {a \in Actors : current[p] = a /\ Returns(p)} :
       /\ asked' = [a \in Actors |->
                      IF a \in dead THEN None
                      ELSE IF asked[a] = p THEN IF a \in reading THEN Gone ELSE None
                      ELSE asked[a]]
       /\ step' = IF asked[Balancer] = p /\ Balancer \notin reading
                  THEN [step EXCEPT ![Balancer] = "start"] ELSE step
  /\ inbox' = [q \in Processes |->
                 IF q = p THEN <<>> ELSE [i \in DOMAIN inbox[q] |-> Left(inbox[q][i])]]
  /\ current' = [q \in Processes |-> IF q = p THEN None ELSE Left(current[q])]
  /\ rpcMutex' = [f \in Fronts |-> IF f = p THEN None ELSE rpcMutex[f]]
  /\ UNCHANGED <<table, listed>>

-----------------------------------------------------------------------------
Handler(p) == Begin(p) \/ (p \in Providers /\ Finish(p))
Balancing == Answer \/ Forward \/ ForwardEnd

Next ==
  \/ \E c \in Clients : Call(c)
  \/ \E f \in Fronts : Refresh(f) \/ RefreshEnd(f) \/ NestedCall(f)
  \/ \E p \in Processes : Handler(p)
  \/ Balancing
  \/ \E p \in Providers : Start(p) \/ Accept(p) \/ Crash(p)

Spec == Init /\ [][Next]_vars

(***************************************************************************)
(* Threads of processes that run keep being scheduled and handlers return  *)
(* once what they wait for has come.  A handler gets the mutex that the    *)
(* refresh thread takes every ten seconds (strong).  Nobody has to call,   *)
(* start, die or refresh.                                                  *)
(***************************************************************************)
Fairness ==
  /\ \A p \in Processes : WF_vars(Handler(p))
  /\ WF_vars(Balancing)
  /\ \A p \in Providers : WF_vars(Accept(p))
  /\ \A f \in Fronts : SF_vars(NestedCall(f) \/ Finish(f)) /\ WF_vars(RefreshEnd(f))

FairSpec == Spec /\ Fairness

-----------------------------------------------------------------------------
(***************************************************************************)
(* Properties.                                                             *)
(***************************************************************************)

\* Every variable has its type, and an actor awaits a process exactly when one
\* request of its own is there, waiting or under way, besides those of processes
\* that died before it: no answer goes to one who does not wait for it, and
\* nobody waits for a request that was forgotten.
TypeOK ==
  /\ status \in [Providers -> {"down", "registering", "serving"}]
  /\ table \subseteq listed /\ listed \subseteq Providers
  /\ inbox \in [Processes -> Seq(Actors \cup Orphans)]
  /\ current \in [Processes -> Actors \cup Orphans \cup {None}]
  /\ step \in [Processes -> {"start", "called"}]
  /\ asked \in [Actors -> Processes \cup {None, Gone}]
  /\ \A f \in Fronts : rpcMutex[f] \in {None, f} \cup ({Refresher(f)} \cap Refreshers)
  /\ crashes \in 0..MaxCrashes
  /\ \A p \in Processes, a \in Actors :
       LET waiting == {i \in 1..Len(inbox[p]) : inbox[p][i] = a}
       IN  Cardinality(waiting) + (IF current[p] = a THEN 1 ELSE 0) = IF asked[a] = p THEN 1 ELSE 0

\* The one that a cannot go on without: who it asked, or who holds its mutex.
\* Gone answers nobody.
WaitsFor(a) ==
  IF asked[a] # None THEN asked[a]
  ELSE IF a \in Fronts /\ current[a] # None /\ step[a] = "start" /\ Mode[a] # "none"
       THEN rpcMutex[a]
  ELSE None

\* Sets of actors of which each waits for another one: nobody in it ever goes
\* on, as no call has a timeout.
Deadlocks == {S \in SUBSET (Processes \cup Refreshers) : S # {} /\ \A a \in S : WaitsFor(a) \in S}

\* There are three ways to a deadlock, all with the balancer's handler waiting
\* for a provider (baseBalancer.cpp:37): one of those who wait is a provider that
\* registers again while others still know it (tcpServer.cpp:26-29); or its
\* handler itself calls through the balancer; or its handler waits for the mutex
\* of an rpcClient whose refresh thread waits for the balancer (rpcClient.cpp:33
\* and 85).  First registrations, nested calls of providers that call another
\* service directly, and crashes alone lead to none.
DeadlocksKnown ==
  \A S \in Deadlocks :
    /\ {Balancer, asked[Balancer]} \subseteq S
    /\ \E p \in S \cap Providers :
         \/ status[p] = "registering" /\ p \in listed
         \/ p \in Fronts /\ Mode[p] = "SERVER" /\ asked[p] = Balancer
         \/ p \in Fronts /\ rpcMutex[p] = Refresher(p)

\* A call ends, unless the system is in one of these deadlocks, or the caller or
\* a process reads for ever what is left of the answer of one that has died.
EveryCallEnds ==
  \A c \in Clients :
    asked[c] # None ~> \/ asked[c] = None
                       \/ Deadlocks # {}
                       \/ \E a \in {c} \cup Processes : asked[a] = Gone
=============================================================================
