------------------------------ MODULE RpcClient ------------------------------
(***************************************************************************)
(* rpcClient (rpc/rpcClient.cpp, include/rpcClient.h): a set of            *)
(* connections shared by the threads that call remoteCall and by the       *)
(* thread that refreshes the set.                                          *)
(*                                                                         *)
(* In CLIENT mode the client asks a balancer for the service's providers   *)
(* and calls them itself; in SERVER mode it sends each request to a        *)
(* balancer, wrapped in a requestService.  remoteCall runs under rpcMutex  *)
(* from the choice of a connection to the reply, and drops a connection    *)
(* whenever anything goes wrong on it.  connectOne and the drop are the    *)
(* critical sections of the other mutex: each is one action.               *)
(*                                                                         *)
(* A reply is four segments on a stream: the first bytes of the length,    *)
(* the rest of the header with a part of the body, the rest of the body,   *)
(* and the last CR LF.  The network delivers any number of them at once.   *)
(*                                                                         *)
(* Requests come in pieces, too.  The server puts one together again when  *)
(* its body was cut, and that is Serve.  A request cut in its header, or   *)
(* before its last CR LF, is answered with a failed more than it should be *)
(* (ServeCut), and from then on replies and calls on that connection are   *)
(* not matched: the connection is cut.                                     *)
(***************************************************************************)
EXTENDS Integers, Sequences, FiniteSets, FiniteSetsExt, Functions

CONSTANTS
  Callers,     \* threads that call remoteCall
  Balancers,   \* addresses of balancers (config::hosts)
  Providers,   \* addresses of the service's providers
  Mode,        \* "CLIENT" or "SERVER"
  MaxCalls,    \* calls of each caller: bounds the model
  MaxCrashes,  \* crashes of balancers and providers: bounds the model
  MaxCuts      \* requests cut outside their bodies: bounds the model

ASSUME ClientAssumption ==
  /\ Balancers \cap Providers = {}
  /\ IsFiniteSet(Balancers) /\ IsFiniteSet(Providers)
  /\ "refresh" \notin Callers
  /\ Mode \in {"CLIENT", "SERVER"}
  /\ MaxCalls \in Nat /\ MaxCrashes \in Nat /\ MaxCuts \in Nat

Refresh == "refresh"   \* the refresh thread; before that, the constructor
Threads == Callers \cup {Refresh}
Addresses == Balancers \cup Providers

\* At most one connection to an address: enough descriptors.
Fds == 1..Cardinality(Addresses)

VARIABLES
  connectedIpports,     \* the addresses that are connected
  connectedIpportsMap,  \* the address of each connected descriptor
  fdCache,              \* descriptors for calls
  serviceFdCache,       \* descriptors for getService
  rpcMutex,             \* {} or the thread that owns it
  pc, held, got,        \* per thread: place, descriptor used, reply so far
  wraps,                \* per thread: requestService wrappers round the request
  calls,                \* per caller: calls begun
  outcome,              \* per caller: what the last call gave
  toConnect,            \* addresses the refresh thread has still to connect
  phase,                \* "hosts", "providers" (in the constructor) or "built"
  status,               \* "up", "refused" (constructor threw) or "terminated"
  sockets,              \* external: the state of each open descriptor
  alive, crashes,       \* external: the processes that run; crashes so far
  cuts,                 \* external: requests cut outside their bodies so far
  executed, dropped,    \* history: for each caller's last call, how often it
                        \* was executed, and connections dropped during it
  late                  \* external: requests of that call a peer may still
                        \* execute although their connection was dropped

tableVars == <<connectedIpports, connectedIpportsMap, fdCache, serviceFdCache>>
callVars == <<held, got, wraps, calls, outcome>>
refreshVars == <<toConnect, phase, status>>
worldVars == <<alive, crashes, cuts>>
netVars == <<worldVars, executed>>
historyVars == <<dropped, late>>
vars == <<tableVars, rpcMutex, pc, callVars, refreshVars, sockets, netVars, historyVars>>

\* Segments of the replies to a call.
CallId(t) == <<t, IF t = Refresh THEN 0 ELSE calls[t]>>
Seg(id, wrapped, k) == [id |-> id, wrapped |-> wrapped, k |-> k]
ReplyTo(req) == [k \in 1..4 |-> Seg(req.id, req.wraps, k)]
NoRequest == [id |-> <<"none", 0>>, wraps |-> 0]

Init ==
  /\ connectedIpports = {}
  /\ connectedIpportsMap = <<>>
  /\ fdCache = {} /\ serviceFdCache = {}
  /\ rpcMutex = {}
  /\ pc = [t \in Threads |-> IF t = Refresh THEN "connect" ELSE "idle"]
  /\ held = [t \in Threads |-> 0]
  /\ got = [t \in Threads |-> <<>>]
  /\ wraps = [t \in Threads |-> 0]
  /\ calls = [t \in Callers |-> 0]
  /\ outcome = [t \in Callers |-> <<"none">>]
  /\ toConnect = Balancers
  /\ phase = "hosts"
  /\ status = "up"
  /\ sockets = <<>>
  /\ alive \in SUBSET Addresses
  /\ crashes = 0 /\ cuts = 0
  /\ executed = [t \in Callers |-> 0]
  /\ dropped = [t \in Callers |-> 0]
  /\ late = [t \in Callers |-> 0]

-----------------------------------------------------------------------------
(***************************************************************************)
(* rpcClient::connectOne, by the constructor and the refresh thread.       *)
(***************************************************************************)

\* The kernel gives out the lowest descriptor that is free.
NewFd == Min(Fds \ DOMAIN sockets)

\* The cache that connections made in this phase go to.
InServiceCache == Mode = "CLIENT" /\ phase = "hosts"

Extend(f, x, y) == [z \in DOMAIN f \cup {x} |-> IF z = x THEN y ELSE f[z]]

\* Mistake: an address that is connected already is connected again.
ConnectAgain(a) == a \in alive /\ DOMAIN sockets # Fds

\* if (connectedIpports.find(ipport)!=...) return true, and connect succeeds.
Connectable(a) == a \notin connectedIpports /\ a \in alive

ConnectOne(a) ==
  /\ pc[Refresh] = "connect"
  /\ a \in toConnect
  /\ toConnect' = toConnect \ {a}
  /\ \/ /\ ~Connectable(a)
        /\ UNCHANGED <<tableVars, sockets>>
     \/ /\ Connectable(a)
        /\ sockets' = Extend(sockets, NewFd,
             [addr |-> a, ended |-> FALSE, cut |-> FALSE,
              request |-> NoRequest, coming |-> <<>>, inbox |-> <<>>])
        /\ connectedIpportsMap' = Extend(connectedIpportsMap, NewFd, a)
        /\ connectedIpports' = connectedIpports \cup {a}
        /\ IF InServiceCache
           THEN serviceFdCache' = serviceFdCache \cup {NewFd} /\ UNCHANGED fdCache
           ELSE fdCache' = fdCache \cup {NewFd} /\ UNCHANGED serviceFdCache
  /\ UNCHANGED <<rpcMutex, pc, callVars, phase, status, netVars, historyVars>>

\* The loop over the addresses ends.  The constructor throws when it has no
\* connection for calls; in CLIENT mode it then starts the refresh thread.
ConnectEnd ==
  /\ pc[Refresh] = "connect" /\ toConnect = {}
  /\ \/ /\ InServiceCache
        /\ phase' = "providers"
        /\ pc' = [pc EXCEPT ![Refresh] = "lock"]
        /\ UNCHANGED status
     \/ /\ ~InServiceCache
        /\ status' = IF phase # "built" /\ fdCache = {} THEN "refused" ELSE status
        /\ phase' = "built"
        /\ pc' = [pc EXCEPT ![Refresh] = IF Mode = "CLIENT" THEN "sleep" ELSE "none"]
  /\ UNCHANGED <<tableVars, rpcMutex, callVars, toConnect, sockets, netVars, historyVars>>

-----------------------------------------------------------------------------
(***************************************************************************)
(* rpcClient::remoteCall.                                                  *)
(***************************************************************************)

Call(t) ==
  /\ pc[t] = "idle" /\ phase = "built"
  /\ calls[t] < MaxCalls
  /\ pc' = [pc EXCEPT ![t] = "lock"]
  /\ calls' = [calls EXCEPT ![t] = @ + 1]
  /\ outcome' = [outcome EXCEPT ![t] = <<"none">>]
  /\ executed' = [executed EXCEPT ![t] = 0]
  /\ dropped' = [dropped EXCEPT ![t] = 0]
  /\ late' = [late EXCEPT ![t] = 0]
  /\ UNCHANGED <<tableVars, rpcMutex, held, got, wraps, refreshVars, sockets, worldVars>>

\* refreshThread: ten seconds have passed.
WakeUp ==
  /\ pc[Refresh] = "sleep"
  /\ pc' = [pc EXCEPT ![Refresh] = "lock"]
  /\ UNCHANGED <<tableVars, rpcMutex, callVars, refreshVars, sockets, netVars, historyVars>>

\* Mistake: the lock does not keep others out.
LockRpcShared(t) ==
  /\ pc[t] = "lock"
  /\ rpcMutex' = rpcMutex \cup {t}
  /\ pc' = [pc EXCEPT ![t] = "pick"]
  /\ UNCHANGED <<tableVars, callVars, refreshVars, sockets, netVars, historyVars>>

LockRpc(t) ==
  /\ pc[t] = "lock" /\ rpcMutex = {}
  /\ rpcMutex' = {t}
  /\ pc' = [pc EXCEPT ![t] = "pick"]
  /\ UNCHANGED <<tableVars, callVars, refreshVars, sockets, netVars, historyVars>>

Cache(t) == IF t = Refresh THEN serviceFdCache ELSE fdCache

\* json=tmp: with a service name, every attempt wraps what the last one sent.
Wrap(t) == IF Mode = "SERVER" THEN wraps[t] + 1 ELSE 0

\* Choose a connection and write the request.
Write(t) ==
  /\ pc[t] = "pick"
  /\ \E fd \in Cache(t) :
       /\ sockets[fd].cut => sockets[fd].ended
       /\ held' = [held EXCEPT ![t] = fd]
       /\ wraps' = [wraps EXCEPT ![t] = Wrap(t)]
       /\ sockets' = IF sockets[fd].ended THEN sockets
            ELSE [sockets EXCEPT ![fd].request = [id |-> CallId(t), wraps |-> Wrap(t)]]
  /\ pc' = [pc EXCEPT ![t] = "read"]
  /\ UNCHANGED <<tableVars, rpcMutex, got, calls, outcome, refreshVars, netVars, historyVars>>

\* The same on a connection that is cut.  The server may find the request in one
\* piece with others and refuse them all, or execute it, whatever it answers.
WriteCut(t) ==
  /\ pc[t] = "pick"
  /\ \E fd \in Cache(t) :
       /\ sockets[fd].cut /\ ~sockets[fd].ended
       /\ held' = [held EXCEPT ![t] = fd]
  /\ wraps' = [wraps EXCEPT ![t] = Wrap(t)]
  /\ late' = IF t = Refresh THEN late ELSE [late EXCEPT ![t] = @ + 1]
  /\ pc' = [pc EXCEPT ![t] = "read"]
  /\ UNCHANGED <<tableVars, rpcMutex, got, calls, outcome, refreshVars, sockets, netVars, dropped>>

\* Mistake: the first bytes are not looked at.
ParseUnchecked(segs) ==
  IF Len(segs) < 2 THEN "throws" ELSE IF Len(segs) = 2 THEN "part" ELSE "whole"

\* What rpcParser::parse makes of the segments read: one reply from its start, or
\* an exception.  A reply that lacks only its CR LF is taken for whole.
Parse(segs) ==
  IF /\ Len(segs) >= 2
     /\ \A i \in 1..Len(segs) : segs[i] = Seg(segs[1].id, segs[1].wrapped, i)
  THEN IF Len(segs) = 2 THEN "part" ELSE "whole"
  ELSE "throws"

\* What a call gives: a provider does not know a request that was wrapped twice,
\* and the balancer answers with an empty object.
Answer(segs) == <<IF segs[1].wrapped > 1 THEN "empty" ELSE "answer", segs[1].id>>

\* remoteCall returns: a caller has its result; the refresh thread has the list.
Finish(t, result) ==
  /\ rpcMutex' = {}
  /\ held' = [held EXCEPT ![t] = 0]
  /\ got' = [got EXCEPT ![t] = <<>>]
  /\ wraps' = [wraps EXCEPT ![t] = 0]
  /\ IF t = Refresh
     THEN /\ \E list \in SUBSET Providers : toConnect' = list
          /\ pc' = [pc EXCEPT ![t] = "connect"]
          /\ UNCHANGED outcome
     ELSE /\ outcome' = [outcome EXCEPT ![t] = result]
          /\ pc' = [pc EXCEPT ![t] = "idle"]
          /\ UNCHANGED toConnect

\* read returns what has arrived.  "read" is the first one, "more" the loop for
\* the rest of a reply, which asks for the CR LF too.
Read(t) ==
  LET fd == held[t]
      now == got[t] \o sockets[fd].inbox
  IN  /\ pc[t] \in {"read", "more"}
      /\ sockets[fd].inbox # <<>>
      /\ sockets' = [sockets EXCEPT ![fd].inbox = <<>>]
      /\ \/ /\ Parse(now) = "part" \/ (pc[t] = "more" /\ Len(now) < 4)
            /\ pc' = [pc EXCEPT ![t] = "more"]
            /\ got' = [got EXCEPT ![t] = now]
            /\ UNCHANGED <<held, wraps, rpcMutex, outcome, toConnect>>
         \/ /\ Parse(now) = "whole" /\ (pc[t] = "more" => Len(now) >= 4)
            /\ Finish(t, Answer(now))
         \/ /\ Parse(now) = "throws" /\ (pc[t] = "more" => Len(now) >= 4)
            /\ pc' = [pc EXCEPT ![t] = "failed"]
            /\ UNCHANGED <<held, got, wraps, rpcMutex, outcome, toConnect>>
      /\ UNCHANGED <<tableVars, calls, phase, status, netVars, historyVars>>

\* A read from a connection that is cut.  There is always something to come, for
\* every piece of a request is answered; but it is the answer to an earlier call, a
\* failed, or the right answer, and two of them in one read are no reply.  A failed
\* is no list of providers: getRPC throws in the refresh thread.  The loop for the
\* rest of a reply is part of the step.
ReadCut(t) ==
  /\ pc[t] = "read" /\ sockets[held[t]].cut
  /\ \/ Finish(t, <<"unmatched">>) /\ UNCHANGED status
     \/ /\ \/ pc' = [pc EXCEPT ![t] = "failed"]
           \/ sockets[held[t]].ended /\ pc' = [pc EXCEPT ![t] = "spin"]
        /\ UNCHANGED <<held, got, wraps, rpcMutex, outcome, toConnect, status>>
     \/ /\ t = Refresh
        /\ rpcMutex' = {}
        /\ held' = [held EXCEPT ![t] = 0]
        /\ wraps' = [wraps EXCEPT ![t] = 0]
        /\ pc' = [pc EXCEPT ![t] = "none"]
        /\ status' = IF phase = "built" THEN "terminated" ELSE "refused"
        /\ UNCHANGED <<got, outcome, toConnect>>
  /\ UNCHANGED <<tableVars, calls, phase, sockets, netVars, historyVars>>

\* Mistake: the end of the stream is taken for an answer.
ReadEndAnswers(t) ==
  /\ pc[t] \in {"read", "more"}
  /\ sockets[held[t]].ended /\ sockets[held[t]].inbox = <<>>
  /\ Finish(t, <<"answer", CallId(t)>>)
  /\ UNCHANGED <<tableVars, calls, phase, status, sockets, netVars, historyVars>>

\* The stream has ended.  On the first read both 0 and -1 lead to an exception; in
\* the loop -1 does, and 0 adds nothing to "now", so that the loop never ends.
ReadEnd(t) ==
  /\ pc[t] \in {"read", "more"}
  /\ sockets[held[t]].ended /\ sockets[held[t]].inbox = <<>>
  /\ \/ pc' = [pc EXCEPT ![t] = "failed"]
     \/ pc[t] = "more" /\ pc' = [pc EXCEPT ![t] = "spin"]
  /\ UNCHANGED <<tableVars, rpcMutex, callVars, refreshVars, sockets, netVars, historyVars>>

\* Mistake: the descriptor stays in the cache.
DropKeepsCache(t) ==
  LET fd == held[t]
  IN  /\ pc[t] = "failed"
      /\ connectedIpports' = connectedIpports \ {connectedIpportsMap[fd]}
      /\ connectedIpportsMap' = Restrict(connectedIpportsMap, DOMAIN connectedIpportsMap \ {fd})
      /\ sockets' = Restrict(sockets, DOMAIN sockets \ {fd})
      /\ pc' = [pc EXCEPT ![t] = "pick"]
      /\ UNCHANGED <<fdCache, serviceFdCache, rpcMutex, callVars, refreshVars, netVars, historyVars>>

\* Mistake: the answer to a ping is believed, and the connection stays.
DropNothing(t) ==
  /\ pc[t] = "failed"
  /\ pc' = [pc EXCEPT ![t] = "pick"]
  /\ held' = [held EXCEPT ![t] = 0]
  /\ got' = [got EXCEPT ![t] = <<>>]
  /\ UNCHANGED <<tableVars, rpcMutex, wraps, calls, outcome, refreshVars, sockets, netVars, historyVars>>

\* The handler: sendRPC("ping").toString() throws on an object both times, so
\* alive stays false and the connection is dropped, whatever went wrong.  A request
\* that was sent on it cannot be called back.
Drop(t) ==
  LET fd == held[t]
  IN  /\ pc[t] = "failed"
      /\ connectedIpports' = connectedIpports \ {connectedIpportsMap[fd]}
      /\ connectedIpportsMap' = Restrict(connectedIpportsMap, DOMAIN connectedIpportsMap \ {fd})
      /\ sockets' = Restrict(sockets, DOMAIN sockets \ {fd})
      /\ IF t = Refresh
         THEN serviceFdCache' = serviceFdCache \ {fd} /\ UNCHANGED fdCache
         ELSE fdCache' = fdCache \ {fd} /\ UNCHANGED serviceFdCache
      /\ pc' = [pc EXCEPT ![t] = "pick"]
      /\ held' = [held EXCEPT ![t] = 0]
      /\ got' = [got EXCEPT ![t] = <<>>]
      /\ IF t = Refresh THEN UNCHANGED historyVars
         ELSE /\ dropped' = [dropped EXCEPT ![t] = @ + 1]
              /\ late' = IF sockets[fd].request = NoRequest THEN late
                         ELSE [late EXCEPT ![t] = @ + 1]
      /\ UNCHANGED <<rpcMutex, wraps, calls, outcome, refreshVars, netVars>>

\* No connection is left: "connect error".  In the constructor it goes to the
\* user; in the refresh thread nobody catches it.
Throw(t) ==
  /\ pc[t] = "pick" /\ Cache(t) = {}
  /\ rpcMutex' = {}
  /\ pc' = [pc EXCEPT ![t] = IF t = Refresh THEN "none" ELSE "idle"]
  /\ outcome' = IF t = Refresh THEN outcome ELSE [outcome EXCEPT ![t] = <<"connect error">>]
  /\ status' = IF t # Refresh THEN status
               ELSE IF phase = "built" THEN "terminated" ELSE "refused"
  /\ wraps' = [wraps EXCEPT ![t] = 0]
  /\ UNCHANGED <<tableVars, held, got, calls, toConnect, phase, sockets, netVars, historyVars>>

Run(t) == Write(t) \/ WriteCut(t) \/ Read(t) \/ ReadCut(t) \/ ReadEnd(t) \/ Drop(t) \/ Throw(t)

-----------------------------------------------------------------------------
(***************************************************************************)
(* The peers, which are servers as in RpcServer, and, external, the network*)
(* and the processes.                                                      *)
(***************************************************************************)

\* A peer gets a request whole, or in pieces that it can put together, executes it
\* and sends its reply.
Serve(fd) ==
  /\ sockets[fd].request # NoRequest
  /\ sockets' = [sockets EXCEPT ![fd].request = NoRequest,
                                ![fd].coming = @ \o ReplyTo(sockets[fd].request)]
  /\ LET t == sockets[fd].request.id[1]
     IN  executed' = IF t = Refresh THEN executed ELSE [executed EXCEPT ![t] = @ + 1]
  /\ UNCHANGED <<tableVars, rpcMutex, pc, callVars, refreshVars, worldVars, historyVars>>

\* A peer's first piece of a request ends in the header, or just before the last CR
\* LF.  The first it answers with a failed, and so the second piece: the request is
\* not executed.  The second it executes, and then answers the CR LF with a failed.
\* (Between CR and LF, the process dies: that is a Crash.)
ServeCut(fd) ==
  /\ sockets[fd].request # NoRequest
  /\ cuts < MaxCuts
  /\ cuts' = cuts + 1
  /\ sockets' = [sockets EXCEPT ![fd].cut = TRUE, ![fd].request = NoRequest,
                                ![fd].coming = <<>>, ![fd].inbox = <<>>]
  /\ LET t == sockets[fd].request.id[1]
     IN  late' = IF t = Refresh THEN late ELSE [late EXCEPT ![t] = @ + 1]
  /\ UNCHANGED <<tableVars, rpcMutex, pc, callVars, refreshVars, alive, crashes, executed, dropped>>

\* A peer that has read a request executes it although the caller has closed the
\* connection; the reply is lost, the effect is not.  Or its reply is not matched.
ServeLate(t) ==
  /\ late[t] > 0
  /\ late' = [late EXCEPT ![t] = @ - 1]
  /\ executed' = [executed EXCEPT ![t] = @ + 1]
  /\ UNCHANGED <<tableVars, rpcMutex, pc, callVars, refreshVars, sockets, worldVars, dropped>>

Deliver(fd) ==
  /\ sockets[fd].coming # <<>>
  /\ \E n \in 1..Len(sockets[fd].coming) :
       sockets' = [sockets EXCEPT
         ![fd].inbox = @ \o SubSeq(sockets[fd].coming, 1, n),
         ![fd].coming = SubSeq(@, n + 1, Len(@))]
  /\ UNCHANGED <<tableVars, rpcMutex, pc, callVars, refreshVars, netVars, historyVars>>

\* A process dies with its connections, or starts.
Crash(a) ==
  /\ a \in alive /\ crashes < MaxCrashes
  /\ alive' = alive \ {a}
  /\ crashes' = crashes + 1
  /\ sockets' = [fd \in DOMAIN sockets |->
       IF sockets[fd].addr # a THEN sockets[fd]
       ELSE [sockets[fd] EXCEPT !.ended = TRUE, !.request = NoRequest, !.coming = <<>>]]
  /\ UNCHANGED <<tableVars, rpcMutex, pc, callVars, refreshVars, cuts, executed, historyVars>>

Restart(a) ==
  /\ a \in Addresses \ alive
  /\ alive' = alive \cup {a}
  /\ UNCHANGED <<tableVars, rpcMutex, pc, callVars, refreshVars, sockets, crashes, cuts, executed,
                 historyVars>>

Network ==
  \/ \E fd \in DOMAIN sockets : Serve(fd) \/ ServeCut(fd) \/ Deliver(fd)
  \/ \E t \in Callers : ServeLate(t)

-----------------------------------------------------------------------------
Up == status = "up"

Refreshing == ConnectEnd \/ \E a \in Addresses : ConnectOne(a)

Next ==
  /\ Up
  /\ \/ Refreshing \/ WakeUp
     \/ \E t \in Callers : Call(t)
     \/ \E t \in Threads : LockRpc(t) \/ Run(t)
     \/ Network
     \/ \E a \in Addresses : Crash(a) \/ Restart(a)

Spec == Init /\ [][Next]_vars

\* Threads run, live peers answer, the network delivers, and a thread that waits
\* for rpcMutex gets it if it is free again and again: the refresh thread leaves
\* it alone for ten seconds at a time.
Fairness ==
  /\ WF_vars(Up /\ Refreshing)
  /\ WF_vars(Up /\ \E fd \in Fds : fd \in DOMAIN sockets /\ Serve(fd))
  /\ WF_vars(Up /\ \E fd \in Fds : fd \in DOMAIN sockets /\ Deliver(fd))
  /\ \A t \in Threads : WF_vars(Up /\ Run(t)) /\ SF_vars(Up /\ LockRpc(t))

FairSpec == Spec /\ Fairness

-----------------------------------------------------------------------------
(***************************************************************************)
(* Properties.                                                             *)
(***************************************************************************)

TypeOK ==
  /\ connectedIpports \subseteq Addresses
  /\ DOMAIN connectedIpportsMap \subseteq Fds
  /\ fdCache \cup serviceFdCache \subseteq Fds
  /\ Cardinality(rpcMutex) <= 1 /\ rpcMutex \subseteq Threads
  /\ pc \in [Threads -> {"idle", "connect", "sleep", "none", "lock", "pick", "read", "more",
                         "failed", "spin"}]
  /\ held \in [Threads -> Fds \cup {0}]
  /\ phase \in {"hosts", "providers", "built"}
  /\ status \in {"up", "refused", "terminated"}
  /\ DOMAIN sockets \subseteq Fds

\* The two caches, the two tables and the kernel agree whenever no lock is held
\* and while they are: a descriptor is in exactly one cache while it is open, it
\* has one address, and no address is connected twice.  The descriptor a call is
\* using stays the connection it chose: only the owner of rpcMutex drops
\* connections, so none is closed, and its number reused, while another thread
\* works with it.
TablesAgree ==
  /\ fdCache \cap serviceFdCache = {}
  /\ fdCache \cup serviceFdCache = DOMAIN connectedIpportsMap
  /\ DOMAIN sockets = DOMAIN connectedIpportsMap
  /\ IsInjective(connectedIpportsMap)
  /\ Range(connectedIpportsMap) = connectedIpports
  /\ \A fd \in DOMAIN sockets : sockets[fd].addr = connectedIpportsMap[fd]
  /\ \A t \in Threads : held[t] # 0 => rpcMutex = {t} /\ held[t] \in Cache(t)

\* A result is the answer to the call that returns it, although replies that come
\* late or in part are left on connections.  Only a result from a connection that
\* is cut, "unmatched", is anybody's: remoteCall does not compare an answer with
\* its call.
ResultIsOwn ==
  \A t \in Callers : outcome[t][1] \in {"answer", "empty"} => outcome[t][2] = CallId(t)

\* Connections and locks left out, a call is what RemoteCalls says: it is sent
\* once for every connection that was dropped and once more if it is answered,
\* executed at most as often as it was sent, and answered only when it was
\* executed, unless a request was ever cut outside its body.  One that returned, or
\* failed, may still be executed afterwards.
Results == {"answer", "empty", "unmatched"}

Attempts(t) ==
  dropped[t] + IF held[t] # 0 \/ outcome[t][1] \in Results THEN 1 ELSE 0

Calling == {t \in Callers : pc[t] # "idle"}

Abstract == INSTANCE RemoteCalls
  WITH calling <- Calling, sent <- [t \in Callers |-> Attempts(t)]

ImplementsCalls == Abstract!Spec

\* A call that has begun ends, with a result or "connect error", however often
\* peers die, and whoever has to wait for rpcMutex, unless the refresh thread finds
\* no balancer and the process is terminated, or a peer dies in the middle of a
\* reply and the thread that reads it spins with rpcMutex held.
Spinning == \E t \in Threads : pc[t] = "spin"

CallsEnd == \A t \in Callers : pc[t] = "lock" ~> (pc[t] = "idle" \/ ~Up \/ Spinning)

\* In SERVER mode a request that gets an answer was forwarded to the service.  It
\* is not, once a connection has failed: the next attempt wraps the wrapped
\* request, and the balancer unwraps one requestService only.
RequestsAreServed == \A t \in Callers : outcome[t][1] # "empty"
=============================================================================
