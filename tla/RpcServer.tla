----------------------------- MODULE RpcServer -----------------------------
(***************************************************************************)
(* A server process: poolServer::startForever (tcp/tcpServer.cpp), the one *)
(* thread that accepts, reads and writes, over rpcServer (rpc/             *)
(* rpcServer.cpp), which turns each chunk read into a task of the thread   *)
(* pool and keeps, per file descriptor, the incomplete request and the     *)
(* future of the latest task.  The pool is the SerialExecutor that         *)
(* ThreadPool implements.                                                  *)
(*                                                                         *)
(* Connections, the kernel's choice of descriptors and the bytes in flight *)
(* are the environment.  A connection's bytes are positions in its stream  *)
(* of frames, all of the same size:                                        *)
(*      5 digits, CR, LF, BodyLen bytes, CR, LF                            *)
(* so a chunk is an interval of positions and its text is never needed.    *)
(***************************************************************************)
EXTENDS Integers, Sequences, FiniteSets, FiniteSetsExt

CONSTANTS
  Conns,        \* the connections that clients open
  Fds,          \* the descriptors the kernel hands out
  NoFd,         \* stands for -1 in the slot table
  Slots,        \* maxClient - 1: the slots that can hold a client
  BodyLen,      \* the length of a request's body
  Cuts,         \* offsets in a frame where the network may cut it in two
  MaxRequests,  \* requests that clients send in all: bounds the model
  CloseWhen,    \* clients close "idle" (no request under way) or at "any" time
  Failing       \* connections whose requests make their handler throw

HeaderLen == 7
Total == HeaderLen + BodyLen + 2

ASSUME ServerAssumption ==
  /\ NoFd \notin Fds
  /\ IsFiniteSet(Fds) /\ Slots \in Nat \ {0} /\ Slots < Cardinality(Fds)
  /\ BodyLen \in Nat \ {0}
  /\ Cuts \subseteq 1..Total - 1
  /\ MaxRequests \in Nat
  /\ CloseWhen \in {"idle", "any"}
  /\ Failing \subseteq Conns

\* A task per chunk, and no more chunks than cuts allow: bounds the model.
TaskIds == 1..(MaxRequests * (Cardinality(Cuts) + 1))

VARIABLES
  link,         \* the state of each connection
  fdOf,         \* its descriptor in the server, once accepted
  written,      \* bytes the client has sent
  delivered,    \* of these, bytes that have reached the server's socket
  consumed,     \* of these, bytes that read() has returned
  replies,      \* what the client has received
  slots,        \* clientfd[1..maxClient-1].fd
  pollPc,       \* the poll thread: at poll, or at a slot's POLLIN or POLLOUT
  at,           \* that slot
  ready,        \* the slots for which the last poll reported POLLIN
  uncompleted,  \* rpcServer::uncompleted: for each descriptor, its entry or {}
  futureMap,    \* rpcServer::futureMap, by descriptor: the future's task
  tasks,        \* the descriptor and the chunk of each submitted task
  result,       \* what the future of each finished task holds
  backlog, active, finished,   \* the pool: see SerialExecutor
  status,       \* "up", "terminated" by an exception, or "corrupt"
  residue       \* history: descriptors last freed with a task unfinished

netVars == <<link, fdOf, written, delivered, consumed, replies>>
pollVars == <<slots, pollPc, at, ready>>
poolVars == <<backlog, active, finished>>
rpcVars == <<uncompleted, futureMap, tasks, result>>
vars == <<netVars, pollVars, rpcVars, poolVars, status, residue>>

Pool == INSTANCE SerialExecutor WITH Tasks <- TaskIds

NoTask == 0

-----------------------------------------------------------------------------
(***************************************************************************)
(* Data: what was read, and what parsing it gives.                         *)
(***************************************************************************)

\* len bytes that start at position from of conn's stream.  They are not pure
\* when bytes of another connection follow them.
Data == [conn : Conns, from : Nat, len : Nat, pure : BOOLEAN]

\* now.first + httpRequest
Join(d, e) ==
  [d EXCEPT !.len = d.len + e.len,
            !.pure = d.pure /\ e.conn = d.conn /\ e.from = d.from + d.len]

\* What rpcParser::parse and doRpc's comparison of lengths can make of a text:
\*   "bad"    parse throws
\*   "part"   the body is not complete
\*   "whole"  exactly the body
\*   "extra"  the body and the CR after it, which JsonParser refuses
\*   "mixed"  a body with another connection's bytes in it
\* A text that lacks only its last CR and LF is taken for whole.
Parse(d) ==
  CASE d.from % Total # 0 \/ d.len < HeaderLen \/ d.len > Total -> {"bad"}
    [] d.from % Total = 0 /\ d.len \in HeaderLen..HeaderLen + BodyLen - 1 -> {"part"}
    [] OTHER -> IF ~d.pure THEN {"bad", "mixed"}
                ELSE IF d.len = Total - 1 THEN {"extra"} ELSE {"whole"}

\* request.length - request.message.length()
Missing(d) == HeaderLen + BodyLen - d.len

\* The request, counted from 1, that a position of the stream belongs to.
RequestAt(pos) == pos \div Total + 1

Answer(c, n) == <<"answer", c, n>>

\* JsonParser and handler->handleRPC on a request: an answer or an exception.
\* What a mixed body gives is not known.
Handle(d, parsed) ==
  CASE parsed = "whole" -> {IF d.conn \in Failing THEN <<"throws">>
                            ELSE Answer(d.conn, RequestAt(d.from))}
    [] parsed = "extra" -> {<<"throws">>}
    [] parsed = "mixed" -> {<<"throws">>, <<"garbage">>}

\* doRpc's task on the first chunk of a request: what it may return, and the
\* entry it leaves.
FirstChunk(d) ==
  UNION {CASE p = "bad" -> {[returns |-> <<"failed">>, entry |-> {}]}
           [] p = "part" -> {[returns |-> <<"empty">>,
                              entry |-> {[data |-> d, remaining |-> Missing(d)]}]}
           [] OTHER -> {[returns |-> r, entry |-> {}] : r \in Handle(d, p)}
         : p \in Parse(d)}

\* ... on a chunk that continues the request of an entry.  parse throws before
\* the entry is erased.
NextChunk(now, d) ==
  LET left == now.remaining - d.len
      all == Join(now.data, d)
  IN  IF left > 0
      THEN {[returns |-> <<"empty">>, entry |-> {[data |-> all, remaining |-> left]}]}
      ELSE UNION {IF p = "bad"
                  THEN {[returns |-> <<"throws">>, entry |-> {[now EXCEPT !.remaining = 0]}]}
                  ELSE {[returns |-> r, entry |-> {}] : r \in Handle(all, p)}
                  : p \in Parse(all)}

\* ... on an entry such an exception left behind: the request stays empty, and
\* what JsonParser reads in an empty text is undefined.
EmptyRequest(now) ==
  {[returns |-> r, entry |-> {now}] : r \in {<<"throws">>, <<"garbage">>}}

DoRpcOutcomes(t) ==
  LET d == tasks[t].chunk
      found == uncompleted[tasks[t].fd]
  IN  IF found = {} THEN FirstChunk(d)
      ELSE UNION {IF now.remaining # 0 THEN NextChunk(now, d) ELSE EmptyRequest(now)
                  : now \in found}

InUse == {slots[i] : i \in 1..Slots} \ {NoFd}
Connected(c) == link[c] \in {"open", "leaving"}
ConnOf(fd) == CHOOSE c \in Conns : Connected(c) /\ fdOf[c] = fd
Unfinished(fd) == {t \in Pool!Submitted \ finished : tasks[t].fd = fd}

-----------------------------------------------------------------------------
Init ==
  /\ link = [c \in Conns |-> "new"]
  /\ fdOf = [c \in Conns |-> NoFd]
  /\ written = [c \in Conns |-> 0]
  /\ delivered = [c \in Conns |-> 0]
  /\ consumed = [c \in Conns |-> 0]
  /\ replies = [c \in Conns |-> <<>>]
  /\ slots = [i \in 1..Slots |-> NoFd]
  /\ pollPc = "poll"
  /\ at = 1
  /\ ready = {}
  /\ uncompleted = [fd \in Fds |-> {}]
  /\ futureMap = [fd \in Fds |-> NoTask]
  /\ tasks = <<>>
  /\ result = [t \in TaskIds |-> <<"pending">>]
  /\ Pool!ExecInit
  /\ status = "up"
  /\ residue = {}

-----------------------------------------------------------------------------
(***************************************************************************)
(* Clients and the network (external).  A client sends one request and     *)
(* waits for a reply before it sends the next, as rpcClient and client.py  *)
(* do.                                                                     *)
(***************************************************************************)

Connect(c) ==
  /\ link[c] = "new"
  /\ link' = [link EXCEPT ![c] = "connecting"]
  /\ UNCHANGED <<fdOf, written, delivered, consumed, replies, pollVars, rpcVars, poolVars,
                 status, residue>>

Ask(c) ==
  /\ link[c] = "open"
  /\ written[c] <= Len(replies[c]) * Total
  /\ MapThenSumSet(LAMBDA d : written[d], Conns) < MaxRequests * Total
  /\ written' = [written EXCEPT ![c] = @ + Total]
  /\ UNCHANGED <<link, fdOf, delivered, consumed, replies, pollVars, rpcVars, poolVars,
                 status, residue>>

\* More bytes reach the server, up to a cut or the end of a frame.
Deliver(c) ==
  /\ link[c] = "open"
  /\ \E pos \in delivered[c] + 1..written[c] :
       /\ pos % Total \in Cuts \cup {0}
       /\ delivered' = [delivered EXCEPT ![c] = pos]
  /\ UNCHANGED <<link, fdOf, written, consumed, replies, pollVars, rpcVars, poolVars,
                 status, residue>>

\* The client closes: bytes that are still on their way are lost.
Leave(c) ==
  /\ link[c] = "open"
  /\ CloseWhen = "idle" => written[c] = Len(replies[c]) * Total
  /\ link' = [link EXCEPT ![c] = "leaving"]
  /\ UNCHANGED <<fdOf, written, delivered, consumed, replies, pollVars, rpcVars, poolVars,
                 status, residue>>

-----------------------------------------------------------------------------
(***************************************************************************)
(* The poll thread: poolServer::startForever.                              *)
(***************************************************************************)

Waiting == {c \in Conns : link[c] = "connecting"}

\* The listening socket is ready: accept one connection and poll again.
Accept(c, fd) ==
  /\ pollPc = "poll"
  /\ c \in Waiting
  /\ fd \in Fds \ InUse
  /\ \/ \E i \in 1..Slots :
          /\ slots[i] = NoFd
          /\ \A j \in 1..i - 1 : slots[j] # NoFd
          /\ slots' = [slots EXCEPT ![i] = fd]
          /\ link' = [link EXCEPT ![c] = "open"]
          /\ fdOf' = [fdOf EXCEPT ![c] = fd]
     \/ /\ \A i \in 1..Slots : slots[i] # NoFd      \* server busy
        /\ link' = [link EXCEPT ![c] = "refused"]
        /\ UNCHANGED <<slots, fdOf>>
  /\ UNCHANGED <<written, delivered, consumed, replies, pollPc, at, ready, rpcVars,
                 poolVars, status, residue>>

\* Bytes to read, or the end of the stream.
Readable(c) == consumed[c] < delivered[c] \/ link[c] = "leaving"

\* No connection is waiting: go through the slots with what poll reported.  A
\* socket can always be written to, so poll does not block while one is open.
PollClients ==
  /\ pollPc = "poll"
  /\ Waiting = {} /\ InUse # {}
  /\ ready' = {i \in 1..Slots : slots[i] # NoFd /\ Readable(ConnOf(slots[i]))}
  /\ pollPc' = "in"
  /\ at' = 1
  /\ UNCHANGED <<netVars, slots, rpcVars, poolVars, status, residue>>

\* Mistake: the loop runs to maxClient included.
NextSlotPastEnd ==
  /\ pollPc' = IF at > Slots THEN "poll" ELSE "in"
  /\ at' = IF at > Slots THEN 1 ELSE at + 1

NextSlot ==
  /\ pollPc' = IF at = Slots THEN "poll" ELSE "in"
  /\ at' = IF at = Slots THEN 1 ELSE at + 1

AtSlot(pc) == pollPc = pc

\* if (clientfd[i].fd<0) continue, or no POLLIN.
SkipRead ==
  /\ AtSlot("in")
  /\ at \notin ready
  /\ IF slots[at] = NoFd THEN NextSlot ELSE pollPc' = "out" /\ at' = at
  /\ UNCHANGED <<netVars, slots, ready, rpcVars, poolVars, status, residue>>

\* n>0: doRpc submits a task for the chunk and replaces the descriptor's future.
ReadChunk ==
  LET fd == slots[at]
      c == ConnOf(fd)
      t == Len(tasks) + 1
  IN  /\ AtSlot("in")
      /\ at \in ready
      /\ consumed[c] < delivered[c]
      /\ consumed' = [consumed EXCEPT ![c] = delivered[c]]
      /\ tasks' = Append(tasks,
           [fd |-> fd,
            chunk |-> [conn |-> c, from |-> consumed[c],
                       len |-> delivered[c] - consumed[c], pure |-> TRUE]])
      /\ Pool!Submit(t)
      /\ futureMap' = [futureMap EXCEPT ![fd] = t]
      /\ pollPc' = "out"
      /\ UNCHANGED <<link, fdOf, written, delivered, replies, slots, at, ready, uncompleted,
                     result, status, residue>>

\* rpcServer::free looks at "uncompleted" without any lock.  That is a data race
\* when a task that runs changes the map, or reads it while free changes it.
Races(fd) ==
  \E t \in active :
    \/ uncompleted[fd] # {}
    \/ \E o \in DoRpcOutcomes(t) : o.entry # uncompleted[tasks[t].fd]

\* Mistakes: free forgets one of the maps.
FreeFutureOnly(fd) ==
  futureMap' = [futureMap EXCEPT ![fd] = NoTask] /\ UNCHANGED uncompleted
FreeUncompletedOnly(fd) ==
  uncompleted' = [uncompleted EXCEPT ![fd] = {}] /\ UNCHANGED futureMap

\* rpcServer::free
Free(fd) ==
  /\ uncompleted' = [uncompleted EXCEPT ![fd] = {}]
  /\ futureMap' = [futureMap EXCEPT ![fd] = NoTask]

\* clientfd[i].fd=-1
ClearSlot(i) == slots' = [slots EXCEPT ![i] = NoFd]

\* n<=0: free the descriptor's state and close it.
ReadEnd ==
  LET fd == slots[at]
      c == ConnOf(fd)
  IN  /\ AtSlot("in")
      /\ at \in ready
      /\ consumed[c] >= delivered[c]
      /\ Free(fd)
      /\ \/ status' = status
         \/ Races(fd) /\ status' = "corrupt"
      /\ ClearSlot(at)
      /\ link' = [link EXCEPT ![c] = "closed"]
      /\ fdOf' = [fdOf EXCEPT ![c] = NoFd]
      /\ residue' = IF Unfinished(fd) = {} THEN residue \ {fd} ELSE residue \cup {fd}
      /\ NextSlot
      /\ UNCHANGED <<written, delivered, consumed, replies, ready, tasks, result, poolVars>>

\* Mistake: a future that is not ready is erased.
DropResult ==
  /\ AtSlot("out")
  /\ futureMap[slots[at]] \notin finished
  /\ futureMap' = [futureMap EXCEPT ![slots[at]] = NoTask]
  /\ NextSlot
  /\ UNCHANGED <<netVars, slots, ready, uncompleted, tasks, result, poolVars, status, residue>>

\* getResult finds no future, or one that is not ready.
NoResultYet ==
  /\ AtSlot("out")
  /\ futureMap[slots[at]] \notin finished
  /\ NextSlot
  /\ UNCHANGED <<netVars, slots, ready, rpcVars, poolVars, status, residue>>

\* Mistake: a future that was read stays in the map.
LeaveFuture(fd) == UNCHANGED futureMap

\* futureMap.erase(sockfd)
TakeFuture(fd) == futureMap' = [futureMap EXCEPT ![fd] = NoTask]

\* getResult erases the future and its string is written, unless it is empty.  A
\* client that has gone receives nothing.
WriteResult ==
  LET fd == slots[at]
      c == ConnOf(fd)
      r == result[futureMap[fd]]
  IN  /\ AtSlot("out")
      /\ futureMap[fd] \in finished
      /\ r # <<"throws">>
      /\ TakeFuture(fd)
      /\ replies' = IF r = <<"empty">> \/ link[c] # "open" THEN replies
                    ELSE [replies EXCEPT ![c] = Append(@, r)]
      /\ NextSlot
      /\ UNCHANGED <<link, fdOf, written, delivered, consumed, slots, ready, uncompleted,
                     tasks, result, poolVars, status, residue>>

\* future.get() throws what the task threw, and nobody catches it.
GetThrows ==
  /\ AtSlot("out")
  /\ futureMap[slots[at]] \in finished
  /\ result[futureMap[slots[at]]] = <<"throws">>
  /\ status' = "terminated"
  /\ UNCHANGED <<netVars, pollVars, rpcVars, poolVars, residue>>

PollThread ==
  \/ \E c \in Conns, fd \in Fds : Accept(c, fd)
  \/ PollClients \/ SkipRead \/ ReadChunk \/ ReadEnd
  \/ NoResultYet \/ WriteResult \/ GetThrows

-----------------------------------------------------------------------------
(***************************************************************************)
(* The pool: it starts the oldest task and, later, finishes it.  The task  *)
(* is doRpc's function: its reads and writes of "uncompleted" are one step *)
(* because tasks do not overlap, and because what free may do to them in   *)
(* between is in Races.                                                    *)
(***************************************************************************)

StartTask ==
  /\ Pool!Start
  /\ UNCHANGED <<netVars, pollVars, rpcVars, status, residue>>

FinishTask(t) ==
  /\ t \in active
  /\ Pool!Finish
  /\ \E o \in DoRpcOutcomes(t) :
       /\ uncompleted' = [uncompleted EXCEPT ![tasks[t].fd] = o.entry]
       /\ result' = [result EXCEPT ![t] = o.returns]
  /\ UNCHANGED <<netVars, pollVars, futureMap, tasks, status, residue>>

-----------------------------------------------------------------------------
Up == status = "up"

\* The model ends with the process.
Next ==
  /\ Up
  /\ \/ \E c \in Conns : Connect(c) \/ Ask(c) \/ Deliver(c) \/ Leave(c)
     \/ PollThread
     \/ StartTask
     \/ \E t \in TaskIds : FinishTask(t)

Spec == Init /\ [][Next]_vars

\* The threads run, tasks end, and the network delivers what was sent.  Clients
\* need never connect, ask or leave.
Fairness ==
  /\ WF_vars(Up /\ PollThread)
  /\ WF_vars(Up /\ StartTask)
  /\ WF_vars(Up /\ \E t \in TaskIds : FinishTask(t))
  /\ \A c \in Conns : WF_vars(Up /\ Deliver(c))

FairSpec == Spec /\ Fairness

-----------------------------------------------------------------------------
(***************************************************************************)
(* Properties.                                                             *)
(***************************************************************************)

\* Every variable has its type.
TypeOK ==
  /\ link \in [Conns -> {"new", "connecting", "open", "leaving", "closed", "refused"}]
  /\ fdOf \in [Conns -> Fds \cup {NoFd}]
  /\ \A n \in {written, delivered, consumed} : n \in [Conns -> Nat]
  /\ \A c \in Conns : consumed[c] <= delivered[c] /\ delivered[c] <= written[c]
  /\ slots \in [1..Slots -> Fds \cup {NoFd}]
  /\ pollPc \in {"poll", "in", "out"}
  /\ at \in 1..Slots
  /\ ready \subseteq 1..Slots
  /\ \A fd \in Fds : \A now \in uncompleted[fd] : now.data \in Data /\ now.remaining \in Nat
  /\ futureMap \in [Fds -> {NoTask} \cup TaskIds]
  /\ tasks \in Seq([fd : Fds, chunk : Data])
  /\ status \in {"up", "terminated", "corrupt"}
  /\ residue \subseteq Fds

\* futureMap is keyed by a number that the kernel gives out again.  The open
\* connections have distinct descriptors in distinct slots, and a future in the
\* map always belongs to the connection that has the descriptor now, so a reply is
\* never written to somebody else, whenever clients disconnect.
SlotsMatch ==
  /\ InUse = {fdOf[c] : c \in {x \in Conns : Connected(x)}}
  /\ \A c, d \in Conns : Connected(c) /\ Connected(d) /\ fdOf[c] = fdOf[d] => c = d
  /\ \A i, j \in 1..Slots : slots[i] = slots[j] /\ slots[i] # NoFd => i = j

FutureOwner ==
  /\ SlotsMatch
  /\ \A fd \in Fds :
       futureMap[fd] # NoTask =>
         /\ fd \in InUse
         /\ tasks[futureMap[fd]].fd = fd
         /\ tasks[futureMap[fd]].chunk.conn = ConnOf(fd)

\* A descriptor's incomplete request consists of bytes of the connection that
\* has the descriptor now, unless the descriptor was last freed with a task
\* outstanding: that task still runs, and writes under the number of a
\* connection that is closed.  The count kept with it is the number of bytes still
\* missing from the body, or 0 after a failed parse.
PartialsBelong ==
  \A fd \in Fds : \A now \in uncompleted[fd] :
    /\ fd \notin residue => fd \in InUse /\ now.data.pure /\ now.data.conn = ConnOf(fd)
    /\ now.remaining # 0 => now.remaining + now.data.len = HeaderLen + BodyLen

\* A connected client that was given a descriptor without such residue has
\* received, for its n-th request, the answer to its n-th request: no reply is
\* lost, repeated, or somebody else's.
RepliesInOrder ==
  \A c \in Conns :
    link[c] = "open" /\ fdOf[c] \notin residue =>
      \A n \in 1..Len(replies[c]) : replies[c][n] = Answer(c, n)

\* Wherever the network cuts a frame and whenever clients disconnect, the answers
\* a client receives are to its own requests, in the order it sent them, each
\* once; other replies may stand between them.
AnswersOwn ==
  \A c \in Conns : \A n \in 1..Len(replies[c]) :
    replies[c][n][1] = "answer" =>
      /\ replies[c][n][2] = c
      /\ \A m \in 1..n - 1 :
           replies[c][m][1] = "answer" => replies[c][m][3] < replies[c][n][3]

\* A client that waits for a reply gets one, unless the process lost its map of
\* incomplete requests to a race: while clients close only when idle and every
\* request has a handler, no exception ends the process before that.
Unanswered(c) == written[c] > Len(replies[c]) * Total

EveryRequestAnswered ==
  \A c \in Conns : Unanswered(c) ~> (~Unanswered(c) \/ status = "corrupt")
=============================================================================
