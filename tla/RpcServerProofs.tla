--------------------------- MODULE RpcServerProofs ---------------------------
(***************************************************************************)
(* What a server promises, for any connections, descriptors, slots and     *)
(* requests.  ServerInv is what holds wherever the network cuts a frame;   *)
(* OrderInv gives the order of replies when it cuts in their bodies only,  *)
(* and PickedInv that no request is lost on its way to its answer.         *)
(***************************************************************************)
EXTENDS RpcServer, FiniteSetTheorems, SequenceTheorems, TLAPS

-----------------------------------------------------------------------------
(***************************************************************************)
(* The invariant.                                                          *)
(***************************************************************************)
Ids == 1..Len(tasks)
Owner(t) == tasks[t].chunk.conn
From(t) == tasks[t].chunk.from
End(t) == tasks[t].chunk.from + tasks[t].chunk.len
Holds(c, fd) == Connected(c) /\ fdOf[c] = fd

\* The records uncompleted holds, and what a future can give.
Entries == [data : Data, remaining : Nat]
Answers == {Answer(c, n) : c \in Conns, n \in Nat}
Results == {<<"pending">>, <<"failed">>, <<"empty">>, <<"throws">>, <<"garbage">>} \cup Answers

Types ==
  /\ TypeOK
  /\ uncompleted \in [Fds -> SUBSET Entries]
  /\ result \in [TaskIds -> Results]
  /\ replies \in [Conns -> Seq(Results)]

\* The tasks taken from the backlog, and the tasks finished: the first ones, in
\* the order they were submitted.
Taken == Len(tasks) - Len(backlog)
Done == IF active = {} THEN Taken ELSE Taken - 1

InTurn ==
  /\ Ids \subseteq TaskIds
  /\ backlog \in Seq(TaskIds) /\ Len(backlog) <= Len(tasks)
  /\ \A i \in 1..Len(backlog) : backlog[i] = Taken + i
  /\ active = {} \/ (active = {Taken} /\ Taken > 0)
  /\ finished = 1..Done

\* The poll thread reads from and writes to slots that hold a client.
ReadyOpen ==
  /\ pollPc # "poll" => \A i \in ready : i > at => slots[i] # NoFd
  /\ pollPc = "in" /\ at \in ready => slots[at] # NoFd
  /\ pollPc = "out" => slots[at] # NoFd

\* The chunks of c among the first k tasks end at position pos.
EndsAt(c, k, pos) ==
  \/ pos = 0 /\ \A s \in 1..k : Owner(s) # c
  \/ \E s \in 1..k : Owner(s) = c /\ End(s) = pos /\ \A r \in s + 1..k : Owner(r) # c

\* A connection's chunks are read one after the other, on one descriptor.
Chunks ==
  /\ \A t \in Ids :
       /\ tasks[t].chunk.pure /\ End(t) <= consumed[Owner(t)]
       /\ Holds(Owner(t), tasks[t].fd) \/ link[Owner(t)] = "closed"
       /\ EndsAt(Owner(t), t - 1, From(t))
  /\ \A s, t \in Ids : Owner(s) = Owner(t) =>
       tasks[s].fd = tasks[t].fd /\ (s < t => End(s) <= From(t))
  /\ \A c \in Conns : EndsAt(c, Len(tasks), consumed[c])

Futures ==
  \A fd \in Fds : futureMap[fd] # NoTask =>
    /\ futureMap[fd] \in Ids
    /\ tasks[futureMap[fd]].fd = fd
    /\ Holds(Owner(futureMap[fd]), fd)

\* A task that has not finished belongs to the holder of its descriptor.
Outstanding ==
  \A t \in Ids \ finished :
    tasks[t].fd \notin residue => Holds(Owner(t), tasks[t].fd)

IsAnswer(r) == r[1] = "answer"

Partials ==
  \A fd \in Fds : \A now \in uncompleted[fd] :
    /\ \E s \in finished : tasks[s].fd = fd /\ Owner(s) = now.data.conn
    /\ now.remaining # 0 => now.remaining + now.data.len = HeaderLen + BodyLen
    /\ fd \notin residue =>
         /\ now.data.pure /\ Holds(now.data.conn, fd)
         /\ now.remaining # 0 => EndsAt(now.data.conn, Done, now.data.from + now.data.len)
    /\ now.data.pure => \A s \in finished :
         Owner(s) = now.data.conn /\ IsAnswer(result[s]) => End(s) <= now.data.from

Answered ==
  /\ \A t \in finished : IsAnswer(result[t]) =>
       \E pos \in 0..End(t) - 1 :
         pos % Total = 0 /\ result[t] = Answer(Owner(t), RequestAt(pos))
  /\ \A s, t \in finished :
       s < t /\ Owner(s) = Owner(t) /\ IsAnswer(result[s]) /\ IsAnswer(result[t]) =>
         result[s][3] < result[t][3]

Sent ==
  \A c \in Conns : \A n \in 1..Len(replies[c]) : IsAnswer(replies[c][n]) =>
    /\ \E s \in finished :
         /\ Owner(s) = c /\ result[s] = replies[c][n]
         /\ \A fd \in Fds :
              futureMap[fd] # NoTask /\ Owner(futureMap[fd]) = c => s < futureMap[fd]
    /\ \A m \in 1..n - 1 : IsAnswer(replies[c][m]) => replies[c][m][3] < replies[c][n][3]

Connections == SlotsMatch /\ ReadyOpen

Requested == Chunks /\ Futures /\ Outstanding /\ Partials /\ Answered /\ Sent

ServerInv == Types /\ Connections /\ InTurn /\ Requested

-----------------------------------------------------------------------------
(***************************************************************************)
(* Connections and their descriptors.                                      *)
(***************************************************************************)
LEMMA SlotInUse ==
  ASSUME NEW i \in 1..Slots, slots[i] # NoFd
  PROVE  slots[i] \in InUse
BY DEF InUse

LEMMA HolderFound ==
  ASSUME SlotsMatch, NEW fd \in InUse
  PROVE  ConnOf(fd) \in Conns /\ Holds(ConnOf(fd), fd)
<1>1. PICK c \in Conns : Connected(c) /\ fdOf[c] = fd
  BY DEF SlotsMatch
<1> QED BY <1>1 DEF ConnOf, Holds

LEMMA HolderUnique ==
  ASSUME SlotsMatch, NEW c \in Conns, NEW fd, Holds(c, fd)
  PROVE  fd \in InUse /\ ConnOf(fd) = c
<1>1. fd \in InUse
  BY DEF SlotsMatch, Holds
<1>2. ConnOf(fd) \in Conns /\ Holds(ConnOf(fd), fd)
  BY <1>1, HolderFound
<1> QED BY <1>1, <1>2 DEF SlotsMatch, Holds

LEMMA ServerInit == Init => ServerInv
<1> SUFFICES ASSUME Init PROVE ServerInv
  OBVIOUS
<1>0. Slots \in Nat \ {0} /\ NoFd \notin Fds
  BY ServerAssumption
<1>1. Types
  BY <1>0 DEF Init, Types, TypeOK, Results, Pool!ExecInit
<1>2. InUse = {} /\ \A c \in Conns : ~Connected(c)
  BY DEF Init, InUse, Connected
<1>3. Connections
  BY <1>2 DEF Init, Connections, SlotsMatch, ReadyOpen
<1>4. Len(tasks) = 0 /\ Ids = {} /\ finished = {} /\ Taken = 0 /\ Done = 0 /\ Len(backlog) = 0
  BY DEF Init, Ids, Taken, Done, Pool!ExecInit
<1>5. InTurn
  BY <1>4 DEF Init, InTurn, Pool!ExecInit
<1>6. Requested
  BY <1>4 DEF Init, Requested, Chunks, Futures, Outstanding, Partials, Answered, Sent, EndsAt
<1> QED BY <1>1, <1>3, <1>5, <1>6 DEF ServerInv

-----------------------------------------------------------------------------
(***************************************************************************)
(* The pool takes tasks in the order of their numbers.                     *)
(***************************************************************************)
LEMMA InTurnNumbers ==
  ASSUME InTurn, Len(tasks) \in Nat
  PROVE  /\ Len(backlog) \in Nat /\ Taken \in Nat /\ Done \in Nat
         /\ Taken <= Len(tasks) /\ Done <= Taken /\ finished \subseteq Ids /\ active \subseteq Ids
<1>1. Len(backlog) \in Nat /\ Taken \in Nat /\ Taken <= Len(tasks)
  BY LenProperties DEF InTurn, Taken
<1>2. Done \in Nat /\ Done <= Taken
  BY <1>1 DEF InTurn, Done
<1> QED BY <1>1, <1>2 DEF InTurn, Ids

LEMMA SubmitInTurn ==
  ASSUME InTurn, Len(tasks) \in Nat, Len(tasks') = Len(tasks) + 1, Pool!Submit(Len(tasks) + 1)
  PROVE  InTurn' /\ finished' = finished /\ Done' = Done
<1> DEFINE t == Len(tasks) + 1
<1>1. t \in TaskIds /\ backlog' = Append(backlog, t) /\ active' = active /\ finished' = finished
  BY DEF Pool!Submit
<1>2. /\ backlog' \in Seq(TaskIds) /\ Len(backlog') = Len(backlog) + 1 /\ Len(backlog) \in Nat
      /\ \A i \in 1..Len(backlog) : backlog'[i] = backlog[i]
      /\ backlog'[Len(backlog) + 1] = t
  BY <1>1, AppendProperties, LenProperties DEF InTurn
<1>3. Taken' = Taken /\ Done' = Done
  BY <1>1, <1>2 DEF Taken, Done
<1>4. Ids' \subseteq TaskIds
  <2>1. \A i \in Ids' : i \in Ids \/ i = t
    BY DEF Ids
  <2> QED BY <1>1, <2>1 DEF InTurn
<1>5. \A i \in 1..Len(backlog') : backlog'[i] = Taken' + i
  <2> TAKE i \in 1..Len(backlog')
  <2>1. CASE i \in 1..Len(backlog)
    BY <1>2, <1>3, <2>1 DEF InTurn
  <2>2. CASE i = Len(backlog) + 1
    BY <1>2, <1>3, <2>2 DEF Taken
  <2> QED BY <1>2, <2>1, <2>2
<1> QED BY <1>1, <1>2, <1>3, <1>4, <1>5 DEF InTurn

LEMMA StartInTurn ==
  ASSUME InTurn, Len(tasks) \in Nat, Pool!Start, tasks' = tasks
  PROVE  InTurn' /\ finished' = finished /\ Done' = Done
<1>1. /\ backlog # <<>> /\ active = {} /\ active' = {Head(backlog)} /\ backlog' = Tail(backlog)
      /\ finished' = finished
  BY DEF Pool!Start
<1>2. /\ backlog' \in Seq(TaskIds) /\ Len(backlog') = Len(backlog) - 1 /\ Len(backlog) \in Nat \ {0}
      /\ \A i \in 1..Len(backlog') : backlog'[i] = backlog[i + 1]
  BY <1>1, HeadTailProperties, EmptySeq, LenProperties DEF InTurn
<1>3. Head(backlog) = Taken + 1
  BY <1>2 DEF InTurn
<1>4. Taken' = Taken + 1 /\ Taken \in Nat
  BY <1>2 DEF Taken, InTurn
<1>5. Done' = Done /\ Done = Taken
  BY <1>1, <1>4 DEF Done
<1>6. \A i \in 1..Len(backlog') : backlog'[i] = Taken' + i
  <2> TAKE i \in 1..Len(backlog')
  <2>1. i + 1 \in 1..Len(backlog) /\ i \in Nat
    BY <1>2
  <2> QED BY <1>2, <1>4, <2>1 DEF InTurn
<1> QED BY <1>1, <1>2, <1>3, <1>4, <1>5, <1>6 DEF InTurn, Ids

LEMMA FinishInTurn ==
  ASSUME InTurn, Len(tasks) \in Nat, NEW t \in active, Pool!Finish, tasks' = tasks
  PROVE  /\ InTurn' /\ t \in Ids /\ t = Done + 1 /\ Done' = t
         /\ finished = 1..t - 1 /\ finished' = 1..t
<1>1. finished' = finished \cup active /\ active' = {} /\ backlog' = backlog
  BY DEF Pool!Finish
<1>2. active = {Taken} /\ t = Taken /\ Taken \in Nat /\ Taken > 0 /\ Taken <= Len(tasks)
  BY InTurnNumbers DEF InTurn
<1>3. Taken' = Taken /\ Done' = t /\ Done = t - 1
  BY <1>1, <1>2 DEF Taken, Done
<1>4. finished = 1..t - 1 /\ finished' = 1..t
  BY <1>1, <1>2, <1>3 DEF InTurn
<1> QED BY <1>1, <1>2, <1>3, <1>4 DEF InTurn, Ids

-----------------------------------------------------------------------------
(***************************************************************************)
(* Steps that leave the requests alone: connections may only be added.     *)
(***************************************************************************)
HoldersStay ==
  \A c \in Conns : /\ \A fd \in Fds : Holds(c, fd) => Holds(c, fd)'
                   /\ link[c] = "closed" => link'[c] = "closed"

requestVars == <<consumed, replies, rpcVars, poolVars, residue>>

LEMMA TaskTypes ==
  ASSUME Types, NEW t \in Ids
  PROVE  /\ tasks[t] \in [fd : Fds, chunk : Data] /\ tasks[t].fd \in Fds
         /\ Owner(t) \in Conns /\ From(t) \in Nat /\ tasks[t].chunk.len \in Nat /\ End(t) \in Nat
         /\ tasks[t].chunk \in Data
<1>1. tasks[t] \in [fd : Fds, chunk : Data]
  BY ElementOfSeq DEF Types, TypeOK, Ids
<1> QED BY <1>1 DEF Data, Owner, From, End

LEMMA PoolStays == InTurn /\ UNCHANGED requestVars => InTurn' /\ Done' = Done
BY DEF requestVars, rpcVars, poolVars, InTurn, Done, Taken, Ids

LEMMA QuietStep ==
  ASSUME Types, Requested, HoldersStay, Done' = Done,
         UNCHANGED <<consumed, replies, rpcVars, finished, residue>>
  PROVE  Requested'
<1>0. UNCHANGED <<consumed, replies, uncompleted, futureMap, tasks, result, finished, residue>>
  BY DEF rpcVars
<1>1. Done' = Done /\ Ids' = Ids
  BY <1>0 DEF Ids
<1>2. \A t \in Ids : /\ Owner(t)' = Owner(t) /\ From(t)' = From(t) /\ End(t)' = End(t)
                     /\ tasks[t].fd \in Fds /\ Owner(t) \in Conns
  BY <1>0, TaskTypes DEF Owner, From, End
<1>3. \A c, k, pos : EndsAt(c, k, pos)' <=> EndsAt(c, k, pos)
  BY <1>0 DEF EndsAt, Owner, End
<1>4. Chunks'
  BY <1>0, <1>1, <1>2, <1>3 DEF Requested, Chunks, HoldersStay
<1>5. Futures'
  BY <1>0, <1>1, <1>2 DEF Requested, Futures, HoldersStay
<1>6. Outstanding'
  BY <1>0, <1>1, <1>2 DEF Requested, Outstanding, HoldersStay
<1>7. Partials'
  <2>1. \A fd \in Fds : \A now \in uncompleted[fd] : now.data.conn \in Conns
    BY DEF Types, Entries, Data
  <2> QED BY <1>0, <1>1, <1>2, <1>3, <2>1 DEF Requested, Partials, HoldersStay, Owner, End
<1>8. Answered' /\ Sent'
  BY <1>0 DEF Requested, Answered, Sent, Owner, End
<1> QED BY <1>4, <1>5, <1>6, <1>7, <1>8 DEF Requested

LEMMA NextSlotReady ==
  ASSUME NextSlot, Types, ready' = ready, \A i \in ready : i > at => slots'[i] # NoFd
  PROVE  ReadyOpen' /\ at' \in 1..Slots /\ pollPc' \in {"poll", "in"}
<1>1. Slots \in Nat \ {0} /\ at \in 1..Slots /\ ready \subseteq 1..Slots
  BY ServerAssumption DEF Types, TypeOK
<1>2. CASE at = Slots
  BY <1>1, <1>2 DEF NextSlot, ReadyOpen
<1>3. CASE at # Slots
  <2>1. at' = at + 1 /\ pollPc' = "in" /\ at' \in 1..Slots
    BY <1>1, <1>3 DEF NextSlot
  <2>2. \A i \in ready : i >= at' => slots'[i] # NoFd
    BY <1>1, <2>1
  <2> QED BY <1>1, <2>1, <2>2 DEF ReadyOpen
<1> QED BY <1>2, <1>3

\* A client's or the network's step.
ClientStep(c) == Connect(c) \/ Ask(c) \/ Deliver(c) \/ Leave(c)

LEMMA ClientTypes ==
  ASSUME ServerInv, NEW c \in Conns, ClientStep(c)
  PROVE  Types' /\ Connections' /\ HoldersStay /\ UNCHANGED requestVars
<1> USE DEF ServerInv
<1>1. /\ UNCHANGED <<fdOf, consumed, replies, slots, pollPc, at, ready, uncompleted, futureMap, tasks,
                     result, backlog, active, finished, status, residue>>
      /\ UNCHANGED requestVars
  BY DEF ClientStep, Connect, Ask, Deliver, Leave, pollVars, rpcVars, poolVars, requestVars
<1>2. /\ link' \in [Conns -> {"new", "connecting", "open", "leaving", "closed", "refused"}]
      /\ \A d \in Conns : /\ link'[d] \in {"open", "leaving"} <=> link[d] \in {"open", "leaving"}
                          /\ link[d] = "closed" <=> link'[d] = "closed"
  BY DEF ClientStep, Connect, Ask, Deliver, Leave, Types, TypeOK
<1>3. /\ written' \in [Conns -> Nat] /\ delivered' \in [Conns -> Nat]
      /\ \A d \in Conns : consumed[d] <= delivered'[d] /\ delivered'[d] <= written'[d]
  <2>1. Total \in Nat
    BY ServerAssumption DEF Total, HeaderLen
  <2>2. \A d \in Conns : /\ consumed[d] \in Nat /\ delivered[d] \in Nat /\ written[d] \in Nat
                         /\ consumed[d] <= delivered[d] /\ delivered[d] <= written[d]
    BY DEF Types, TypeOK
  <2>3. CASE Ask(c)
    <3>1. written' = [written EXCEPT ![c] = written[c] + Total] /\ delivered' = delivered
      BY <2>3 DEF Ask
    <3> QED BY <2>1, <2>2, <3>1 DEF Types, TypeOK
  <2>4. CASE Deliver(c)
    <3>1. PICK pos \in delivered[c] + 1..written[c] : delivered' = [delivered EXCEPT ![c] = pos]
      BY <2>4 DEF Deliver
    <3>2. written' = written
      BY <2>4 DEF Deliver
    <3> QED BY <2>2, <3>1, <3>2 DEF Types, TypeOK
  <2>5. CASE Connect(c) \/ Leave(c)
    BY <2>2, <2>5 DEF Connect, Leave, Types, TypeOK
  <2> QED BY <2>3, <2>4, <2>5 DEF ClientStep
<1>4. Types'
  BY <1>1, <1>2, <1>3 DEF Types, TypeOK
<1>5. \A d \in Conns : Connected(d)' <=> Connected(d)
  BY <1>2 DEF Connected
<1>6. InUse' = InUse
  BY <1>1 DEF InUse
<1>7. SlotsMatch' /\ ReadyOpen'
  BY <1>1, <1>5, <1>6 DEF Connections, SlotsMatch, ReadyOpen
<1>8. HoldersStay
  BY <1>1, <1>2, <1>5 DEF HoldersStay, Holds
<1> QED BY <1>1, <1>4, <1>7, <1>8 DEF Connections

LEMMA AcceptTypes ==
  ASSUME ServerInv, NEW c \in Conns, NEW fd \in Fds, Accept(c, fd)
  PROVE  Types' /\ Connections' /\ HoldersStay /\ UNCHANGED requestVars
<1> USE DEF ServerInv
<1>1. /\ UNCHANGED <<written, delivered, consumed, replies, pollPc, at, ready, uncompleted, futureMap,
                     tasks, result, backlog, active, finished, status, residue>>
      /\ UNCHANGED requestVars
      /\ link[c] = "connecting" /\ fd \notin InUse /\ pollPc = "poll"
  BY DEF Accept, Waiting, rpcVars, poolVars, requestVars
<1>2. ReadyOpen'
  BY <1>1 DEF ReadyOpen
<1>3. CASE \E i \in 1..Slots :
             /\ slots[i] = NoFd
             /\ slots' = [slots EXCEPT ![i] = fd]
             /\ link' = [link EXCEPT ![c] = "open"]
             /\ fdOf' = [fdOf EXCEPT ![c] = fd]
  <2>1. PICK i \in 1..Slots : slots[i] = NoFd /\ slots' = [slots EXCEPT ![i] = fd]
    BY <1>3
  <2>2. link' = [link EXCEPT ![c] = "open"] /\ fdOf' = [fdOf EXCEPT ![c] = fd] /\ fd # NoFd
    BY <1>3, ServerAssumption
  <2>3. Types'
    BY <1>1, <2>1, <2>2 DEF Types, TypeOK
  <2>4. \A d \in Conns : Connected(d)' <=> Connected(d) \/ d = c
    BY <2>2 DEF Connected, Types, TypeOK
  <2>5. \A d \in Conns : /\ d # c => fdOf'[d] = fdOf[d] /\ link'[d] = link[d]
                         /\ fdOf'[c] = fd /\ ~Connected(c)
    BY <1>1, <2>2 DEF Types, TypeOK, Connected
  <2>6. InUse' = InUse \cup {fd}
    <3>1. \A j \in 1..Slots : slots'[j] = IF j = i THEN fd ELSE slots[j]
      BY <2>1 DEF Types, TypeOK
    <3> QED BY <2>1, <2>2, <3>1 DEF InUse
  <2>7. InUse' = {fdOf'[d] : d \in {x \in Conns : Connected(x)'}}
    BY <2>4, <2>5, <2>6 DEF Connections, SlotsMatch
  <2>8. \A d, e \in Conns : Connected(d)' /\ Connected(e)' /\ fdOf'[d] = fdOf'[e] => d = e
    <3>1. \A d \in Conns : Connected(d) => fdOf[d] # fd
      BY <1>1 DEF Connections, SlotsMatch
    <3> QED BY <2>4, <2>5, <3>1 DEF Connections, SlotsMatch
  <2>9. \A j, k \in 1..Slots : slots'[j] = slots'[k] /\ slots'[j] # NoFd => j = k
    <3>1. \A j \in 1..Slots : slots[j] # fd
      BY <1>1, <2>2 DEF InUse
    <3>2. \A j \in 1..Slots : slots'[j] = IF j = i THEN fd ELSE slots[j]
      BY <2>1 DEF Types, TypeOK
    <3> QED BY <3>1, <3>2 DEF Connections, SlotsMatch
  <2>10. SlotsMatch'
    BY <2>7, <2>8, <2>9 DEF SlotsMatch
  <2>11. HoldersStay
    BY <1>1, <2>4, <2>5 DEF HoldersStay, Holds
  <2> QED BY <1>1, <1>2, <2>3, <2>10, <2>11 DEF Connections
<1>4. CASE link' = [link EXCEPT ![c] = "refused"] /\ UNCHANGED <<slots, fdOf>>
  <2>1. Types'
    BY <1>1, <1>4 DEF Types, TypeOK
  <2>2. \A d \in Conns : /\ Connected(d)' <=> Connected(d)
                         /\ link[d] = "closed" => link'[d] = "closed"
    BY <1>1, <1>4 DEF Connected, Types, TypeOK
  <2>3. InUse' = InUse
    BY <1>4 DEF InUse
  <2>4. SlotsMatch' /\ HoldersStay
    BY <1>4, <2>2, <2>3 DEF Connections, SlotsMatch, HoldersStay, Holds
  <2> QED BY <1>1, <1>2, <2>1, <2>4 DEF Connections
<1> QED BY <1>3, <1>4 DEF Accept

\* A step of the poll thread that neither reads nor writes.
IdlePoll == PollClients \/ SkipRead \/ NoResultYet \/ GetThrows

LEMMA IdlePollTypes ==
  ASSUME ServerInv, IdlePoll \/ UNCHANGED vars
  PROVE  Types' /\ Connections' /\ HoldersStay /\ UNCHANGED requestVars
<1> USE DEF ServerInv
<1>0. Slots \in Nat \ {0} /\ at \in 1..Slots /\ ready \subseteq 1..Slots
  BY ServerAssumption DEF Types, TypeOK
<1>1. /\ UNCHANGED <<link, fdOf, written, delivered, consumed, replies, slots, uncompleted, futureMap,
                     tasks, result, backlog, active, finished, residue>>
      /\ UNCHANGED requestVars
  BY DEF IdlePoll, PollClients, SkipRead, NoResultYet, GetThrows, netVars, pollVars, rpcVars, poolVars,
     requestVars, vars
<1>2. InUse' = InUse /\ \A c \in Conns : Connected(c)' <=> Connected(c)
  BY <1>1 DEF InUse, Connected
<1>3. SlotsMatch' /\ HoldersStay
  BY <1>1, <1>2 DEF Connections, SlotsMatch, HoldersStay, Holds
<1>4. /\ at' \in 1..Slots /\ pollPc' \in {"poll", "in", "out"} /\ ready' \subseteq 1..Slots
      /\ ReadyOpen' /\ status' \in {"up", "terminated", "corrupt"}
  <2>1. CASE PollClients
    BY <1>0, <1>1, <2>1 DEF PollClients, ReadyOpen, Types, TypeOK
  <2>2. CASE SkipRead
    <3>1. \A i \in ready : i > at => slots'[i] # NoFd
      BY <1>1, <2>2 DEF SkipRead, AtSlot, Connections, ReadyOpen
    <3>2. ready' = ready /\ status' = status
      BY <2>2 DEF SkipRead
    <3>3. CASE slots[at] = NoFd
      BY <1>0, <2>2, <3>1, <3>2, <3>3, NextSlotReady DEF SkipRead, Types, TypeOK
    <3>4. CASE slots[at] # NoFd
      BY <1>0, <1>1, <2>2, <3>1, <3>2, <3>4 DEF SkipRead, ReadyOpen, Types, TypeOK
    <3> QED BY <3>3, <3>4
  <2>3. CASE NoResultYet
    <3>1. \A i \in ready : i > at => slots'[i] # NoFd
      BY <1>1, <2>3 DEF NoResultYet, AtSlot, Connections, ReadyOpen
    <3> QED BY <1>0, <2>3, <3>1, NextSlotReady DEF NoResultYet, Types, TypeOK
  <2>4. CASE GetThrows \/ UNCHANGED vars
    BY <1>0, <1>1, <2>4 DEF GetThrows, vars, pollVars, Connections, ReadyOpen, Types, TypeOK
  <2> QED BY <2>1, <2>2, <2>3, <2>4 DEF IdlePoll
<1>5. Types'
  BY <1>0, <1>1, <1>4 DEF Types, TypeOK
<1> QED BY <1>1, <1>3, <1>4, <1>5 DEF Connections

-----------------------------------------------------------------------------
(***************************************************************************)
(* A chunk is read.                                                        *)
(***************************************************************************)

\* The new task is the last one, and the others stay as they are.
LEMMA AppendTask ==
  ASSUME Types, NEW x \in [fd : Fds, chunk : Data], tasks' = Append(tasks, x)
  PROVE  /\ Len(tasks) \in Nat /\ Len(tasks') = Len(tasks) + 1 /\ tasks' \in Seq([fd : Fds, chunk : Data])
         /\ Ids' = Ids \cup {Len(tasks) + 1} /\ tasks'[Len(tasks) + 1] = x
         /\ \A t \in Ids : /\ tasks'[t] = tasks[t]
                           /\ Owner(t)' = Owner(t) /\ From(t)' = From(t) /\ End(t)' = End(t)
BY AppendProperties, LenProperties DEF Types, TypeOK, Ids, Owner, From, End

LEMMA AppendEnds ==
  ASSUME Types, NEW n \in Nat, n = Len(tasks),
         NEW x \in [fd : Fds, chunk : Data], tasks' = Append(tasks, x)
  PROVE  /\ \A c, pos : \A k \in 0..n : EndsAt(c, k, pos) => EndsAt(c, k, pos)'
         /\ \A c, pos : x.chunk.conn # c /\ EndsAt(c, n, pos) => EndsAt(c, n + 1, pos)'
         /\ EndsAt(x.chunk.conn, n + 1, x.chunk.from + x.chunk.len)'
<1>1. /\ tasks'[n + 1] = x
      /\ \A t \in 1..n : Owner(t)' = Owner(t) /\ End(t)' = End(t)
  BY AppendTask DEF Ids
<1>2. Owner(n + 1)' = x.chunk.conn /\ End(n + 1)' = x.chunk.from + x.chunk.len
  BY <1>1 DEF Owner, End
<1>3. ASSUME NEW c, NEW pos, NEW k \in 0..n, EndsAt(c, k, pos) PROVE EndsAt(c, k, pos)'
  <2>1. \A t \in 1..k : Owner(t)' = Owner(t) /\ End(t)' = End(t)
    BY <1>1, <1>3
  <2>2. CASE pos = 0 /\ \A s \in 1..k : Owner(s) # c
    BY <2>1, <2>2 DEF EndsAt
  <2>3. ASSUME NEW s \in 1..k, Owner(s) = c, End(s) = pos, \A r \in s + 1..k : Owner(r) # c
        PROVE  EndsAt(c, k, pos)'
    <3>1. \A r \in s + 1..k : r \in 1..k
      BY <1>1, <1>3, <2>3
    <3> QED BY <2>1, <2>3, <3>1 DEF EndsAt
  <2> QED BY <1>3, <2>2, <2>3 DEF EndsAt
<1>4. ASSUME NEW c, NEW pos, x.chunk.conn # c, EndsAt(c, n, pos) PROVE EndsAt(c, n + 1, pos)'
  <2>1. \A t \in 1..n + 1 : t \in 1..n \/ t = n + 1
    OBVIOUS
  <2>2. CASE pos = 0 /\ \A s \in 1..n : Owner(s) # c
    BY <1>1, <1>2, <1>4, <2>1, <2>2 DEF EndsAt
  <2>3. ASSUME NEW s \in 1..n, Owner(s) = c, End(s) = pos, \A r \in s + 1..n : Owner(r) # c
        PROVE  EndsAt(c, n + 1, pos)'
    <3>1. \A r \in s + 1..n + 1 : (r \in 1..n /\ r \in s + 1..n) \/ r = n + 1
      BY <2>3
    <3>2. s \in 1..n + 1
      OBVIOUS
    <3> QED BY <1>1, <1>2, <1>4, <2>3, <3>1, <3>2 DEF EndsAt
  <2> QED BY <1>4, <2>2, <2>3 DEF EndsAt
<1>5. EndsAt(x.chunk.conn, n + 1, x.chunk.from + x.chunk.len)'
  <2>1. n + 1 \in 1..n + 1 /\ \A r \in (n + 1) + 1..n + 1 : FALSE
    OBVIOUS
  <2> QED BY <1>2, <2>1 DEF EndsAt
<1> QED BY <1>3, <1>4, <1>5

\* The task for the bytes of c, on descriptor fd, between two positions.
NewTask(c, fd, from, to) ==
  [fd |-> fd, chunk |-> [conn |-> c, from |-> from, len |-> to - from, pure |-> TRUE]]

\* ReadChunk, with names for what it reads.
ReadAs(c, fd, n, from, to) ==
  /\ n = Len(tasks) /\ from = consumed[c] /\ to = delivered[c] /\ from < to
  /\ Holds(c, fd)
  /\ consumed' = [consumed EXCEPT ![c] = to]
  /\ tasks' = Append(tasks, NewTask(c, fd, from, to))
  /\ Pool!Submit(n + 1)
  /\ futureMap' = [futureMap EXCEPT ![fd] = n + 1]
  /\ UNCHANGED <<link, fdOf, written, delivered, replies, slots, at, ready, uncompleted, result, status,
                 residue>>

LEMMA ReadChunkAs ==
  ASSUME ServerInv, ReadChunk
  PROVE  /\ \E c \in Conns, fd \in Fds, n, from, to \in Nat : ReadAs(c, fd, n, from, to)
         /\ pollPc' = "out" /\ Connections'
<1> USE DEF ServerInv
<1> DEFINE fd == slots[at]
           c == ConnOf(fd)
           t == Len(tasks) + 1
<1>1. /\ pollPc = "in" /\ at \in ready /\ consumed[c] < delivered[c]
      /\ consumed' = [consumed EXCEPT ![c] = delivered[c]]
      /\ tasks' = Append(tasks, NewTask(c, fd, consumed[c], delivered[c]))
      /\ Pool!Submit(t)
      /\ futureMap' = [futureMap EXCEPT ![fd] = t]
      /\ pollPc' = "out"
      /\ UNCHANGED <<link, fdOf, written, delivered, replies, slots, at, ready, uncompleted, result,
                     status, residue>>
  BY DEF ReadChunk, AtSlot, NewTask
<1>2. at \in 1..Slots /\ fd # NoFd /\ fd \in Fds
  BY <1>1 DEF Types, TypeOK, Connections, ReadyOpen
<1>3. c \in Conns /\ Holds(c, fd)
  BY <1>2, SlotInUse, HolderFound DEF Connections
<1>4. InUse' = InUse /\ \A d \in Conns : Connected(d)' <=> Connected(d)
  BY <1>1 DEF InUse, Connected
<1>5. Connections'
  <2>1. slots[at] # NoFd /\ \A i \in ready : i > at => slots[i] # NoFd
    BY <1>1, <1>2 DEF Connections, ReadyOpen
  <2> QED BY <1>1, <1>4, <2>1 DEF Connections, SlotsMatch, ReadyOpen
<1>6. Len(tasks) \in Nat /\ consumed[c] \in Nat /\ delivered[c] \in Nat
  BY <1>3, LenProperties DEF Types, TypeOK
<1> HIDE DEF c, fd
<1>7. ReadAs(c, fd, Len(tasks), consumed[c], delivered[c])
  BY <1>1, <1>3 DEF ReadAs
<1> QED BY <1>1, <1>2, <1>3, <1>5, <1>6, <1>7

LEMMA ReadFacts ==
  ASSUME ServerInv, NEW c \in Conns, NEW fd \in Fds, NEW n \in Nat, NEW from \in Nat, NEW to \in Nat,
         ReadAs(c, fd, n, from, to)
  PROVE  /\ Ids = 1..n /\ Ids' = 1..n + 1 /\ Len(tasks') = n + 1
         /\ tasks' \in Seq([fd : Fds, chunk : Data])
         /\ \A s \in Ids : /\ tasks'[s] = tasks[s] /\ Owner(s) \in Conns /\ tasks[s].fd \in Fds
                           /\ End(s) \in Nat /\ From(s) \in Nat
                           /\ Owner(s)' = Owner(s) /\ From(s)' = From(s) /\ End(s)' = End(s)
         /\ NewTask(c, fd, from, to) \in [fd : Fds, chunk : Data]
         /\ tasks'[n + 1] = NewTask(c, fd, from, to)
         /\ tasks'[n + 1].fd = fd /\ tasks'[n + 1].chunk.pure
         /\ Owner(n + 1)' = c /\ From(n + 1)' = from /\ End(n + 1)' = to
         /\ InTurn' /\ finished' = finished /\ Done' = Done /\ n + 1 \in TaskIds
         /\ finished \subseteq Ids /\ Done <= n
         /\ consumed'[c] = to /\ \A d \in Conns : d # c => consumed'[d] = consumed[d]
         /\ \A d \in Conns, f \in Fds : Holds(d, f)' <=> Holds(d, f)
<1> DEFINE x == NewTask(c, fd, from, to)
<1> USE DEF ServerInv
<1>1. x \in [fd : Fds, chunk : Data] /\ tasks' = Append(tasks, x) /\ n = Len(tasks)
  BY DEF ReadAs, NewTask, Data
<1>2. /\ x.fd = fd /\ x.chunk.pure /\ x.chunk.conn = c /\ x.chunk.from = from
      /\ x.chunk.len = to - from
  BY DEF NewTask
<1> HIDE DEF x
<1>3. /\ Len(tasks') = n + 1 /\ tasks' \in Seq([fd : Fds, chunk : Data])
      /\ Ids' = Ids \cup {n + 1} /\ tasks'[n + 1] = x
      /\ \A t \in Ids : /\ tasks'[t] = tasks[t]
                        /\ Owner(t)' = Owner(t) /\ From(t)' = From(t) /\ End(t)' = End(t)
  BY <1>1, AppendTask
<1>4. Ids = 1..n /\ Ids' = 1..n + 1
  BY <1>1, <1>3 DEF Ids
<1>5. Owner(n + 1)' = c /\ From(n + 1)' = from /\ End(n + 1)' = to
  BY <1>2, <1>3 DEF Owner, From, End
<1>6. \A s \in Ids : Owner(s) \in Conns /\ tasks[s].fd \in Fds /\ End(s) \in Nat /\ From(s) \in Nat
  BY TaskTypes
<1>7. InTurn' /\ finished' = finished /\ Done' = Done
  <2>1. Pool!Submit(Len(tasks) + 1) /\ Len(tasks) \in Nat /\ Len(tasks') = Len(tasks) + 1
    BY <1>1, <1>3 DEF ReadAs
  <2> QED BY <2>1, SubmitInTurn
<1>8. n + 1 \in TaskIds
  BY <1>4, <1>7 DEF InTurn
<1>9. consumed'[c] = to /\ \A d \in Conns : d # c => consumed'[d] = consumed[d]
  BY DEF ReadAs, Types, TypeOK
<1>10. \A d \in Conns, f \in Fds : Holds(d, f)' <=> Holds(d, f)
  BY DEF ReadAs, Holds, Connected
<1>11. finished \subseteq Ids /\ Done <= n
  BY <1>1, InTurnNumbers
<1> QED BY <1>1, <1>2, <1>3, <1>4, <1>5, <1>6, <1>7, <1>8, <1>9, <1>10, <1>11 DEF x

LEMMA ReadChunks ==
  ASSUME ServerInv, NEW c \in Conns, NEW fd \in Fds, NEW n \in Nat, NEW from \in Nat, NEW to \in Nat,
         ReadAs(c, fd, n, from, to)
  PROVE  Chunks'
<1> DEFINE x == NewTask(c, fd, from, to)
<1>1. /\ Ids = 1..n /\ Ids' = 1..n + 1
      /\ \A s \in Ids : /\ tasks'[s] = tasks[s] /\ Owner(s) \in Conns /\ tasks[s].fd \in Fds
                        /\ End(s) \in Nat /\ From(s) \in Nat
                        /\ Owner(s)' = Owner(s) /\ From(s)' = From(s) /\ End(s)' = End(s)
      /\ tasks'[n + 1].fd = fd /\ tasks'[n + 1].chunk.pure
      /\ Owner(n + 1)' = c /\ From(n + 1)' = from /\ End(n + 1)' = to
      /\ consumed'[c] = to /\ \A d \in Conns : d # c => consumed'[d] = consumed[d]
      /\ \A d \in Conns, f \in Fds : Holds(d, f)' <=> Holds(d, f)
  BY ReadFacts
<1>2. /\ n = Len(tasks) /\ from = consumed[c] /\ from < to /\ Holds(c, fd) /\ link' = link
      /\ tasks' = Append(tasks, x) /\ Len(tasks') = n + 1
  BY ReadFacts DEF ReadAs
<1>3. x \in [fd : Fds, chunk : Data] /\ x.chunk.conn = c /\ x.chunk.from + x.chunk.len = to
  BY DEF NewTask, Data, ReadAs
<1> HIDE DEF x
<1>4. Types /\ Chunks
  BY DEF ServerInv, Requested
<1>5. /\ \A d, pos : \A k \in 0..n : EndsAt(d, k, pos) => EndsAt(d, k, pos)'
      /\ \A d, pos : c # d /\ EndsAt(d, n, pos) => EndsAt(d, n + 1, pos)'
      /\ EndsAt(c, n + 1, to)'
  <2>1. EndsAt(x.chunk.conn, n + 1, x.chunk.from + x.chunk.len)'
    BY <1>2, <1>3, <1>4, AppendEnds
  <2>2. EndsAt(c, n + 1, to)'
    BY <1>3, <2>1
  <2> QED BY <1>2, <1>3, <1>4, <2>2, AppendEnds
<1>6. ASSUME NEW q \in Ids, Owner(q) = c PROVE tasks[q].fd = fd /\ End(q) <= from
  BY <1>2, <1>4, <1>6 DEF Chunks, Holds, Connected
<1>7. ASSUME NEW s \in Ids'
      PROVE  /\ tasks'[s].chunk.pure /\ End(s)' <= consumed'[Owner(s)']
             /\ Holds(Owner(s), tasks[s].fd)' \/ link'[Owner(s)'] = "closed"
             /\ EndsAt(Owner(s), s - 1, From(s))'
  <2>1. CASE s \in Ids
    <3>1. /\ tasks[s].chunk.pure /\ End(s) <= consumed[Owner(s)]
          /\ Holds(Owner(s), tasks[s].fd) \/ link[Owner(s)] = "closed"
          /\ EndsAt(Owner(s), s - 1, From(s))
      BY <1>4, <2>1 DEF Chunks
    <3>2. End(s) <= consumed'[Owner(s)]
      <4>1. CASE Owner(s) = c
        BY <1>1, <1>2, <1>6, <2>1, <4>1
      <4>2. CASE Owner(s) # c
        BY <1>1, <2>1, <3>1, <4>2
      <4> QED BY <4>1, <4>2
    <3>3. Holds(Owner(s), tasks[s].fd)' \/ link'[Owner(s)'] = "closed"
      <4>1. Owner(s) \in Conns /\ tasks[s].fd \in Fds /\ tasks'[s].fd = tasks[s].fd /\ Owner(s)' = Owner(s)
        BY <1>1, <2>1
      <4> QED BY <1>1, <1>2, <3>1, <4>1 DEF Holds, Connected
    <3>4. EndsAt(Owner(s), s - 1, From(s))'
      <4>1. PICK d, pos : d = Owner(s) /\ pos = From(s)
        OBVIOUS
      <4>2. Owner(s)' = d /\ From(s)' = pos /\ s - 1 \in 0..n
        BY <1>1, <2>1, <4>1
      <4>3. EndsAt(d, s - 1, pos)'
        BY <1>5, <3>1, <4>1, <4>2
      <4> QED BY <4>2, <4>3 DEF EndsAt
    <3> QED BY <1>1, <2>1, <3>1, <3>2, <3>3, <3>4
  <2>2. CASE s = n + 1
    <3>1. EndsAt(c, n, from)'
      BY <1>2, <1>4, <1>5 DEF Chunks
    <3>2. Owner(s)' = c /\ From(s)' = from /\ s - 1 = n /\ End(s)' = to /\ tasks'[s].fd = fd
      BY <1>1, <2>2
    <3>3. EndsAt(Owner(s), s - 1, From(s))'
      BY <3>1, <3>2 DEF EndsAt
    <3>4. Holds(Owner(s), tasks[s].fd)'
      BY <1>1, <1>2, <3>2 DEF Holds, Connected
    <3> QED BY <1>1, <2>2, <3>2, <3>3, <3>4
  <2> QED BY <1>1, <2>1, <2>2
<1>8. ASSUME NEW r \in Ids', NEW s \in Ids', Owner(r)' = Owner(s)'
      PROVE  tasks'[r].fd = tasks'[s].fd /\ (r < s => End(r)' <= From(s)')
  <2>1. CASE r \in Ids /\ s \in Ids
    <3>1. Owner(r) = Owner(s)
      BY <1>1, <1>8, <2>1
    <3>2. tasks[r].fd = tasks[s].fd /\ (r < s => End(r) <= From(s))
      BY <1>4, <2>1, <3>1 DEF Chunks
    <3> QED BY <1>1, <2>1, <3>2
  <2>2. CASE r \in Ids /\ s = n + 1
    BY <1>1, <1>6, <1>8, <2>2
  <2>3. CASE r = n + 1 /\ s \in Ids
    <3>1. ~(r < s)
      BY <1>1, <2>3
    <3> QED BY <1>1, <1>6, <1>8, <2>3, <3>1
  <2>4. CASE r = n + 1 /\ s = n + 1
    BY <2>4
  <2> QED BY <1>1, <1>8, <2>1, <2>2, <2>3, <2>4
<1>9. ASSUME NEW d \in Conns PROVE EndsAt(d, Len(tasks), consumed[d])'
  <2>1. PICK pos : pos = consumed[d]
    OBVIOUS
  <2>2. CASE d = c
    BY <1>1, <1>2, <1>5, <2>2 DEF EndsAt
  <2>3. CASE d # c
    <3>1. EndsAt(d, n + 1, pos)'
      BY <1>2, <1>4, <1>5, <2>1, <2>3 DEF Chunks
    <3>2. consumed'[d] = pos
      BY <1>1, <2>1, <2>3
    <3> QED BY <1>2, <3>1, <3>2 DEF EndsAt
  <2> QED BY <2>2, <2>3
<1> QED BY <1>7, <1>8, <1>9 DEF Chunks

LEMMA ReadRequests ==
  ASSUME ServerInv, NEW c \in Conns, NEW fd \in Fds, NEW n \in Nat, NEW from \in Nat, NEW to \in Nat,
         ReadAs(c, fd, n, from, to)
  PROVE  Futures' /\ Outstanding' /\ Partials' /\ Answered' /\ Sent'
<1>1. /\ Ids = 1..n /\ Ids' = 1..n + 1 /\ finished \subseteq Ids /\ finished' = finished
      /\ \A s \in Ids : /\ tasks'[s] = tasks[s] /\ Owner(s) \in Conns /\ tasks[s].fd \in Fds
                        /\ Owner(s)' = Owner(s) /\ From(s)' = From(s) /\ End(s)' = End(s)
      /\ tasks'[n + 1].fd = fd /\ Owner(n + 1)' = c
      /\ \A d \in Conns, f \in Fds : Holds(d, f)' <=> Holds(d, f)
      /\ Done' = Done /\ Done <= n /\ Done \in Nat
  <2>1. Done \in Nat
    BY InTurnNumbers, LenProperties DEF ServerInv, ReadAs
  <2> QED BY <2>1, ReadFacts
<1>2. /\ Holds(c, fd) /\ UNCHANGED <<uncompleted, result, replies, residue>>
      /\ futureMap' = [futureMap EXCEPT ![fd] = n + 1]
  BY DEF ReadAs
<1>3. Types /\ Chunks /\ Futures /\ Outstanding /\ Partials /\ Answered /\ Sent
  BY DEF ServerInv, Requested
<1>4. \A f \in Fds : futureMap'[f] = IF f = fd THEN n + 1 ELSE futureMap[f]
  BY <1>2, <1>3 DEF Types, TypeOK
<1>5. Futures'
  <2>1. ASSUME NEW f \in Fds, futureMap'[f] # NoTask
        PROVE  /\ futureMap'[f] \in Ids' /\ tasks'[futureMap'[f]].fd = f
               /\ Holds(Owner(futureMap[f]), f)'
    <3>1. CASE f = fd
      <4>1. futureMap'[f] = n + 1
        BY <1>4, <3>1
      <4>2. Holds(c, fd)'
        BY <1>1, <1>2
      <4>3. Owner(futureMap[f])' = c
        BY <1>1, <4>1 DEF Owner
      <4>4. Holds(Owner(futureMap[f]), f)'
        BY <3>1, <4>2, <4>3 DEF Holds, Connected
      <4> QED BY <1>1, <3>1, <4>1, <4>4
    <3>2. CASE f # fd
      <4>1. futureMap'[f] = futureMap[f] /\ futureMap[f] # NoTask
        BY <1>4, <2>1, <3>2
      <4>2. futureMap[f] \in Ids /\ tasks[futureMap[f]].fd = f /\ Holds(Owner(futureMap[f]), f)
        BY <1>3, <4>1 DEF Futures
      <4>3. Owner(futureMap[f])' = Owner(futureMap[f]) /\ Owner(futureMap[f]) \in Conns
        BY <1>1, <4>1, <4>2 DEF Owner
      <4>4. Holds(Owner(futureMap[f]), f)'
        BY <4>2, <4>3 DEF ReadAs, Holds, Connected
      <4> QED BY <1>1, <4>1, <4>2, <4>4
    <3> QED BY <3>1, <3>2
  <2> QED BY <2>1 DEF Futures, NoTask
<1>6. Outstanding'
  <2>1. ASSUME NEW t \in Ids', t \notin finished, tasks'[t].fd \notin residue
        PROVE  Holds(Owner(t), tasks[t].fd)'
    <3>1. CASE t \in Ids
      <4>1. Holds(Owner(t), tasks[t].fd)
        BY <1>1, <1>3, <2>1, <3>1 DEF Outstanding
      <4>2. tasks'[t].fd = tasks[t].fd /\ Owner(t)' = Owner(t)
        BY <1>1, <3>1
      <4> QED BY <4>1, <4>2 DEF ReadAs, Holds, Connected
    <3>2. CASE t = n + 1
      <4>1. tasks'[t].fd = fd /\ Owner(t)' = c
        BY <1>1, <3>2
      <4> QED BY <1>2, <4>1 DEF ReadAs, Holds, Connected
    <3> QED BY <1>1, <3>1, <3>2
  <2> QED BY <1>1, <1>2, <2>1 DEF Outstanding
<1>7. Partials'
  <2>1. \A d, pos : EndsAt(d, Done, pos) => EndsAt(d, Done, pos)'
    <3>1. NewTask(c, fd, from, to) \in [fd : Fds, chunk : Data] /\ Done \in 0..n
      BY <1>1, ReadFacts
    <3>2. \A d, pos : \A k \in 0..n : EndsAt(d, k, pos) => EndsAt(d, k, pos)'
      BY <1>3, <3>1, AppendEnds DEF ReadAs
    <3>3. PICK k \in 0..n : k = Done
      BY <3>1
    <3>4. Done' = k
      BY <1>1, <3>3
    <3>5. ASSUME NEW d, NEW pos, EndsAt(d, Done, pos) PROVE EndsAt(d, Done, pos)'
      <4>1. EndsAt(d, k, pos)'
        BY <3>2, <3>3, <3>5
      <4> QED BY <3>4, <4>1 DEF EndsAt
    <3> QED BY <3>5
  <2>2. ASSUME NEW f \in Fds, NEW now \in uncompleted[f]
        PROVE  /\ \E s \in finished : tasks'[s].fd = f /\ Owner(s)' = now.data.conn
               /\ now.remaining # 0 => now.remaining + now.data.len = HeaderLen + BodyLen
               /\ f \notin residue =>
                    /\ now.data.pure /\ Holds(now.data.conn, f)'
                    /\ now.remaining # 0 => EndsAt(now.data.conn, Done, now.data.from + now.data.len)'
               /\ now.data.pure => \A s \in finished :
                    Owner(s)' = now.data.conn /\ IsAnswer(result[s]) => End(s)' <= now.data.from
    <3>1. now.data.conn \in Conns
      BY <1>3 DEF Types, Entries, Data
    <3>2. /\ \E s \in finished : tasks[s].fd = f /\ Owner(s) = now.data.conn
          /\ now.remaining # 0 => now.remaining + now.data.len = HeaderLen + BodyLen
          /\ f \notin residue =>
               /\ now.data.pure /\ Holds(now.data.conn, f)
               /\ now.remaining # 0 => EndsAt(now.data.conn, Done, now.data.from + now.data.len)
          /\ now.data.pure => \A s \in finished :
               Owner(s) = now.data.conn /\ IsAnswer(result[s]) => End(s) <= now.data.from
      BY <1>3, <2>2 DEF Partials
    <3>3. \A s \in finished :
            tasks'[s].fd = tasks[s].fd /\ Owner(s)' = Owner(s) /\ End(s)' = End(s)
      BY <1>1
    <3>4. Holds(now.data.conn, f) => Holds(now.data.conn, f)'
      BY <1>1, <1>3, <3>1
    <3> QED BY <2>1, <3>2, <3>3, <3>4
  <2> QED BY <1>1, <1>2, <2>2 DEF Partials
<1>8. Answered'
  <2>1. \A s \in finished : Owner(s)' = Owner(s) /\ End(s)' = End(s)
    BY <1>1
  <2>2. \A s \in finished : IsAnswer(result[s]) =>
          \E pos \in 0..End(s)' - 1 :
            pos % Total = 0 /\ result[s] = Answer(Owner(s)', RequestAt(pos))
    BY <1>3, <2>1 DEF Answered
  <2>3. \A q, s \in finished :
          q < s /\ Owner(q)' = Owner(s)' /\ IsAnswer(result[q]) /\ IsAnswer(result[s]) =>
            result[q][3] < result[s][3]
    BY <1>3, <2>1 DEF Answered
  <2> QED BY <1>1, <1>2, <2>2, <2>3 DEF Answered
<1>9. Sent'
  <2>1. ASSUME NEW d \in Conns, NEW k \in 1..Len(replies[d]), IsAnswer(replies[d][k])
        PROVE  \E s \in finished :
                 /\ Owner(s)' = d /\ result[s] = replies[d][k]
                 /\ \A f \in Fds : futureMap'[f] # NoTask /\ Owner(futureMap[f])' = d =>
                                     s < futureMap'[f]
    <3>1. PICK s \in finished :
            /\ Owner(s) = d /\ result[s] = replies[d][k]
            /\ \A f \in Fds : futureMap[f] # NoTask /\ Owner(futureMap[f]) = d => s < futureMap[f]
      BY <1>3, <2>1 DEF Sent
    <3>2. ASSUME NEW f \in Fds, futureMap'[f] # NoTask, Owner(futureMap[f])' = d
          PROVE  s < futureMap'[f]
      <4>1. CASE f = fd
        BY <1>1, <1>4, <4>1
      <4>2. CASE f # fd
        <5>1. futureMap'[f] = futureMap[f] /\ futureMap[f] # NoTask /\ futureMap[f] \in Ids
          BY <1>3, <1>4, <3>2, <4>2 DEF Futures
        <5>2. Owner(futureMap[f])' = Owner(futureMap[f])
          BY <1>1, <5>1 DEF Owner
        <5> QED BY <3>1, <3>2, <5>1, <5>2
      <4> QED BY <4>1, <4>2
    <3> QED BY <1>1, <3>1, <3>2
  <2> QED BY <1>1, <1>2, <1>3, <2>1 DEF Sent
<1> QED BY <1>5, <1>6, <1>7, <1>8, <1>9

LEMMA ReadChunkKeeps == ServerInv /\ ReadChunk => ServerInv'
<1> SUFFICES ASSUME ServerInv, ReadChunk PROVE ServerInv'
  OBVIOUS
<1>1. PICK c \in Conns, fd \in Fds, n \in Nat, from \in Nat, to \in Nat : ReadAs(c, fd, n, from, to)
  BY ReadChunkAs
<1>2. Connections' /\ pollPc' = "out"
  BY ReadChunkAs
<1>3. InTurn' /\ Chunks' /\ Futures' /\ Outstanding' /\ Partials' /\ Answered' /\ Sent'
  BY <1>1, ReadFacts, ReadChunks, ReadRequests
<1>4. Types'
  <2>1. tasks' \in Seq([fd : Fds, chunk : Data]) /\ n + 1 \in TaskIds
    BY <1>1, ReadFacts
  <2>2. /\ to = delivered[c] /\ consumed' = [consumed EXCEPT ![c] = to]
        /\ futureMap' = [futureMap EXCEPT ![fd] = n + 1]
        /\ UNCHANGED <<link, fdOf, written, delivered, replies, slots, at, ready, uncompleted, result,
                       status, residue>>
    BY <1>1 DEF ReadAs
  <2>3. /\ consumed' \in [Conns -> Nat] /\ futureMap' \in [Fds -> {NoTask} \cup TaskIds]
        /\ \A d \in Conns : consumed'[d] <= delivered[d] /\ delivered[d] <= written[d]
    BY <2>1, <2>2 DEF ServerInv, Types, TypeOK
  <2> QED BY <1>2, <2>1, <2>2, <2>3 DEF ServerInv, Types, TypeOK
<1> QED BY <1>2, <1>3, <1>4 DEF ServerInv, Requested

-----------------------------------------------------------------------------
(***************************************************************************)
(* A connection ends.                                                      *)
(***************************************************************************)

\* Every task that has not finished is in the pool.
LEMMA UnfinishedSubmitted ==
  ASSUME InTurn, Len(tasks) \in Nat, NEW t \in Ids \ finished
  PROVE  t \in Pool!Submitted \ finished
<1>1. Taken \in Nat /\ Taken = Len(tasks) - Len(backlog) /\ Len(backlog) \in Nat
  BY InTurnNumbers DEF Taken
<1>2. CASE t <= Taken
  <2>1. active = {Taken} /\ t = Taken
    BY <1>1, <1>2 DEF InTurn, Done, Ids
  <2> QED BY <2>1 DEF Pool!Submitted
<1>3. CASE t > Taken
  <2>1. t - Taken \in 1..Len(backlog)
    BY <1>1, <1>3 DEF Ids
  <2>2. backlog[t - Taken] = t
    BY <1>1, <2>1 DEF InTurn, Ids
  <2> QED BY <2>1, <2>2 DEF Pool!Submitted
<1> QED BY <1>1, <1>2, <1>3 DEF Ids

\* ReadEnd, with names for the descriptor and its connection.
EndAs(c, fd) ==
  /\ Holds(c, fd)
  /\ Free(fd)
  /\ link' = [link EXCEPT ![c] = "closed"]
  /\ fdOf' = [fdOf EXCEPT ![c] = NoFd]
  /\ residue' = IF Unfinished(fd) = {} THEN residue \ {fd} ELSE residue \cup {fd}
  /\ UNCHANGED <<written, delivered, consumed, replies, ready, tasks, result, backlog, active, finished>>

LEMMA ReadEndAs ==
  ASSUME ServerInv, ReadEnd
  PROVE  (\E c \in Conns, fd \in Fds : EndAs(c, fd)) /\ Types' /\ Connections'
<1> USE DEF ServerInv
<1> DEFINE fd == slots[at]
           c == ConnOf(fd)
<1>1. /\ pollPc = "in" /\ at \in ready
      /\ Free(fd)
      /\ status' \in {status, "corrupt"}
      /\ slots' = [slots EXCEPT ![at] = NoFd]
      /\ link' = [link EXCEPT ![c] = "closed"]
      /\ fdOf' = [fdOf EXCEPT ![c] = NoFd]
      /\ residue' = IF Unfinished(fd) = {} THEN residue \ {fd} ELSE residue \cup {fd}
      /\ NextSlot
      /\ UNCHANGED <<written, delivered, consumed, replies, ready, tasks, result, backlog, active,
                     finished>>
  BY DEF ReadEnd, AtSlot, ClearSlot, poolVars
<1>2. at \in 1..Slots /\ fd # NoFd /\ fd \in Fds
  BY <1>1 DEF Types, TypeOK, Connections, ReadyOpen
<1>3. c \in Conns /\ Holds(c, fd)
  BY <1>2, SlotInUse, HolderFound DEF Connections
<1>4. EndAs(c, fd)
  BY <1>1, <1>3 DEF EndAs
<1>5. slots[at] = fd
  OBVIOUS
<1> HIDE DEF c, fd
<1>6. ReadyOpen' /\ at' \in 1..Slots /\ pollPc' \in {"poll", "in"}
  <2>1. Slots \in Nat /\ ready \subseteq 1..Slots
    BY ServerAssumption DEF Types, TypeOK
  <2>2. \A i \in ready : i > at => slots'[i] # NoFd
    <3>1. \A i \in ready : i > at => slots[i] # NoFd /\ slots'[i] = slots[i]
      BY <1>1, <1>2, <2>1 DEF Types, TypeOK, Connections, ReadyOpen
    <3> QED BY <3>1
  <2> QED BY <1>1, <2>2, NextSlotReady
<1>7. Types'
  <2>1. /\ uncompleted' = [uncompleted EXCEPT ![fd] = {}]
        /\ futureMap' = [futureMap EXCEPT ![fd] = NoTask]
    BY <1>1 DEF Free
  <2>2. uncompleted' \in [Fds -> SUBSET Entries] /\ futureMap' \in [Fds -> {NoTask} \cup TaskIds]
    BY <2>1 DEF Types, TypeOK
  <2>3. \A f \in Fds : \A now \in uncompleted'[f] : now.data \in Data /\ now.remaining \in Nat
    BY <2>2 DEF Entries
  <2>4. /\ link' \in [Conns -> {"new", "connecting", "open", "leaving", "closed", "refused"}]
        /\ fdOf' \in [Conns -> Fds \cup {NoFd}] /\ slots' \in [1..Slots -> Fds \cup {NoFd}]
        /\ residue' \subseteq Fds /\ status' \in {"up", "terminated", "corrupt"}
    BY <1>1, <1>2 DEF Types, TypeOK
  <2> QED BY <1>1, <1>6, <2>2, <2>3, <2>4 DEF Types, TypeOK
<1>8. SlotsMatch'
  <2>1. \A j \in 1..Slots : slots'[j] = IF j = at THEN NoFd ELSE slots[j]
    BY <1>1, <1>2 DEF Types, TypeOK
  <2>2. \A d \in Conns : /\ Connected(d)' <=> Connected(d) /\ d # c
                         /\ d # c => fdOf'[d] = fdOf[d]
    BY <1>1, <1>3 DEF Connected, Types, TypeOK
  <2>3. \A j \in 1..Slots : slots[j] = fd <=> j = at
    BY <1>2, <1>5 DEF Connections, SlotsMatch
  <2>4. InUse' = InUse \ {fd}
    BY <1>5, <2>1, <2>3 DEF InUse
  <2>5. \A d \in Conns : Connected(d) /\ fdOf[d] = fd <=> d = c
    BY <1>3 DEF Holds, Connections, SlotsMatch
  <2>6. InUse' = {fdOf'[d] : d \in {y \in Conns : Connected(y)'}}
    <3>1. InUse = {fdOf[d] : d \in {y \in Conns : Connected(y)}}
      BY DEF Connections, SlotsMatch
    <3>2. ASSUME NEW f \in InUse' PROVE \E d \in Conns : Connected(d)' /\ fdOf'[d] = f
      BY <2>2, <2>4, <2>5, <3>1, <3>2
    <3>3. ASSUME NEW d \in Conns, Connected(d)' PROVE fdOf'[d] \in InUse'
      BY <2>2, <2>4, <2>5, <3>1, <3>3
    <3> QED BY <3>2, <3>3
  <2> QED BY <2>1, <2>2, <2>6 DEF Connections, SlotsMatch
<1> QED BY <1>2, <1>3, <1>4, <1>6, <1>7, <1>8 DEF Connections

LEMMA ReadEndKeeps == ServerInv /\ ReadEnd => ServerInv'
<1> SUFFICES ASSUME ServerInv, ReadEnd PROVE ServerInv'
  OBVIOUS
<1>1. PICK c \in Conns, fd \in Fds : EndAs(c, fd)
  BY ReadEndAs
<1>2. Types' /\ Connections'
  BY ReadEndAs
<1>3. Types /\ Connections /\ InTurn /\ Chunks /\ Futures /\ Outstanding /\ Partials /\ Answered /\ Sent
  BY DEF ServerInv, Requested
<1>4. /\ UNCHANGED <<consumed, replies, tasks, result, backlog, active, finished>>
      /\ Holds(c, fd) /\ link'[c] = "closed"
      /\ uncompleted'[fd] = {} /\ futureMap'[fd] = NoTask
      /\ \A f \in Fds : f # fd => uncompleted'[f] = uncompleted[f] /\ futureMap'[f] = futureMap[f]
      /\ \A f \in Fds : f # fd => (f \in residue' <=> f \in residue)
      /\ fd \notin residue' => Unfinished(fd) = {}
  BY <1>1, <1>3 DEF EndAs, Free, Types, TypeOK
<1>5. /\ \A d \in Conns : d # c => link'[d] = link[d]
      /\ \A d \in Conns : d # c => \A f \in Fds : Holds(d, f) => Holds(d, f)'
      /\ \A f \in Fds : f # fd => ~Holds(c, f)
  BY <1>1, <1>3 DEF EndAs, Holds, Connected, Types, TypeOK
<1>6. InTurn' /\ Done' = Done /\ Ids' = Ids
  BY <1>3, <1>4 DEF InTurn, Done, Taken, Ids
<1>7. \A t \in Ids : /\ Owner(t)' = Owner(t) /\ From(t)' = From(t) /\ End(t)' = End(t)
                     /\ tasks[t].fd \in Fds /\ Owner(t) \in Conns
  BY <1>3, <1>4, TaskTypes DEF Owner, From, End
<1>8. \A d, k, pos : EndsAt(d, k, pos)' <=> EndsAt(d, k, pos)
  BY <1>4 DEF EndsAt, Owner, End
<1>9. Chunks'
  BY <1>3, <1>4, <1>5, <1>6, <1>7, <1>8 DEF Chunks
<1>10. Futures'
  <2>1. ASSUME NEW f \in Fds, futureMap'[f] # NoTask
        PROVE  /\ futureMap'[f] \in Ids /\ tasks[futureMap'[f]].fd = f
               /\ Holds(Owner(futureMap[f]), f)'
    <3>1. f # fd /\ futureMap'[f] = futureMap[f]
      BY <1>4, <2>1
    <3>2. futureMap[f] \in Ids /\ tasks[futureMap[f]].fd = f /\ Holds(Owner(futureMap[f]), f)
      BY <1>3, <2>1, <3>1 DEF Futures
    <3>3. Owner(futureMap[f])' = Owner(futureMap[f]) /\ Owner(futureMap[f]) \in Conns
      BY <1>4, <1>7, <3>1, <3>2 DEF Owner
    <3>4. Holds(Owner(futureMap[f]), f)'
      <4>1. PICK d \in Conns : d = Owner(futureMap[f])
        BY <3>3
      <4>2. Holds(d, f)'
        BY <1>5, <3>1, <3>2, <4>1
      <4> QED BY <3>3, <4>1, <4>2 DEF Holds, Connected
    <3> QED BY <3>1, <3>2, <3>4
  <2> QED BY <1>4, <1>6, <2>1 DEF Futures, NoTask
<1>11. Outstanding'
  <2>1. ASSUME NEW t \in Ids, t \notin finished, tasks[t].fd \notin residue'
        PROVE  Holds(Owner(t), tasks[t].fd)'
    <3>1. CASE tasks[t].fd = fd
      <4>1. t \in Unfinished(fd)
        BY <1>3, <2>1, <3>1, UnfinishedSubmitted, LenProperties DEF Unfinished, Types, TypeOK
      <4> QED BY <1>4, <2>1, <3>1, <4>1
    <3>2. CASE tasks[t].fd # fd
      <4>1. Holds(Owner(t), tasks[t].fd)
        BY <1>3, <1>4, <1>7, <2>1, <3>2 DEF Outstanding
      <4>2. PICK d \in Conns, f \in Fds : d = Owner(t) /\ f = tasks[t].fd
        BY <1>7
      <4>3. Holds(d, f)'
        BY <1>5, <3>2, <4>1, <4>2
      <4> QED BY <1>4, <1>7, <4>2, <4>3 DEF Holds, Connected
    <3> QED BY <3>1, <3>2
  <2> QED BY <1>4, <1>6, <2>1 DEF Outstanding
<1>12. Partials'
  <2>1. ASSUME NEW f \in Fds, NEW now \in uncompleted'[f]
        PROVE  /\ \E s \in finished : tasks[s].fd = f /\ Owner(s)' = now.data.conn
               /\ now.remaining # 0 => now.remaining + now.data.len = HeaderLen + BodyLen
               /\ f \notin residue' =>
                    /\ now.data.pure /\ Holds(now.data.conn, f)'
                    /\ now.remaining # 0 => EndsAt(now.data.conn, Done, now.data.from + now.data.len)'
               /\ now.data.pure => \A s \in finished :
                    Owner(s)' = now.data.conn /\ IsAnswer(result[s]) => End(s)' <= now.data.from
    <3>1. f # fd /\ now \in uncompleted[f]
      BY <1>4, <2>1
    <3>2. now.data.conn \in Conns
      BY <1>3, <3>1 DEF Types, Entries, Data
    <3>3. finished \subseteq Ids
      BY <1>3, InTurnNumbers, LenProperties DEF Types, TypeOK
    <3>4. \A s \in finished : Owner(s)' = Owner(s) /\ End(s)' = End(s)
      BY <1>7, <3>3
    <3>5. f \notin residue' => now.data.pure /\ Holds(now.data.conn, f)'
      BY <1>3, <1>4, <1>5, <3>1, <3>2 DEF Partials
    <3>6. f \notin residue' /\ now.remaining # 0 => EndsAt(now.data.conn, Done, now.data.from + now.data.len)'
      <4>1. PICK d, k, pos : d = now.data.conn /\ k = Done /\ pos = now.data.from + now.data.len
        OBVIOUS
      <4>2. f \notin residue' /\ now.remaining # 0 => EndsAt(d, k, pos)'
        BY <1>3, <1>4, <1>8, <3>1, <4>1 DEF Partials
      <4> QED BY <1>6, <4>1, <4>2 DEF EndsAt
    <3> QED BY <1>3, <3>1, <3>4, <3>5, <3>6 DEF Partials
  <2> QED BY <1>4, <1>6, <2>1 DEF Partials
<1>13. Answered'
  BY <1>3, <1>4 DEF Answered, Owner, End
<1>14. Sent'
  <2>1. \A f \in Fds : futureMap'[f] # NoTask => futureMap'[f] = futureMap[f]
    BY <1>4
  <2> QED BY <1>3, <1>4, <2>1 DEF Sent, Owner, NoTask
<1> QED
  BY <1>2, <1>6, <1>9, <1>10, <1>11, <1>12, <1>13, <1>14 DEF ServerInv, Requested

-----------------------------------------------------------------------------
(***************************************************************************)
(* A result is written.                                                    *)
(***************************************************************************)

\* WriteResult, with names for the descriptor, its connection and the task.
WriteAs(c, fd, t) ==
  /\ Holds(c, fd) /\ t = futureMap[fd] /\ t \in finished
  /\ futureMap' = [futureMap EXCEPT ![fd] = NoTask]
  /\ replies' \in {replies, [replies EXCEPT ![c] = Append(@, result[t])]}
  /\ UNCHANGED <<link, fdOf, written, delivered, consumed, slots, ready, uncompleted, tasks, result,
                 backlog, active, finished, status, residue>>

LEMMA WriteResultAs ==
  ASSUME ServerInv, WriteResult
  PROVE  /\ \E c \in Conns, fd \in Fds, t \in Ids : WriteAs(c, fd, t)
         /\ Connections' /\ at' \in 1..Slots /\ pollPc' \in {"poll", "in"}
<1> USE DEF ServerInv
<1> DEFINE fd == slots[at]
           c == ConnOf(fd)
           t == futureMap[fd]
<1>1. /\ pollPc = "out" /\ t \in finished
      /\ futureMap' = [futureMap EXCEPT ![fd] = NoTask]
      /\ replies' \in {replies, [replies EXCEPT ![c] = Append(@, result[t])]}
      /\ NextSlot
      /\ UNCHANGED <<link, fdOf, written, delivered, consumed, slots, ready, uncompleted, tasks, result,
                     backlog, active, finished, status, residue>>
  BY DEF WriteResult, AtSlot, TakeFuture, poolVars
<1>2. at \in 1..Slots /\ fd # NoFd /\ fd \in Fds
  BY <1>1 DEF Types, TypeOK, Connections, ReadyOpen
<1>3. c \in Conns /\ Holds(c, fd)
  BY <1>2, SlotInUse, HolderFound DEF Connections
<1> HIDE DEF c, fd
<1>4. WriteAs(c, fd, t) /\ t \in Ids
  BY <1>1, <1>3, InTurnNumbers, LenProperties DEF WriteAs, Types, TypeOK
<1>5. InUse' = InUse /\ \A d \in Conns : Connected(d)' <=> Connected(d)
  BY <1>1 DEF InUse, Connected
<1>6. \A i \in ready : i > at => slots'[i] # NoFd
  BY <1>1 DEF Connections, ReadyOpen
<1>7. Connections' /\ at' \in 1..Slots /\ pollPc' \in {"poll", "in"}
  BY <1>1, <1>5, <1>6, NextSlotReady DEF Connections, SlotsMatch
<1> QED BY <1>2, <1>3, <1>4, <1>7

LEMMA WriteResultKeeps == ServerInv /\ WriteResult => ServerInv'
<1> SUFFICES ASSUME ServerInv, WriteResult PROVE ServerInv'
  OBVIOUS
<1>1. PICK c \in Conns, fd \in Fds, t \in Ids : WriteAs(c, fd, t)
  BY WriteResultAs
<1>2. Connections' /\ at' \in 1..Slots /\ pollPc' \in {"poll", "in"}
  BY WriteResultAs
<1>3. Types /\ Connections /\ InTurn /\ Chunks /\ Futures /\ Outstanding /\ Partials /\ Answered /\ Sent
  BY DEF ServerInv, Requested
<1>4. /\ UNCHANGED <<link, fdOf, written, delivered, consumed, slots, ready, uncompleted, tasks, result,
                     backlog, active, finished, status, residue>>
      /\ Holds(c, fd) /\ t = futureMap[fd] /\ t \in finished
      /\ futureMap'[fd] = NoTask /\ \A f \in Fds : f # fd => futureMap'[f] = futureMap[f]
      /\ futureMap' \in [Fds -> {NoTask} \cup TaskIds]
      /\ replies' \in {replies, [replies EXCEPT ![c] = Append(@, result[t])]}
  BY <1>1, <1>3 DEF WriteAs, Types, TypeOK
<1>5. t \in Nat /\ t # NoTask /\ t \in TaskIds /\ result[t] \in Results
  BY <1>3 DEF Ids, InTurn, NoTask, Types
<1>6. Owner(t) = c
  BY <1>3, <1>4, <1>5, HolderUnique, TaskTypes DEF Futures, Connections
<1>7. InTurn' /\ Done' = Done /\ Ids' = Ids
  BY <1>3, <1>4 DEF InTurn, Done, Taken, Ids
<1>8. replies' \in [Conns -> Seq(Results)]
  <2>1. Append(replies[c], result[t]) \in Seq(Results)
    BY <1>3, <1>5, AppendProperties DEF Types
  <2> QED BY <1>3, <1>4, <2>1 DEF Types
<1>9. Types'
  BY <1>2, <1>3, <1>4, <1>8 DEF Types, TypeOK
<1>10. \A f \in Fds : futureMap'[f] # NoTask => f # fd /\ futureMap'[f] = futureMap[f]
  BY <1>4
<1>11. Chunks' /\ Outstanding' /\ Partials' /\ Answered'
  BY <1>3, <1>4, <1>7
     DEF Chunks, Outstanding, Partials, Answered, EndsAt, Owner, From, End, Holds, Connected
<1>12. Futures'
  BY <1>3, <1>4, <1>7, <1>10 DEF Futures, Owner, Holds, Connected, NoTask
<1>13. Sent'
  <2>1. ASSUME NEW d \in Conns, NEW n \in 1..Len(replies[d]), IsAnswer(replies[d][n])
        PROVE  /\ \E s \in finished :
                    /\ Owner(s) = d /\ result[s] = replies[d][n]
                    /\ \A f \in Fds : futureMap'[f] # NoTask /\ Owner(futureMap'[f]) = d =>
                                        s < futureMap'[f]
               /\ \A m \in 1..n - 1 : IsAnswer(replies[d][m]) => replies[d][m][3] < replies[d][n][3]
    BY <1>3, <1>10, <2>1 DEF Sent
  <2>2. CASE replies' = replies
    BY <1>4, <2>1, <2>2 DEF Sent, Owner, NoTask
  <2>3. CASE replies' = [replies EXCEPT ![c] = Append(@, result[t])]
    <3> DEFINE k == Len(replies[c]) + 1
    <3>1. /\ replies'[c] = Append(replies[c], result[t]) /\ Len(replies'[c]) = k /\ k \in Nat \ {0}
          /\ replies'[c][k] = result[t] /\ \A n \in 1..k - 1 : replies'[c][n] = replies[c][n]
          /\ \A d \in Conns : d # c => replies'[d] = replies[d]
      BY <1>3, <1>5, <2>3, AppendProperties, LenProperties DEF Types
    <3> HIDE DEF k
    <3>2. ASSUME NEW d \in Conns, NEW n \in 1..Len(replies'[d]), IsAnswer(replies'[d][n])
          PROVE  /\ \E s \in finished :
                      /\ Owner(s) = d /\ result[s] = replies'[d][n]
                      /\ \A f \in Fds : futureMap'[f] # NoTask /\ Owner(futureMap'[f]) = d =>
                                          s < futureMap'[f]
                 /\ \A m \in 1..n - 1 : IsAnswer(replies'[d][m]) => replies'[d][m][3] < replies'[d][n][3]
      <4>1. CASE d # c
        <5>1. replies'[d] = replies[d]
          BY <3>1, <4>1
        <5>2. n \in 1..Len(replies[d]) /\ IsAnswer(replies[d][n])
          BY <3>2, <5>1
        <5> QED BY <2>1, <5>1, <5>2
      <4>2. CASE d = c /\ n # k
        <5>1. n \in 1..Len(replies[d]) /\ replies'[d][n] = replies[d][n]
          BY <3>1, <3>2, <4>2 DEF k
        <5>2. \A m \in 1..n - 1 : m \in 1..k - 1 /\ replies'[d][m] = replies[d][m]
          BY <3>1, <3>2, <4>2
        <5> QED BY <2>1, <3>2, <5>1, <5>2
      <4>3. CASE d = c /\ n = k
        <5>1. ASSUME NEW f \in Fds, futureMap'[f] # NoTask, Owner(futureMap'[f]) = d PROVE FALSE
          <6>1. f # fd /\ Holds(c, f)
            BY <1>3, <1>10, <4>3, <5>1 DEF Futures
          <6> QED BY <1>4, <6>1 DEF Holds
        <5>2. ASSUME NEW m \in 1..n - 1, IsAnswer(replies'[d][m])
              PROVE  replies'[d][m][3] < replies'[d][n][3]
          <6>1. m \in 1..Len(replies[c]) /\ replies'[d][m] = replies[c][m]
            BY <3>1, <4>3 DEF k
          <6>2. PICK s \in finished :
                  /\ Owner(s) = c /\ result[s] = replies[c][m]
                  /\ \A f \in Fds : futureMap[f] # NoTask /\ Owner(futureMap[f]) = c => s < futureMap[f]
            BY <1>3, <5>2, <6>1 DEF Sent
          <6>3. s < t
            BY <1>4, <1>5, <1>6, <6>2
          <6> QED BY <1>3, <1>4, <1>6, <3>1, <3>2, <4>3, <5>2, <6>1, <6>2, <6>3 DEF Answered
        <5> QED BY <1>4, <1>6, <3>1, <4>3, <5>1, <5>2
      <4> QED BY <4>1, <4>2, <4>3
    <3> QED BY <1>4, <3>2 DEF Sent, Owner, NoTask
  <2> QED BY <1>4, <2>2, <2>3
<1> QED BY <1>2, <1>7, <1>9, <1>11, <1>12, <1>13 DEF ServerInv, Requested

-----------------------------------------------------------------------------
(***************************************************************************)
(* What a task makes of its chunk.                                         *)
(***************************************************************************)
LEMMA TotalPositive == Total \in Nat /\ Total > 0 /\ BodyLen \in Nat /\ BodyLen > 0
BY ServerAssumption DEF Total, HeaderLen

LEMMA RequestOrder ==
  /\ \A p \in Nat : RequestAt(p) \in Nat
  /\ \A p, q \in Nat : p < q /\ p % Total = 0 /\ q % Total = 0 => RequestAt(p) < RequestAt(q)
<1> DEFINE T == Total
<1>1. T \in Nat /\ T > 0
  BY TotalPositive
<1> HIDE DEF T
<1>2. \A p \in Nat : p \div T \in Nat
  BY <1>1
<1>3. \A p \in Nat : p % T = 0 => p = T * (p \div T)
  BY <1>1
<1>4. ASSUME NEW a \in Nat, NEW b \in Nat, T * a < T * b PROVE a < b
  <2> SUFFICES ASSUME b <= a PROVE FALSE
    OBVIOUS
  <2>1. PICK e \in Nat : a = b + e
    <3>1. a - b \in Nat /\ a = b + (a - b)
      OBVIOUS
    <3> QED BY <3>1
  <2>2. T * a = T * b + T * e /\ T * e \in Nat /\ T * b \in Int
    BY <1>1, <2>1
  <2> HIDE DEF T
  <2>3. ~(T * b + T * e < T * b)
    BY <2>2
  <2> QED BY <1>4, <2>2, <2>3
<1>5. ASSUME NEW p \in Nat, NEW q \in Nat, p < q, p % T = 0, q % T = 0
      PROVE  p \div T < q \div T
  BY <1>2, <1>3, <1>4, <1>5
<1>6. \A p \in Nat : RequestAt(p) = p \div T + 1
  BY DEF RequestAt, T
<1>7. \A p \in Nat : RequestAt(p) \in Nat
  BY <1>2, <1>6
<1>8. ASSUME NEW p \in Nat, NEW q \in Nat, p < q, p % Total = 0, q % Total = 0
      PROVE  RequestAt(p) < RequestAt(q)
  <2>1. p \div T < q \div T /\ p \div T \in Nat /\ q \div T \in Nat
    BY <1>2, <1>5, <1>8 DEF T
  <2> QED BY <1>6, <2>1
<1> QED BY <1>7, <1>8

LEMMA ParseForms ==
  ASSUME NEW d \in Data, NEW p \in Parse(d)
  PROVE  /\ p \in {"bad", "part", "whole", "extra", "mixed"}
         /\ p # "bad" => d.from % Total = 0 /\ d.len \in HeaderLen..Total
         /\ p = "part" => d.len < HeaderLen + BodyLen
         /\ p = "whole" => d.pure
         /\ p \notin {"bad", "part"} => d.len >= HeaderLen + BodyLen
         /\ p = "mixed" => ~d.pure
<1>1. d.len \in Nat /\ d.pure \in BOOLEAN
  BY DEF Data
<1>2. BodyLen \in Nat /\ HeaderLen = 7 /\ Total = HeaderLen + BodyLen + 2
  BY ServerAssumption DEF HeaderLen, Total
<1> DEFINE aligned == d.from % Total = 0
<1>3. Parse(d) =
        CASE ~aligned \/ d.len < HeaderLen \/ d.len > Total -> {"bad"}
          [] aligned /\ d.len \in HeaderLen..HeaderLen + BodyLen - 1 -> {"part"}
          [] OTHER -> IF ~d.pure THEN {"bad", "mixed"}
                      ELSE IF d.len = Total - 1 THEN {"extra"} ELSE {"whole"}
  BY DEF Parse
<1> HIDE DEF aligned
<1>4. CASE ~aligned \/ d.len < HeaderLen \/ d.len > Total
  <2>1. Parse(d) = {"bad"}
    BY <1>1, <1>2, <1>3, <1>4
  <2> QED BY <2>1
<1>5. CASE aligned /\ d.len \in HeaderLen..HeaderLen + BodyLen - 1
  <2>1. Parse(d) = {"part"}
    BY <1>1, <1>2, <1>3, <1>5
  <2> QED BY <1>1, <1>2, <1>5, <2>1 DEF aligned
<1>6. CASE aligned /\ d.len \in HeaderLen + BodyLen..Total
  <2>1. Parse(d) = IF ~d.pure THEN {"bad", "mixed"}
                   ELSE IF d.len = Total - 1 THEN {"extra"} ELSE {"whole"}
    BY <1>1, <1>2, <1>3, <1>6
  <2> QED BY <1>1, <1>2, <1>6, <2>1 DEF aligned
<1> QED BY <1>1, <1>2, <1>4, <1>5, <1>6

\* What handling the text d may give.
Handled(d, r) ==
  /\ r \in Results
  /\ IsAnswer(r) =>
       r = Answer(d.conn, RequestAt(d.from)) /\ d.pure /\ d.from % Total = 0 /\ d.len > 0

LEMMA HandleForms ==
  ASSUME NEW d \in Data, NEW p \in Parse(d), p # "bad", p # "part", NEW r \in Handle(d, p)
  PROVE  Handled(d, r)
<1>1. /\ p \in {"whole", "extra", "mixed"} /\ d.from % Total = 0 /\ (p = "whole" => d.pure)
      /\ d.len > 0
  <2>1. HeaderLen = 7
    BY DEF HeaderLen
  <2> QED BY <2>1, ParseForms DEF Data
<1>2. Answer(d.conn, RequestAt(d.from)) \in Answers
  BY RequestOrder DEF Answers, Data
<1>3. <<"throws">>[1] # "answer" /\ <<"garbage">>[1] # "answer"
  OBVIOUS
<1>4. CASE p = "whole"
  <2>1. r \in {<<"throws">>, Answer(d.conn, RequestAt(d.from))}
    BY <1>4 DEF Handle
  <2> QED BY <1>1, <1>2, <1>3, <1>4, <2>1 DEF Handled, Results, IsAnswer
<1>5. CASE p # "whole"
  <2>1. r \in {<<"throws">>, <<"garbage">>}
    BY <1>1, <1>5 DEF Handle
  <2> QED BY <1>3, <2>1 DEF Handled, Results, IsAnswer
<1> QED BY <1>4, <1>5

\* An entry that the chunk d starts, one that d continues, and one that a failed
\* parse left.
Starts(now, d) == now.data = d /\ now.remaining + d.len = HeaderLen + BodyLen

Continues(now, old, d) ==
  /\ old.remaining # 0
  /\ now.data = Join(old.data, d) /\ now.remaining = old.remaining - d.len

Abandoned(now, old) == now.data = old.data /\ now.remaining = 0

LEMMA FirstForms ==
  ASSUME NEW d \in Data, NEW o \in FirstChunk(d)
  PROVE  /\ o.returns \in Results /\ o.entry \subseteq Entries
         /\ \A now \in o.entry : Starts(now, d)
         /\ IsAnswer(o.returns) => o.entry = {} /\ Handled(d, o.returns)
<1> DEFINE Gives(p) ==
      CASE p = "bad" -> {[returns |-> <<"failed">>, entry |-> {}]}
        [] p = "part" -> {[returns |-> <<"empty">>, entry |-> {[data |-> d, remaining |-> Missing(d)]}]}
        [] OTHER -> {[returns |-> r, entry |-> {}] : r \in Handle(d, p)}
<1>1. PICK p \in Parse(d) : o \in Gives(p)
  BY DEF FirstChunk
<1>2. <<"failed">>[1] # "answer" /\ <<"empty">>[1] # "answer"
  OBVIOUS
<1>3. CASE p = "bad"
  <2>1. o = [returns |-> <<"failed">>, entry |-> {}]
    BY <1>1, <1>3
  <2> QED BY <1>2, <2>1 DEF Results, IsAnswer
<1>4. CASE p = "part"
  <2>1. o = [returns |-> <<"empty">>, entry |-> {[data |-> d, remaining |-> Missing(d)]}]
    BY <1>1, <1>4
  <2>2. Missing(d) \in Nat /\ Missing(d) + d.len = HeaderLen + BodyLen
    <3>1. d.len \in Nat /\ d.len < HeaderLen + BodyLen /\ HeaderLen = 7 /\ BodyLen \in Nat
      BY <1>4, ParseForms, ServerAssumption DEF Data, HeaderLen
    <3> QED BY <3>1 DEF Missing
  <2> HIDE DEF Gives
  <2>3. [data |-> d, remaining |-> Missing(d)] \in Entries
    BY <2>2 DEF Entries
  <2> QED BY <1>2, <2>1, <2>2, <2>3 DEF Results, IsAnswer, Starts
<1>5. CASE p # "bad" /\ p # "part"
  <2>1. PICK r \in Handle(d, p) : o = [returns |-> r, entry |-> {}]
    BY <1>1, <1>5
  <2>2. Handled(d, r)
    BY <1>5, HandleForms
  <2> QED BY <2>1, <2>2 DEF Handled
<1> QED BY <1>3, <1>4, <1>5

LEMMA JoinForm ==
  ASSUME NEW d \in Data, NEW e \in Data
  PROVE  /\ Join(d, e) \in Data
         /\ Join(d, e).conn = d.conn /\ Join(d, e).from = d.from /\ Join(d, e).len = d.len + e.len
         /\ Join(d, e).pure <=> d.pure /\ e.conn = d.conn /\ e.from = d.from + d.len
<1> DEFINE len == d.len + e.len
           pure == d.pure /\ e.conn = d.conn /\ e.from = d.from + d.len
<1>1. d.conn \in Conns /\ d.from \in Nat /\ d.len \in Nat /\ e.len \in Nat
  BY DEF Data
<1>2. len \in Nat /\ pure \in BOOLEAN
  BY <1>1 DEF Data
<1>3. Join(d, e) = [d EXCEPT !.len = len, !.pure = pure]
  BY DEF Join
<1>4. pure <=> d.pure /\ e.conn = d.conn /\ e.from = d.from + d.len
  OBVIOUS
<1> HIDE DEF len, pure
<1>5. Join(d, e) = [conn |-> d.conn, from |-> d.from, len |-> len, pure |-> pure]
  BY <1>3 DEF Data
<1>6. Join(d, e) \in Data /\ Join(d, e).pure = pure
  BY <1>1, <1>2, <1>5 DEF Data
<1> QED BY <1>4, <1>5, <1>6 DEF len

LEMMA NextForms ==
  ASSUME NEW old \in Entries, NEW d \in Data, old.remaining # 0,
         old.remaining + old.data.len = HeaderLen + BodyLen, NEW o \in NextChunk(old, d)
  PROVE  /\ o.returns \in Results /\ o.entry \subseteq Entries
         /\ \A now \in o.entry : Continues(now, old, d) \/ Abandoned(now, old)
         /\ IsAnswer(o.returns) => o.entry = {} /\ Handled(Join(old.data, d), o.returns)
<1> DEFINE left == old.remaining - d.len
           all == Join(old.data, d)
           Gives(p) == IF p = "bad"
                       THEN {[returns |-> <<"throws">>, entry |-> {[old EXCEPT !.remaining = 0]}]}
                       ELSE {[returns |-> r, entry |-> {}] : r \in Handle(all, p)}
<1>1. old.data \in Data /\ old.remaining \in Nat /\ d.len \in Nat /\ all \in Data
  BY JoinForm DEF Entries, Data
<1>2. <<"throws">>[1] # "answer" /\ <<"empty">>[1] # "answer"
  OBVIOUS
<1>3. CASE left > 0
  <2>1. o = [returns |-> <<"empty">>, entry |-> {[data |-> all, remaining |-> left]}]
    BY <1>3 DEF NextChunk
  <2>2. left \in Nat
    BY <1>1, <1>3
  <2> HIDE DEF Gives, all, left
  <2>3. [data |-> all, remaining |-> left] \in Entries
    BY <1>1, <2>2 DEF Entries
  <2>4. Continues([data |-> all, remaining |-> left], old, d)
    BY DEF Continues, all, left
  <2> QED BY <1>2, <2>1, <2>3, <2>4 DEF Results, IsAnswer
<1>4. CASE ~(left > 0)
  <2>1. PICK p \in Parse(all) : o \in Gives(p)
    <3>1. NextChunk(old, d) = UNION {Gives(p) : p \in Parse(all)}
      BY <1>4 DEF NextChunk
    <3> HIDE DEF Gives, all
    <3> QED BY <3>1
  <2>2. CASE p = "bad"
    <3> DEFINE now == [old EXCEPT !.remaining = 0]
    <3>1. o = [returns |-> <<"throws">>, entry |-> {now}]
      BY <2>1, <2>2
    <3>2. now = [data |-> old.data, remaining |-> 0]
      BY DEF Entries
    <3> HIDE DEF now, Gives
    <3>3. now \in Entries /\ Abandoned(now, old)
      BY <1>1, <3>2 DEF Entries, Abandoned
    <3> QED BY <1>2, <3>1, <3>3 DEF Results, IsAnswer
  <2>3. CASE p # "bad"
    <3>1. PICK r \in Handle(all, p) : o = [returns |-> r, entry |-> {}]
      BY <2>1, <2>3
    <3> HIDE DEF Gives
    <3>2. p # "part"
      <4>1. all.len = old.data.len + d.len /\ old.data.len \in Nat
        BY <1>1, JoinForm DEF Data
      <4>2. HeaderLen = 7 /\ BodyLen \in Nat
        BY ServerAssumption DEF HeaderLen
      <4>3. all.len >= HeaderLen + BodyLen /\ all.len \in Nat
        BY <1>1, <1>4, <4>1, <4>2
      <4>4. p = "part" => all.len < HeaderLen + BodyLen
        BY <1>1, ParseForms
      <4> QED BY <4>2, <4>3, <4>4
    <3>3. Handled(all, r)
      BY <1>1, <2>3, <3>2, HandleForms
    <3> QED BY <3>1, <3>3 DEF Handled
  <2> QED BY <2>2, <2>3
<1> QED BY <1>3, <1>4

LEMMA EmptyForms ==
  ASSUME NEW old \in Entries, old.remaining = 0, NEW o \in EmptyRequest(old)
  PROVE  /\ o.returns \in Results /\ o.entry = {old} /\ ~IsAnswer(o.returns)
         /\ Abandoned(old, old)
<1>1. <<"throws">>[1] # "answer" /\ <<"garbage">>[1] # "answer"
  OBVIOUS
<1> QED BY <1>1 DEF EmptyRequest, Results, IsAnswer, Abandoned

\* What the task on the chunk d may give, when found is its descriptor's entry.
Gave(o, found, d) ==
  /\ o.returns \in Results /\ o.entry \subseteq Entries
  /\ \A now \in o.entry :
       Starts(now, d) \/ \E old \in found : Continues(now, old, d) \/ Abandoned(now, old)
  /\ IsAnswer(o.returns) =>
       /\ o.entry = {}
       /\ Handled(d, o.returns) \/ \E old \in found : Handled(Join(old.data, d), o.returns)

LEMMA OutcomeForms ==
  ASSUME ServerInv, NEW t \in Ids, NEW o \in DoRpcOutcomes(t)
  PROVE  Gave(o, uncompleted[tasks[t].fd], tasks[t].chunk)
<1> DEFINE d == tasks[t].chunk
           found == uncompleted[tasks[t].fd]
<1>1. d \in Data /\ tasks[t].fd \in Fds
  BY TaskTypes DEF ServerInv
<1>2. found \subseteq Entries
  BY <1>1 DEF ServerInv, Types
<1>3. ASSUME NEW old \in found, old.remaining # 0
      PROVE  old.remaining + old.data.len = HeaderLen + BodyLen
  BY <1>1, <1>3 DEF ServerInv, Requested, Partials
<1>4. CASE found = {}
  <2>1. o \in FirstChunk(d)
    BY <1>4 DEF DoRpcOutcomes
  <2> HIDE DEF d, found
  <2> QED BY <1>1, <2>1, FirstForms DEF Gave, d, found
<1>5. CASE found # {}
  <2>1. PICK old \in found : o \in IF old.remaining # 0 THEN NextChunk(old, d) ELSE EmptyRequest(old)
    BY <1>5 DEF DoRpcOutcomes
  <2> HIDE DEF d, found
  <2>2. CASE old.remaining # 0
    BY <1>1, <1>2, <1>3, <2>1, <2>2, NextForms DEF Gave, d, found
  <2>3. CASE old.remaining = 0
    <3>1. o.returns \in Results /\ o.entry = {old} /\ ~IsAnswer(o.returns) /\ Abandoned(old, old)
      BY <1>2, <2>1, <2>3, EmptyForms
    <3> QED BY <1>2, <3>1 DEF Gave, d, found
  <2> QED BY <2>2, <2>3
<1> QED BY <1>4, <1>5

-----------------------------------------------------------------------------
(***************************************************************************)
(* A task finishes.                                                        *)
(***************************************************************************)

\* FinishTask, with names for the task's descriptor, chunk and outcome.
FinishAs(t, fd, d, o) ==
  /\ tasks[t].fd = fd /\ tasks[t].chunk = d
  /\ Gave(o, uncompleted[fd], d)
  /\ uncompleted' = [uncompleted EXCEPT ![fd] = o.entry]
  /\ result' = [result EXCEPT ![t] = o.returns]
  /\ UNCHANGED <<netVars, pollVars, futureMap, tasks, status, residue>>
  /\ InTurn' /\ t = Done + 1 /\ Done' = t /\ finished = 1..t - 1 /\ finished' = 1..t

LEMMA FinishTaskAs ==
  ASSUME ServerInv, NEW t \in TaskIds, FinishTask(t)
  PROVE  /\ t \in Ids
         /\ \E fd \in Fds, d \in Data : \E o \in DoRpcOutcomes(t) : FinishAs(t, fd, d, o)
<1>1. t \in active /\ Pool!Finish /\ UNCHANGED <<netVars, pollVars, futureMap, tasks, status, residue>>
  BY DEF FinishTask
<1>2. PICK o \in DoRpcOutcomes(t) :
        /\ uncompleted' = [uncompleted EXCEPT ![tasks[t].fd] = o.entry]
        /\ result' = [result EXCEPT ![t] = o.returns]
  BY DEF FinishTask
<1>3. InTurn' /\ t \in Ids /\ t = Done + 1 /\ Done' = t /\ finished = 1..t - 1 /\ finished' = 1..t
  BY <1>1, FinishInTurn, LenProperties DEF ServerInv, Types, TypeOK
<1>4. tasks[t].fd \in Fds /\ tasks[t].chunk \in Data
  BY <1>3, TaskTypes DEF ServerInv
<1>5. Gave(o, uncompleted[tasks[t].fd], tasks[t].chunk)
  BY <1>3, OutcomeForms
<1>6. FinishAs(t, tasks[t].fd, tasks[t].chunk, o)
  BY <1>1, <1>2, <1>3, <1>5 DEF FinishAs
<1> QED BY <1>3, <1>4, <1>6

\* The end of a connection's chunks is one position.
LEMMA EndsOnce ==
  ASSUME NEW c, NEW k \in Nat, NEW p, NEW q, EndsAt(c, k, p), EndsAt(c, k, q)
  PROVE  p = q
<1>1. ASSUME NEW r \in 1..k, NEW s \in 1..k, Owner(r) = c, Owner(s) = c,
             \A i \in r + 1..k : Owner(i) # c, \A i \in s + 1..k : Owner(i) # c
      PROVE  r = s
  BY <1>1
<1>2. CASE \A s \in 1..k : Owner(s) # c
  BY <1>2 DEF EndsAt
<1>3. CASE ~\A s \in 1..k : Owner(s) # c
  <2>1. PICK r \in 1..k : Owner(r) = c /\ End(r) = p /\ \A i \in r + 1..k : Owner(i) # c
    BY <1>3 DEF EndsAt
  <2>2. PICK s \in 1..k : Owner(s) = c /\ End(s) = q /\ \A i \in s + 1..k : Owner(i) # c
    BY <1>3 DEF EndsAt
  <2> QED BY <1>1, <2>1, <2>2
<1> QED BY <1>2, <1>3

\* It stays where it is when a chunk of another connection follows.
LEMMA EndsSkip ==
  ASSUME NEW c, NEW t \in Nat \ {0}, NEW p, EndsAt(c, t - 1, p), Owner(t) # c
  PROVE  EndsAt(c, t, p)
<1>1. \A s \in 1..t : s \in 1..t - 1 \/ s = t
  OBVIOUS
<1>2. CASE p = 0 /\ \A s \in 1..t - 1 : Owner(s) # c
  BY <1>1, <1>2 DEF EndsAt
<1>3. ASSUME NEW s \in 1..t - 1, Owner(s) = c, End(s) = p, \A r \in s + 1..t - 1 : Owner(r) # c
      PROVE  EndsAt(c, t, p)
  <2>1. s \in 1..t /\ \A r \in s + 1..t : r \in s + 1..t - 1 \/ r = t
    BY <1>3
  <2> QED BY <1>3, <2>1 DEF EndsAt
<1> QED BY <1>2, <1>3 DEF EndsAt

LEMMA EndsHere ==
  ASSUME NEW t \in Nat \ {0}
  PROVE  EndsAt(Owner(t), t, End(t))
<1>1. t \in 1..t /\ \A r \in t + 1..t : FALSE
  OBVIOUS
<1> QED BY <1>1 DEF EndsAt

\* What is known of the task's chunk and of the entry it finds.
LEMMA FinishFacts ==
  ASSUME ServerInv, NEW t \in Ids, NEW fd \in Fds, NEW d \in Data, NEW o, FinishAs(t, fd, d, o)
  PROVE  /\ t \in Nat \ {0} /\ t \in TaskIds /\ finished = 1..t - 1 /\ finished' = 1..t
         /\ finished \subseteq Ids /\ Done = t - 1 /\ Done' = t
         /\ UNCHANGED <<link, fdOf, replies, consumed, tasks, futureMap, residue>>
         /\ uncompleted'[fd] = o.entry /\ \A f \in Fds : f # fd => uncompleted'[f] = uncompleted[f]
         /\ result'[t] = o.returns /\ \A s \in TaskIds : s # t => result'[s] = result[s]
         /\ Owner(t) = d.conn /\ From(t) = d.from /\ End(t) = d.from + d.len /\ d.pure
         /\ EndsAt(Owner(t), t - 1, From(t)) /\ EndsAt(Owner(t), t, End(t))
         /\ fd \notin residue => Holds(Owner(t), fd)
         /\ \A s \in finished : Owner(s) = Owner(t) => tasks[s].fd = fd /\ End(s) <= From(t)
<1> USE DEF ServerInv
<1>1. /\ tasks[t].fd = fd /\ tasks[t].chunk = d
      /\ uncompleted' = [uncompleted EXCEPT ![fd] = o.entry]
      /\ result' = [result EXCEPT ![t] = o.returns]
      /\ UNCHANGED <<link, fdOf, replies, consumed, tasks, futureMap, residue>>
      /\ t = Done + 1 /\ Done' = t /\ finished = 1..t - 1 /\ finished' = 1..t
  BY DEF FinishAs, netVars
<1>2. t \in Nat \ {0} /\ t \in TaskIds /\ Done = t - 1 /\ finished \subseteq Ids
  <2>1. t \in Nat \ {0} /\ t \in TaskIds /\ Done \in Nat /\ finished \subseteq Ids
    BY InTurnNumbers, LenProperties DEF Ids, InTurn, Types, TypeOK
  <2> QED BY <1>1, <2>1
<1>3. /\ uncompleted'[fd] = o.entry /\ \A f \in Fds : f # fd => uncompleted'[f] = uncompleted[f]
      /\ result'[t] = o.returns /\ \A s \in TaskIds : s # t => result'[s] = result[s]
  BY <1>1, <1>2 DEF Types
<1>4. Owner(t) = d.conn /\ From(t) = d.from /\ End(t) = d.from + d.len
  BY <1>1 DEF Owner, From, End
<1>5. d.pure /\ EndsAt(Owner(t), t - 1, From(t))
  BY <1>1 DEF Requested, Chunks
<1>6. EndsAt(Owner(t), t, End(t))
  BY <1>2, EndsHere
<1>7. fd \notin residue => Holds(Owner(t), fd)
  BY <1>1, <1>2 DEF Requested, Outstanding
<1>8. ASSUME NEW s \in finished, Owner(s) = Owner(t)
      PROVE  tasks[s].fd = fd /\ End(s) <= From(t)
  <2>1. s \in Ids /\ s < t
    BY <1>1, <1>2
  <2> QED BY <1>1, <1>8, <2>1 DEF Requested, Chunks
<1> QED BY <1>1, <1>2, <1>3, <1>4, <1>5, <1>6, <1>7, <1>8

LEMMA FinishPartials ==
  ASSUME ServerInv, NEW t \in Ids, NEW fd \in Fds, NEW d \in Data, NEW o, FinishAs(t, fd, d, o)
  PROVE  Partials'
<1>1. /\ t \in Nat \ {0} /\ t \in TaskIds /\ finished = 1..t - 1 /\ finished' = 1..t
      /\ finished \subseteq Ids /\ Done = t - 1 /\ Done' = t
      /\ UNCHANGED <<link, fdOf, replies, consumed, tasks, futureMap, residue>>
      /\ uncompleted'[fd] = o.entry /\ \A f \in Fds : f # fd => uncompleted'[f] = uncompleted[f]
      /\ result'[t] = o.returns /\ \A s \in TaskIds : s # t => result'[s] = result[s]
  BY FinishFacts
<1>2. /\ Owner(t) = d.conn /\ From(t) = d.from /\ End(t) = d.from + d.len /\ d.pure
      /\ EndsAt(Owner(t), t - 1, From(t)) /\ EndsAt(Owner(t), t, End(t))
      /\ fd \notin residue => Holds(Owner(t), fd)
      /\ \A s \in finished : Owner(s) = Owner(t) => tasks[s].fd = fd /\ End(s) <= From(t)
  BY FinishFacts
<1>3. tasks[t].fd = fd /\ Gave(o, uncompleted[fd], d)
  BY DEF FinishAs
<1>4. Types /\ Partials /\ Connections /\ Ids \subseteq TaskIds
  BY DEF ServerInv, Requested, InTurn
<1>5. \A s \in finished : result'[s] = result[s] /\ s # t
  BY <1>1, <1>4
<1>6. \A s \in 1..t : s \in finished \/ s = t
  BY <1>1
<1> DEFINE Fits(f, now) ==
      /\ \E s \in 1..t : tasks[s].fd = f /\ Owner(s) = now.data.conn
      /\ now.remaining # 0 => now.remaining + now.data.len = HeaderLen + BodyLen
      /\ f \notin residue =>
           /\ now.data.pure /\ Holds(now.data.conn, f)
           /\ now.remaining # 0 => EndsAt(now.data.conn, t, now.data.from + now.data.len)
      /\ now.data.pure => \A s \in 1..t :
           Owner(s) = now.data.conn /\ IsAnswer(result'[s]) => End(s) <= now.data.from
<1>7. ASSUME NEW f \in Fds, f # fd, NEW now \in uncompleted[f] PROVE Fits(f, now)
  <2>1. PICK s \in finished : tasks[s].fd = f /\ Owner(s) = now.data.conn
    BY <1>4 DEF Partials
  <2>2. Owner(t) # now.data.conn
    BY <1>2, <1>7, <2>1
  <2>3. s \in 1..t
    BY <1>1
  <2>4. \A p : EndsAt(now.data.conn, t - 1, p) => EndsAt(now.data.conn, t, p)
    BY <1>1, <2>2, EndsSkip
  <2>5. /\ now.remaining # 0 => now.remaining + now.data.len = HeaderLen + BodyLen
        /\ f \notin residue =>
             /\ now.data.pure /\ Holds(now.data.conn, f)
             /\ now.remaining # 0 => EndsAt(now.data.conn, t - 1, now.data.from + now.data.len)
        /\ now.data.pure => \A r \in finished :
             Owner(r) = now.data.conn /\ IsAnswer(result[r]) => End(r) <= now.data.from
    BY <1>1, <1>4 DEF Partials
  <2> QED BY <1>5, <1>6, <2>1, <2>2, <2>3, <2>4, <2>5
<1>8. ASSUME NEW now \in o.entry PROVE Fits(fd, now)
  <2>0. ~IsAnswer(result'[t]) /\ t \in 1..t
    BY <1>1, <1>3, <1>8 DEF Gave
  <2>1. CASE Starts(now, d)
    <3>1. now.data = d /\ now.remaining + d.len = HeaderLen + BodyLen
      BY <2>1 DEF Starts
    <3>2. EndsAt(now.data.conn, t, now.data.from + now.data.len)
      BY <1>2, <3>1
    <3>3. \A s \in 1..t : Owner(s) = now.data.conn /\ IsAnswer(result'[s]) => End(s) <= now.data.from
      BY <1>2, <1>6, <2>0, <3>1
    <3>4. fd \notin residue => Holds(now.data.conn, fd)
      BY <1>2, <3>1
    <3>5. \E s \in 1..t : tasks[s].fd = fd /\ Owner(s) = now.data.conn
      BY <1>2, <1>3, <2>0, <3>1
    <3> QED BY <1>2, <3>1, <3>2, <3>3, <3>4, <3>5
  <2>2. ASSUME NEW old \in uncompleted[fd], Continues(now, old, d) \/ Abandoned(now, old)
        PROVE  Fits(fd, now)
    <3>1. /\ \E s \in finished : tasks[s].fd = fd /\ Owner(s) = old.data.conn
          /\ old.remaining # 0 => old.remaining + old.data.len = HeaderLen + BodyLen
          /\ fd \notin residue =>
               /\ old.data.pure /\ Holds(old.data.conn, fd)
               /\ old.remaining # 0 => EndsAt(old.data.conn, t - 1, old.data.from + old.data.len)
          /\ old.data.pure => \A s \in finished :
               Owner(s) = old.data.conn /\ IsAnswer(result[s]) => End(s) <= old.data.from
      BY <1>1, <1>4 DEF Partials
    <3>2. old.data \in Data /\ old.remaining \in Nat /\ d.len \in Nat /\ old.data.len \in Nat
      BY <1>4 DEF Types, Entries, Data
    <3>3. /\ now.data.conn = old.data.conn /\ now.data.from = old.data.from
          /\ now.data.pure => old.data.pure
      <4>1. CASE Abandoned(now, old)
        BY <4>1 DEF Abandoned
      <4>2. CASE Continues(now, old, d)
        BY <3>2, <4>2, JoinForm DEF Continues
      <4> QED BY <2>2, <4>1, <4>2
    <3>4. \E s \in 1..t : tasks[s].fd = fd /\ Owner(s) = now.data.conn
      <4>1. finished \subseteq 1..t
        BY <1>1
      <4> QED BY <3>1, <3>3, <4>1
    <3>5. now.data.pure => \A s \in 1..t :
            Owner(s) = now.data.conn /\ IsAnswer(result'[s]) => End(s) <= now.data.from
      BY <1>5, <1>6, <2>0, <3>1, <3>3
    <3>6. fd \notin residue => Holds(now.data.conn, fd)
      BY <3>1, <3>3
    <3>7. CASE Abandoned(now, old)
      BY <3>1, <3>4, <3>5, <3>6, <3>7 DEF Abandoned
    <3>8. CASE Continues(now, old, d)
      <4>1. /\ now.data = Join(old.data, d) /\ now.remaining = old.remaining - d.len
            /\ old.remaining # 0
        BY <3>8 DEF Continues
      <4>2. /\ now.data.len = old.data.len + d.len
            /\ now.data.pure <=> old.data.pure /\ d.conn = old.data.conn
                                 /\ d.from = old.data.from + old.data.len
        BY <3>2, <4>1, JoinForm
      <4>3. now.remaining + now.data.len = HeaderLen + BodyLen
        BY <3>1, <3>2, <4>1, <4>2
      <4>4. ASSUME fd \notin residue
            PROVE  now.data.pure /\ EndsAt(now.data.conn, t, now.data.from + now.data.len)
        <5>1. Owner(t) = old.data.conn
          <6>1. Holds(Owner(t), fd) /\ Holds(old.data.conn, fd)
            BY <1>2, <3>1, <4>4
          <6>2. Owner(t) \in Conns /\ old.data.conn \in Conns
            BY <1>4, <3>2, TaskTypes DEF Data
          <6> QED BY <1>4, <6>1, <6>2 DEF Holds, Connections, SlotsMatch
        <5>2. From(t) = old.data.from + old.data.len
          <6>1. /\ EndsAt(Owner(t), t - 1, From(t)) /\ t - 1 \in Nat
                /\ EndsAt(Owner(t), t - 1, old.data.from + old.data.len)
            BY <1>1, <1>2, <3>1, <4>1, <4>4, <5>1
          <6> QED BY <6>1, EndsOnce
        <5>3. now.data.pure
          BY <1>2, <3>1, <4>2, <4>4, <5>1, <5>2
        <5>4. now.data.from + now.data.len = End(t)
          <6>1. old.data.from \in Nat /\ d.from \in Nat
            BY <3>2 DEF Data
          <6> QED BY <1>2, <3>2, <3>3, <4>2, <5>2, <6>1
        <5> QED BY <1>2, <3>3, <5>1, <5>3, <5>4
      <4> QED BY <3>4, <3>5, <3>6, <4>3, <4>4
    <3> QED BY <2>2, <3>7, <3>8
  <2> QED BY <1>3, <1>8, <2>1, <2>2 DEF Gave
<1>9. \A f \in Fds : \A now \in uncompleted'[f] : Fits(f, now)
  <2> HIDE DEF Fits
  <2> QED BY <1>1, <1>7, <1>8
<1>10. \A c, pos : EndsAt(c, t, pos) => EndsAt(c, Done, pos)'
  BY <1>1 DEF EndsAt, Owner, End
<1> QED BY <1>1, <1>9, <1>10 DEF Partials, Owner, End, Holds, Connected

LEMMA FinishAnswered ==
  ASSUME ServerInv, NEW t \in Ids, NEW fd \in Fds, NEW d \in Data, NEW o, FinishAs(t, fd, d, o)
  PROVE  Answered'
<1>1. /\ t \in Nat \ {0} /\ t \in TaskIds /\ finished = 1..t - 1 /\ finished' = 1..t
      /\ finished \subseteq Ids /\ tasks' = tasks
      /\ result'[t] = o.returns /\ \A s \in TaskIds : s # t => result'[s] = result[s]
  BY FinishFacts
<1>2. /\ Owner(t) = d.conn /\ From(t) = d.from /\ End(t) = d.from + d.len
      /\ \A s \in finished : Owner(s) = Owner(t) => tasks[s].fd = fd /\ End(s) <= From(t)
  BY FinishFacts
<1>3. Gave(o, uncompleted[fd], d)
  BY DEF FinishAs
<1>4. Types /\ Partials /\ Answered /\ Ids \subseteq TaskIds
  BY DEF ServerInv, Requested, InTurn
<1>5. \A s \in finished : result'[s] = result[s] /\ s < t /\ s \in Nat /\ End(s) \in Nat
  BY <1>1, <1>4, TaskTypes
<1>6. \A s \in 1..t : s \in finished \/ s = t
  BY <1>1
\* The request that was answered begins at pos, after the chunks of those answered.
<1>7. ASSUME IsAnswer(o.returns)
      PROVE  \E pos \in Nat :
               /\ pos < End(t) /\ pos % Total = 0
               /\ o.returns = Answer(Owner(t), RequestAt(pos))
               /\ \A s \in finished :
                    Owner(s) = Owner(t) /\ IsAnswer(result[s]) => End(s) <= pos
  <2>0. d.from \in Nat /\ d.len \in Nat
    BY DEF Data
  <2>1. CASE Handled(d, o.returns)
    <3>1. /\ o.returns = Answer(d.conn, RequestAt(d.from)) /\ d.from % Total = 0 /\ d.len > 0
      BY <1>7, <2>1 DEF Handled
    <3>2. d.from < End(t)
      BY <1>2, <2>0, <3>1
    <3> QED BY <1>2, <2>0, <3>1, <3>2
  <2>2. ASSUME NEW old \in uncompleted[fd], Handled(Join(old.data, d), o.returns)
        PROVE  \E pos \in Nat :
                 /\ pos < End(t) /\ pos % Total = 0
                 /\ o.returns = Answer(Owner(t), RequestAt(pos))
                 /\ \A s \in finished :
                      Owner(s) = Owner(t) /\ IsAnswer(result[s]) => End(s) <= pos
    <3>1. old.data \in Data /\ old.data.from \in Nat /\ old.data.len \in Nat
      BY <1>4 DEF Types, Entries, Data
    <3> DEFINE all == Join(old.data, d)
    <3>2. /\ all.conn = old.data.conn /\ all.from = old.data.from /\ all.len = old.data.len + d.len
          /\ all.pure <=> old.data.pure /\ d.conn = old.data.conn
                          /\ d.from = old.data.from + old.data.len
      BY <3>1, JoinForm
    <3>3. /\ o.returns = Answer(all.conn, RequestAt(all.from)) /\ all.pure
          /\ all.from % Total = 0 /\ all.len > 0
      BY <1>7, <2>2 DEF Handled
    <3> HIDE DEF all
    <3>4. old.data.from < End(t)
      BY <1>2, <2>0, <3>1, <3>2, <3>3
    <3>5. \A s \in finished : Owner(s) = old.data.conn /\ IsAnswer(result[s]) => End(s) <= old.data.from
      BY <1>4, <3>2, <3>3 DEF Partials
    <3> QED BY <1>2, <3>1, <3>2, <3>3, <3>4, <3>5
  <2> QED BY <1>3, <1>7, <2>1, <2>2 DEF Gave
<1>8. ASSUME NEW s \in 1..t, IsAnswer(result'[s])
      PROVE  \E pos \in 0..End(s) - 1 :
               pos % Total = 0 /\ result'[s] = Answer(Owner(s), RequestAt(pos))
  <2>1. CASE s = t
    <3>1. PICK pos \in Nat : /\ pos < End(t) /\ pos % Total = 0
                             /\ o.returns = Answer(Owner(t), RequestAt(pos))
      BY <1>1, <1>7, <1>8, <2>1
    <3>2. End(t) \in Nat
      BY TaskTypes, <1>4
    <3>3. pos \in 0..End(t) - 1
      BY <3>1, <3>2
    <3> QED BY <1>1, <2>1, <3>1, <3>3
  <2>2. CASE s \in finished
    BY <1>4, <1>5, <1>8, <2>2 DEF Answered
  <2> QED BY <1>6, <2>1, <2>2
<1>9. ASSUME NEW r \in 1..t, NEW s \in 1..t, r < s, Owner(r) = Owner(s), IsAnswer(result'[r]),
             IsAnswer(result'[s])
      PROVE  result'[r][3] < result'[s][3]
  <2>1. r \in finished
    BY <1>1, <1>9
  <2>2. CASE s \in finished
    BY <1>4, <1>5, <1>9, <2>1, <2>2 DEF Answered
  <2>3. CASE s = t
    <3>1. PICK pos \in Nat :
            /\ pos < End(t) /\ pos % Total = 0
            /\ o.returns = Answer(Owner(t), RequestAt(pos))
            /\ \A q \in finished : Owner(q) = Owner(t) /\ IsAnswer(result[q]) => End(q) <= pos
      BY <1>1, <1>7, <1>9, <2>3
    <3>2. PICK p \in 0..End(r) - 1 : p % Total = 0 /\ result[r] = Answer(Owner(r), RequestAt(p))
      BY <1>4, <1>5, <1>9, <2>1 DEF Answered
    <3>3. End(r) <= pos /\ End(r) \in Nat
      BY <1>5, <1>9, <2>1, <2>3, <3>1
    <3>4. p < pos /\ p \in Nat
      BY <3>2, <3>3
    <3>5. RequestAt(p) < RequestAt(pos)
      BY <3>1, <3>2, <3>4, RequestOrder
    <3>6. result'[r] = Answer(Owner(r), RequestAt(p)) /\ result'[s] = Answer(Owner(t), RequestAt(pos))
      BY <1>1, <1>5, <2>1, <2>3, <3>1, <3>2
    <3>7. \A c, k : Answer(c, k)[3] = k
      BY DEF Answer
    <3> QED BY <3>5, <3>6, <3>7
  <2> QED BY <1>6, <2>2, <2>3
<1> QED BY <1>1, <1>8, <1>9 DEF Answered, Owner, End

LEMMA FinishTaskKeeps ==
  ASSUME ServerInv, NEW t \in TaskIds, FinishTask(t)
  PROVE  ServerInv'
<1>1. t \in Ids /\ \E fd \in Fds, d \in Data : \E o : FinishAs(t, fd, d, o)
  BY FinishTaskAs
<1>a. PICK fd \in Fds, d \in Data : \E o : FinishAs(t, fd, d, o)
  BY <1>1
<1>2. PICK o : FinishAs(t, fd, d, o)
  BY <1>a
<1>3. Partials' /\ Answered'
  BY <1>1, <1>2, FinishPartials, FinishAnswered
<1>4. Types /\ Connections /\ Chunks /\ Futures /\ Outstanding /\ Sent
  BY DEF ServerInv, Requested
<1>5. UNCHANGED <<netVars, pollVars, futureMap, tasks, status, residue>> /\ InTurn'
  BY <1>2 DEF FinishAs
<1>6. /\ UNCHANGED <<link, fdOf, written, delivered, consumed, replies, slots, pollPc, at, ready,
                     futureMap, tasks, status, residue>>
      /\ Ids' = Ids
  BY <1>5 DEF netVars, pollVars, Ids
<1>7. finished \subseteq finished' /\ (\A s \in finished : result'[s] = result[s])
  <2>1. /\ t \in Nat /\ finished = 1..t - 1 /\ finished' = 1..t /\ finished \subseteq Ids
        /\ \A s \in TaskIds : s # t => result'[s] = result[s]
    BY <1>1, <1>2, FinishFacts
  <2>2. Ids \subseteq TaskIds
    BY DEF ServerInv, InTurn
  <2>3. \A s \in finished : s # t /\ s \in TaskIds
    BY <2>1, <2>2
  <2>4. \A s \in 1..t - 1 : s \in 1..t
    BY <2>1
  <2> QED BY <2>1, <2>3, <2>4
<1>8. Types'
  <2>1. /\ o.entry \subseteq Entries /\ o.returns \in Results
        /\ uncompleted' = [uncompleted EXCEPT ![fd] = o.entry]
        /\ result' = [result EXCEPT ![t] = o.returns]
    BY <1>2 DEF FinishAs, Gave
  <2>2. uncompleted' \in [Fds -> SUBSET Entries] /\ result' \in [TaskIds -> Results]
    BY <1>4, <2>1 DEF Types
  <2>3. \A f \in Fds : \A now \in uncompleted'[f] : now.data \in Data /\ now.remaining \in Nat
    BY <2>2 DEF Entries
  <2> QED BY <1>4, <1>6, <2>2, <2>3 DEF Types, TypeOK
<1>9. Connections'
  BY <1>4, <1>6 DEF Connections, SlotsMatch, ReadyOpen, InUse, Connected
<1>10. Chunks'
  BY <1>4, <1>6 DEF Chunks, EndsAt, Owner, From, End, Holds, Connected
<1>11. Futures' /\ Outstanding'
  BY <1>4, <1>6, <1>7 DEF Futures, Outstanding, Owner, Holds, Connected
<1>12. Sent'
  <2>1. ASSUME NEW c \in Conns, NEW n \in 1..Len(replies[c]), IsAnswer(replies[c][n])
        PROVE  \E s \in finished' :
                 /\ Owner(s) = c /\ result'[s] = replies[c][n]
                 /\ \A f \in Fds : futureMap[f] # NoTask /\ Owner(futureMap[f]) = c => s < futureMap[f]
    <3>1. PICK s \in finished :
            /\ Owner(s) = c /\ result[s] = replies[c][n]
            /\ \A f \in Fds : futureMap[f] # NoTask /\ Owner(futureMap[f]) = c => s < futureMap[f]
      BY <1>4, <2>1 DEF Sent
    <3> QED BY <1>7, <3>1
  <2> QED BY <1>4, <1>6, <2>1 DEF Sent, Owner
<1> QED BY <1>3, <1>5, <1>8, <1>9, <1>10, <1>11, <1>12 DEF ServerInv, Requested

-----------------------------------------------------------------------------
(***************************************************************************)
(* Every step keeps the invariant.                                         *)
(***************************************************************************)
LEMMA StartTaskKeeps == ServerInv /\ StartTask => ServerInv'
<1> SUFFICES ASSUME ServerInv, StartTask PROVE ServerInv'
  OBVIOUS
<1> USE DEF ServerInv
<1>1. /\ UNCHANGED <<link, fdOf, written, delivered, consumed, replies, slots, pollPc, at, ready,
                     uncompleted, futureMap, tasks, result, status, residue>>
      /\ UNCHANGED rpcVars /\ Pool!Start
  BY DEF StartTask, netVars, pollVars, rpcVars
<1>2. InTurn' /\ finished' = finished /\ Done' = Done
  BY <1>1, StartInTurn, LenProperties DEF Types, TypeOK
<1>3. Types'
  BY <1>1 DEF Types, TypeOK
<1>4. Connections' /\ HoldersStay
  BY <1>1 DEF Connections, SlotsMatch, ReadyOpen, InUse, Connected, HoldersStay, Holds
<1>5. Requested'
  BY <1>1, <1>2, <1>4, QuietStep
<1> QED BY <1>2, <1>3, <1>4, <1>5

LEMMA ServerStep == ServerInv /\ [Next]_vars => ServerInv'
<1> SUFFICES ASSUME ServerInv, [Next]_vars PROVE ServerInv'
  OBVIOUS
<1>1. ASSUME Types', Connections', HoldersStay, UNCHANGED requestVars PROVE ServerInv'
  <2>1. InTurn' /\ Done' = Done
    BY <1>1, PoolStays DEF ServerInv
  <2>2. UNCHANGED <<consumed, replies, rpcVars, finished, residue>>
    BY <1>1 DEF requestVars, poolVars
  <2>3. Requested'
    BY <1>1, <2>1, <2>2, QuietStep DEF ServerInv
  <2> QED BY <1>1, <2>1, <2>3 DEF ServerInv
<1>2. ASSUME NEW c \in Conns, Connect(c) \/ Ask(c) \/ Deliver(c) \/ Leave(c) PROVE ServerInv'
  BY <1>1, <1>2, ClientTypes DEF ClientStep
<1>3. ASSUME NEW c \in Conns, NEW fd \in Fds, Accept(c, fd) PROVE ServerInv'
  BY <1>1, <1>3, AcceptTypes
<1>4. CASE PollClients \/ SkipRead \/ NoResultYet \/ GetThrows \/ UNCHANGED vars
  BY <1>1, <1>4, IdlePollTypes DEF IdlePoll
<1>5. CASE ReadChunk \/ ReadEnd \/ WriteResult
  BY <1>5, ReadChunkKeeps, ReadEndKeeps, WriteResultKeeps
<1>6. CASE StartTask
  BY <1>6, StartTaskKeeps
<1>7. ASSUME NEW t \in TaskIds, FinishTask(t) PROVE ServerInv'
  BY <1>7, FinishTaskKeeps
<1> QED BY <1>2, <1>3, <1>4, <1>5, <1>6, <1>7 DEF Next, PollThread

LEMMA ServerAlways == Spec => []ServerInv
BY ServerInit, ServerStep, PTL DEF Spec

-----------------------------------------------------------------------------
(***************************************************************************)
(* The order of the replies, while the network cuts frames in their bodies *)
(* only.                                                                   *)
(***************************************************************************)
BodyCuts == Cuts \subseteq HeaderLen..HeaderLen + BodyLen - 1

\* The end of the frames that were answered.
Base(c) == Len(replies[c]) * Total

\* The positions where a chunk of the frame at position b may begin or end.
Places(b) == {b, b + Total} \cup {b + o : o \in Cuts}

\* The entry for the first len bytes of that frame.
Partial(c, b, len) ==
  [data |-> [conn |-> c, from |-> b, len |-> len, pure |-> TRUE],
   remaining |-> HeaderLen + BodyLen - len]

\* A connection as in RepliesInOrder.
Clean(c) == link[c] = "open" /\ fdOf[c] \notin residue

\* A client that is not connected yet has sent and received nothing.
Fresh(c) == link[c] \in {"new", "connecting"} => written[c] = 0 /\ replies[c] = <<>>

\* A client has one frame under way, after the ones that were answered.
Frame(c) ==
  /\ written[c] \in {Base(c), Base(c) + Total}
  /\ delivered[c] \in Places(Base(c)) /\ consumed[c] \in Places(Base(c))
  /\ futureMap[fdOf[c]] # NoTask => End(futureMap[fdOf[c]]) > Base(c)

\* The tasks of that frame: each has a part of it, and the last one handled so far
\* returned its answer if it has the end.
Parts(c) ==
  \A t \in Ids : Owner(t) = c =>
    /\ From(t) < End(t)
    /\ t \notin finished => End(t) > Base(c)
    /\ End(t) > Base(c) => From(t) \in Places(Base(c)) /\ End(t) \in Places(Base(c))

Returned(c) ==
  \A t \in finished : Owner(t) = c /\ End(t) > Base(c) =>
    IF End(t) = Base(c) + Total
      THEN result[t] \in {Answer(c, Len(replies[c]) + 1), <<"throws">>}
      ELSE result[t] = <<"empty">>

\* Its descriptor's entry holds the chunks of that frame that were handled.
Assembled(c) ==
  \A pos \in Nat : EndsAt(c, Done, pos) =>
    uncompleted[fdOf[c]] =
      IF pos <= Base(c) \/ pos = Base(c) + Total THEN {} ELSE {Partial(c, Base(c), pos - Base(c))}

AnswersInOrder(c) == \A n \in 1..Len(replies[c]) : replies[c][n] = Answer(c, n)

Ordered(c) ==
  /\ Fresh(c)
  /\ Clean(c) => Frame(c) /\ Parts(c) /\ Returned(c) /\ Assembled(c) /\ AnswersInOrder(c)

OrderInv == \A c \in Conns : Ordered(c)

\* Positions in frames.
LEMMA FramePositions ==
  /\ 0 * Total = 0
  /\ \A k \in Nat : /\ k * Total \in Nat /\ (k + 1) * Total = k * Total + Total
                    /\ RequestAt(k * Total) = k + 1
                    /\ \A o \in 0..Total - 1 : (k * Total + o) % Total = o
<1> DEFINE T == Total
<1>1. T \in Nat /\ T > 0
  BY TotalPositive
<1> HIDE DEF T
<1>2. \A k \in Nat : k * T \in Nat /\ (k + 1) * T = k * T + T
  BY <1>1
<1>3. ASSUME NEW k \in Nat, NEW o \in 0..T - 1
      PROVE  (k * T + o) % T = o /\ (k * T + o) \div T = k
  <2>1. (k * T + o) % T = o
    BY <1>1
  <2>2. (k * T + o) \div T = k
    BY <1>1
  <2> QED BY <2>1, <2>2
<1>4. \A k \in Nat : (k * T) \div T = k
  <2>1. \A k \in Nat : k * T + 0 = k * T
    BY <1>2
  <2> QED BY <1>1, <1>3, <2>1
<1>5. 0 * T = 0
  BY <1>1
<1> QED BY <1>2, <1>3, <1>4, <1>5 DEF RequestAt, T

LEMMA BaseIs ==
  ASSUME Types, NEW c \in Conns
  PROVE  /\ Len(replies[c]) \in Nat /\ Base(c) \in Nat
         /\ RequestAt(Base(c)) = Len(replies[c]) + 1
         /\ \A o \in 0..Total - 1 : (Base(c) + o) % Total = o
         /\ replies[c] = <<>> => Base(c) = 0
<1>1. Len(replies[c]) \in Nat
  BY LenProperties DEF Types
<1>2. replies[c] = <<>> => Len(replies[c]) = 0
  OBVIOUS
<1> QED BY <1>1, <1>2, FramePositions DEF Base

\* What is sent, delivered and read.
LEMMA Streams ==
  ASSUME Types, NEW c \in Conns
  PROVE  /\ written[c] \in Nat /\ delivered[c] \in Nat /\ consumed[c] \in Nat
         /\ consumed[c] <= delivered[c] /\ delivered[c] <= written[c]
BY DEF Types, TypeOK

LEMMA EndsSame ==
  ASSUME NEW c, NEW k \in Nat, NEW pos, \A t \in 1..k : Owner(t)' = Owner(t) /\ End(t)' = End(t),
         EndsAt(c, k, pos)'
  PROVE  EndsAt(c, k, pos)
<1>1. CASE pos = 0 /\ \A s \in 1..k : Owner(s)' # c
  BY <1>1 DEF EndsAt
<1>2. ASSUME NEW s \in 1..k, Owner(s)' = c, End(s)' = pos, \A r \in s + 1..k : Owner(r)' # c
      PROVE  EndsAt(c, k, pos)
  <2>1. \A r \in s + 1..k : r \in 1..k
    BY <1>2
  <2> QED BY <1>2, <2>1 DEF EndsAt
<1> QED BY <1>1, <1>2 DEF EndsAt

LEMMA BodyCutsFit ==
  ASSUME BodyCuts
  PROVE  \A o \in Cuts : o \in Nat /\ o >= HeaderLen /\ o < HeaderLen + BodyLen /\ o > 0 /\ o < Total
BY ServerAssumption DEF BodyCuts, HeaderLen, Total

LEMMA PlacesFit ==
  ASSUME BodyCuts, NEW b \in Nat, NEW p \in Places(b)
  PROVE  /\ p \in Nat /\ b <= p /\ p <= b + Total
         /\ p = b \/ p = b + Total \/ \E o \in Cuts : p = b + o
BY BodyCutsFit, TotalPositive DEF Places

LEMMA OrderInit == Init => OrderInv
<1> SUFFICES ASSUME Init, NEW c \in Conns PROVE Ordered(c)
  BY DEF OrderInv
<1> QED BY DEF Init, Ordered, Fresh, Clean

\* A connection's tasks are on its descriptor.
LEMMA CleanTask ==
  ASSUME ServerInv, NEW c \in Conns, Clean(c), NEW t \in Ids, Owner(t) = c
  PROVE  tasks[t].fd = fdOf[c] /\ Holds(c, fdOf[c])
BY DEF ServerInv, Requested, Chunks, Clean, Holds

\* An open connection's descriptor.
LEMMA CleanFd ==
  ASSUME ServerInv, NEW c \in Conns, Clean(c)
  PROVE  /\ Holds(c, fdOf[c]) /\ fdOf[c] \in Fds
         /\ \A d \in Conns : Holds(d, fdOf[c]) => d = c
<1>1. Holds(c, fdOf[c])
  BY DEF Clean, Holds, Connected
<1>2. fdOf[c] \in InUse /\ SlotsMatch
  BY <1>1, HolderUnique DEF ServerInv, Connections
<1>3. fdOf[c] \in Fds
  BY <1>2 DEF InUse, ServerInv, Types, TypeOK
<1> QED BY <1>1, <1>2, <1>3 DEF Holds, SlotsMatch

\* What a step leaves alone of one connection.
Untouched(c) ==
  /\ fdOf'[c] = fdOf[c] /\ consumed'[c] = consumed[c] /\ replies'[c] = replies[c]
  /\ futureMap'[fdOf[c]] \in {futureMap[fdOf[c]], NoTask}
  /\ uncompleted'[fdOf[c]] = uncompleted[fdOf[c]]
  /\ tasks' = tasks /\ result' = result /\ finished' = finished /\ Done' = Done

LEMMA UntouchedStays ==
  ASSUME ServerInv, NEW c \in Conns, Clean(c), Ordered(c), Untouched(c),
         written'[c] \in {Base(c), Base(c) + Total}, delivered'[c] \in Places(Base(c))
  PROVE  Frame(c)' /\ Parts(c)' /\ Returned(c)' /\ Assembled(c)' /\ AnswersInOrder(c)'
<1> DEFINE f == fdOf[c]
<1>1. /\ Base(c)' = Base(c) /\ Ids' = Ids
      /\ \A t : Owner(t)' = Owner(t) /\ From(t)' = From(t) /\ End(t)' = End(t)
  BY DEF Untouched, Base, Ids, Owner, From, End
<1>2. Frame(c) /\ Parts(c) /\ Returned(c) /\ Assembled(c) /\ AnswersInOrder(c)
  BY DEF Ordered
<1>3. Frame(c)'
  <2>1. futureMap'[f] # NoTask => End(futureMap'[f]) > Base(c)
    BY <1>2 DEF Untouched, Frame
  <2> QED BY <1>1, <1>2, <2>1 DEF Untouched, Frame, End, Places
<1>4. Parts(c)'
  BY <1>1, <1>2 DEF Untouched, Parts, Places
<1>5. Returned(c)'
  BY <1>1, <1>2 DEF Untouched, Returned
<1>6. Assembled(c)'
  <2>1. \A pos : EndsAt(c, Done, pos)' <=> EndsAt(c, Done, pos)
    BY DEF Untouched, EndsAt, Owner, End
  <2>2. uncompleted'[fdOf'[c]] = uncompleted[fdOf[c]]
    BY DEF Untouched
  <2>3. \A b, len : Partial(c, b, len)' = Partial(c, b, len)
    BY DEF Partial
  <2> QED BY <1>1, <1>2, <2>1, <2>2, <2>3 DEF Assembled
<1>7. AnswersInOrder(c)'
  BY <1>2 DEF Untouched, AnswersInOrder
<1> QED BY <1>3, <1>4, <1>5, <1>6, <1>7

\* A step of a client or the network.
LEMMA ClientOrder ==
  ASSUME BodyCuts, ServerInv, OrderInv, NEW d \in Conns, ClientStep(d)
  PROVE  OrderInv'
<1> SUFFICES ASSUME NEW c \in Conns PROVE Ordered(c)'
  BY DEF OrderInv
<1>1. Types /\ Ordered(c) /\ Ordered(d)
  BY DEF ServerInv, OrderInv
<1>2. /\ UNCHANGED <<fdOf, consumed, replies, uncompleted, futureMap, tasks, result, backlog, active,
                     finished, residue>>
      /\ Untouched(c) /\ Base(c)' = Base(c)
  BY DEF ClientStep, Connect, Ask, Deliver, Leave, pollVars, rpcVars, poolVars, Untouched, Done, Taken,
         Base
<1>3. /\ \A x \in Conns : x # d => link'[x] = link[x] /\ written'[x] = written[x]
                                   /\ delivered'[x] = delivered[x]
      /\ link'[d] \in {"new", "connecting"} => link[d] \in {"new", "connecting"} /\ written'[d] = written[d]
      /\ link'[d] = "open" => link[d] = "open"
  BY <1>1 DEF ClientStep, Connect, Ask, Deliver, Leave, Types, TypeOK
<1>4. Fresh(c)'
  BY <1>1, <1>2, <1>3 DEF Ordered, Fresh
<1>5. ASSUME Clean(c)'
      PROVE  /\ Clean(c)
             /\ written'[c] \in {Base(c), Base(c) + Total} /\ delivered'[c] \in Places(Base(c))
  <2>1. Clean(c)
    BY <1>2, <1>3, <1>5 DEF Clean
  <2>2. Frame(c)
    BY <1>1, <2>1 DEF Ordered
  <2>3. CASE c # d
    BY <1>3, <2>1, <2>2, <2>3 DEF Frame
  <2>4. CASE c = d /\ (Connect(d) \/ Leave(d))
    BY <2>1, <2>2, <2>4 DEF Connect, Leave, Frame
  <2>5. CASE c = d /\ Ask(d)
    <3>1. /\ written[c] <= Base(c) /\ written' = [written EXCEPT ![c] = written[c] + Total]
          /\ delivered' = delivered
      BY <2>5 DEF Ask, Base
    <3>2. Base(c) \in Nat /\ Total \in Nat /\ Total > 0 /\ written[c] \in Nat
      BY <1>1, BaseIs, Streams, TotalPositive
    <3>3. written[c] = Base(c)
      BY <2>2, <3>1, <3>2 DEF Frame
    <3>4. written'[c] = Base(c) + Total
      BY <1>1, <3>1, <3>3 DEF Types, TypeOK
    <3> QED BY <2>1, <2>2, <3>1, <3>4 DEF Frame
  <2>6. CASE c = d /\ Deliver(d)
    <3>1. PICK pos \in delivered[c] + 1..written[c] :
            pos % Total \in Cuts \cup {0} /\ delivered' = [delivered EXCEPT ![c] = pos]
      BY <2>6 DEF Deliver
    <3>2. written' = written /\ delivered'[c] = pos
      BY <1>1, <2>6, <3>1 DEF Deliver, Types, TypeOK
    <3>3. Base(c) \in Nat /\ Total \in Nat /\ Total > 0 /\ written[c] \in Nat /\ delivered[c] \in Nat
      BY <1>1, BaseIs, Streams, TotalPositive
    <3>4. written[c] <= Base(c) + Total /\ Base(c) <= delivered[c]
      BY <2>2, <3>3, PlacesFit DEF Frame
    <3>5. pos \in Nat /\ Base(c) < pos /\ pos <= Base(c) + Total
      BY <3>1, <3>3, <3>4
    <3>6. PICK o \in 1..Total : pos = Base(c) + o
      <4>1. pos - Base(c) \in 1..Total /\ pos = Base(c) + (pos - Base(c))
        BY <3>3, <3>5
      <4> QED BY <4>1
    <3>7. CASE o = Total
      BY <2>1, <2>2, <3>2, <3>6, <3>7 DEF Frame, Places
    <3>8. CASE o # Total
      <4>1. pos % Total = o
        BY <1>1, <3>3, <3>6, <3>8, BaseIs
      <4>2. o \in Cuts
        BY <3>1, <4>1
      <4> QED BY <2>1, <2>2, <3>2, <3>6, <4>2 DEF Frame, Places
    <3> QED BY <3>7, <3>8
  <2> QED BY <2>3, <2>4, <2>5, <2>6 DEF ClientStep
<1>6. Clean(c)' => Frame(c)' /\ Parts(c)' /\ Returned(c)' /\ Assembled(c)' /\ AnswersInOrder(c)'
  BY <1>1, <1>2, <1>5, UntouchedStays
<1> QED BY <1>4, <1>6 DEF Ordered

\* A step after which the connection is as it was, or is not clean or fresh.
LEMMA OtherOrder ==
  ASSUME ServerInv, NEW c \in Conns, Ordered(c),
         link'[c] \in {link[c], "closed", "refused"}, Clean(c)' => Clean(c) /\ Untouched(c),
         written'[c] = written[c], delivered'[c] = delivered[c], Fresh(c)'
  PROVE  Ordered(c)'
<1>1. ASSUME Clean(c)' PROVE Frame(c)' /\ Parts(c)' /\ Returned(c)' /\ Assembled(c)' /\ AnswersInOrder(c)'
  <2>1. Clean(c) /\ Untouched(c)
    BY <1>1
  <2>2. written'[c] \in {Base(c), Base(c) + Total} /\ delivered'[c] \in Places(Base(c))
    BY <2>1 DEF Ordered, Frame
  <2> QED BY <2>1, <2>2, UntouchedStays
<1> QED BY <1>1 DEF Ordered

\* A step of the poll thread that neither reads nor writes, or of the pool when it
\* takes a task.
LEMMA IdleOrder ==
  ASSUME ServerInv, OrderInv, IdlePoll \/ StartTask \/ UNCHANGED vars
  PROVE  OrderInv'
<1> SUFFICES ASSUME NEW c \in Conns PROVE Ordered(c)'
  BY DEF OrderInv
<1>1. /\ UNCHANGED <<link, fdOf, written, delivered, consumed, replies, uncompleted, futureMap, tasks,
                     result, finished, residue>>
      /\ Done' = Done
  <2>1. CASE IdlePoll \/ UNCHANGED vars
    BY <2>1 DEF IdlePoll, PollClients, SkipRead, NoResultYet, GetThrows, vars, netVars, rpcVars, poolVars,
       Done, Taken
  <2>2. CASE StartTask
    <3>1. Pool!Start /\ tasks' = tasks
      BY <2>2 DEF StartTask, rpcVars
    <3>2. finished' = finished /\ Done' = Done
      BY <3>1, StartInTurn, LenProperties DEF ServerInv, Types, TypeOK
    <3> QED BY <2>2, <3>2 DEF StartTask, netVars, rpcVars
  <2> QED BY <2>1, <2>2
<1>2. Ordered(c) /\ Fresh(c)' /\ Untouched(c) /\ Clean(c)' = Clean(c)
  BY <1>1 DEF OrderInv, Ordered, Fresh, Untouched, Clean
<1> QED BY <1>1, <1>2, OtherOrder

\* A connection that is accepted begins its first frame.
LEMMA AcceptOrder ==
  ASSUME ServerInv, OrderInv, NEW d \in Conns, NEW fd \in Fds, Accept(d, fd)
  PROVE  OrderInv'
<1> SUFFICES ASSUME NEW c \in Conns PROVE Ordered(c)'
  BY DEF OrderInv
<1>1. Types /\ SlotsMatch /\ Ordered(c)
  BY DEF ServerInv, OrderInv, Connections
<1>2. /\ UNCHANGED <<written, delivered, consumed, replies, uncompleted, futureMap, tasks, result,
                     backlog, active, finished, residue>>
      /\ Done' = Done
      /\ link[d] = "connecting" /\ fd \notin InUse
      /\ \/ link' = [link EXCEPT ![d] = "open"] /\ fdOf' = [fdOf EXCEPT ![d] = fd]
         \/ link' = [link EXCEPT ![d] = "refused"] /\ fdOf' = fdOf
  BY <1>1 DEF Accept, Waiting, rpcVars, poolVars, Done, Taken
<1>3. CASE c # d
  <2>1. link'[c] = link[c] /\ fdOf'[c] = fdOf[c]
    BY <1>1, <1>2, <1>3 DEF Types, TypeOK
  <2>2. Fresh(c)' /\ Untouched(c) /\ Clean(c)' = Clean(c)
    BY <1>1, <1>2, <2>1 DEF Ordered, Fresh, Untouched, Clean
  <2> QED BY <1>1, <1>2, <2>1, <2>2, OtherOrder
<1>4. CASE c = d /\ link'[d] # "open"
  BY <1>1, <1>2, <1>4 DEF Ordered, Fresh, Clean, Types, TypeOK
<1>5. CASE c = d /\ link'[d] = "open"
  <2>1. link'[c] = "open" /\ fdOf'[c] = fd
    BY <1>1, <1>2, <1>5 DEF Types, TypeOK
  <2>2. /\ replies[c] = <<>> /\ written[c] = 0 /\ delivered[c] = 0 /\ consumed[c] = 0
        /\ Base(c) = 0 /\ Base(c)' = 0 /\ Ids' = Ids
    <3>1. replies[c] = <<>> /\ written[c] = 0
      BY <1>1, <1>2, <1>5 DEF Ordered, Fresh
    <3>2. delivered[c] = 0 /\ consumed[c] = 0
      BY <1>1, <3>1, Streams
    <3>3. Base(c) = 0 /\ Base(c)' = Base(c)
      BY <1>1, <1>2, <3>1, BaseIs DEF Base
    <3> QED BY <1>2, <3>1, <3>2, <3>3 DEF Ids
  <2>3. \A t \in Ids : Owner(t) # c
    BY <1>2, <1>5 DEF ServerInv, Requested, Chunks, Holds, Connected
  <2>4. \A x \in Conns : ~Holds(x, fd)
    BY <1>1, <1>2, HolderUnique
  <2>5. futureMap[fd] = NoTask
    <3>1. futureMap[fd] # NoTask => futureMap[fd] \in Ids /\ Holds(Owner(futureMap[fd]), fd)
      BY DEF ServerInv, Requested, Futures
    <3> QED BY <1>1, <2>4, <3>1, TaskTypes
  <2>6. fd \notin residue => uncompleted[fd] = {}
    <3>1. ASSUME fd \notin residue, NEW now \in uncompleted[fd] PROVE FALSE
      <4>1. Holds(now.data.conn, fd)
        BY <3>1 DEF ServerInv, Requested, Partials
      <4>2. now.data.conn \in Conns
        BY <1>1 DEF Types, Entries, Data
      <4> QED BY <2>4, <4>1, <4>2
    <3> QED BY <3>1
  <2>7. finished \subseteq Ids /\ Done \in Nat /\ 1..Done \subseteq Ids
    <3>1. finished \subseteq Ids /\ Done \in Nat /\ Done <= Taken /\ Taken <= Len(tasks) /\ Len(tasks) \in Nat
          /\ Taken \in Nat
      BY <1>1, InTurnNumbers, LenProperties DEF ServerInv, Types, TypeOK
    <3> QED BY <3>1 DEF Ids
  <2>8. Fresh(c)'
    BY <2>1 DEF Fresh
  <2>9. Frame(c)'
    BY <1>2, <2>1, <2>2, <2>5 DEF Frame, Places
  <2>10. Parts(c)' /\ Returned(c)'
    BY <1>2, <2>2, <2>3, <2>7 DEF Parts, Returned, Owner
  <2>11. fd \notin residue => Assembled(c)'
    <3>1. ASSUME fd \notin residue, NEW pos \in Nat, EndsAt(c, Done, pos)'
          PROVE  pos = 0
      BY <1>2, <2>3, <2>7, <3>1 DEF EndsAt, Owner
    <3>2. fd \notin residue => uncompleted'[fdOf'[c]] = {}
      BY <1>2, <2>1, <2>6
    <3>3. \A pos \in Nat : fd \notin residue /\ EndsAt(c, Done, pos)' =>
            pos <= Base(c)' /\ uncompleted'[fdOf'[c]] = {}
      BY <2>2, <3>1, <3>2
    <3> QED BY <3>3 DEF Assembled
  <2>12. AnswersInOrder(c)'
    BY <1>2, <2>2 DEF AnswersInOrder
  <2> QED BY <1>2, <2>1, <2>8, <2>9, <2>10, <2>11, <2>12 DEF Ordered, Clean
<1> QED BY <1>3, <1>4, <1>5

\* A connection ends; the others stay as they are.
LEMMA ReadEndOrder ==
  ASSUME ServerInv, OrderInv, ReadEnd
  PROVE  OrderInv'
<1> SUFFICES ASSUME NEW c \in Conns PROVE Ordered(c)'
  BY DEF OrderInv
<1>1. PICK d \in Conns, fd \in Fds : EndAs(d, fd)
  BY ReadEndAs
<1>2. Types /\ SlotsMatch /\ Ordered(c)
  BY DEF ServerInv, OrderInv, Connections
<1>3. /\ Holds(d, fd) /\ UNCHANGED <<written, delivered, consumed, replies, tasks, result, finished>>
      /\ Done' = Done /\ link'[d] = "closed"
      /\ \A x \in Conns : x # d => link'[x] = link[x] /\ fdOf'[x] = fdOf[x]
      /\ \A f \in Fds : f # fd => /\ uncompleted'[f] = uncompleted[f] /\ futureMap'[f] = futureMap[f]
                                  /\ f \in residue' <=> f \in residue
  BY <1>1, <1>2 DEF EndAs, Free, Types, TypeOK, Done, Taken
<1>4. Fresh(c)' /\ link'[c] \in {link[c], "closed"}
  BY <1>2, <1>3 DEF Ordered, Fresh
<1>5. ASSUME Clean(c)' PROVE Clean(c) /\ Untouched(c)
  <2>1. c # d /\ link[c] = "open" /\ fdOf'[c] = fdOf[c]
    BY <1>3, <1>5 DEF Clean
  <2>2. Holds(c, fdOf[c]) /\ fdOf[c] # fd
    BY <1>2, <1>3, <2>1 DEF Holds, Connected, SlotsMatch
  <2>3. fdOf[c] \in Fds
    BY <1>2, <2>2, HolderUnique DEF InUse, Types, TypeOK
  <2> QED BY <1>3, <1>5, <2>1, <2>2, <2>3 DEF Clean, Untouched
<1> QED BY <1>2, <1>3, <1>4, <1>5, OtherOrder

\* A chunk that is read ends where the bytes delivered end.
LEMMA ReadChunkOrder ==
  ASSUME BodyCuts, ServerInv, OrderInv, NEW d \in Conns, NEW fd \in Fds, NEW n \in Nat,
         NEW from \in Nat, NEW to \in Nat, ReadAs(d, fd, n, from, to)
  PROVE  OrderInv'
<1> SUFFICES ASSUME NEW c \in Conns PROVE Ordered(c)'
  BY DEF OrderInv
<1>1. /\ Ids = 1..n /\ Ids' = 1..n + 1
      /\ \A s \in Ids : Owner(s)' = Owner(s) /\ From(s)' = From(s) /\ End(s)' = End(s)
      /\ Owner(n + 1)' = d /\ From(n + 1)' = from /\ End(n + 1)' = to
      /\ finished' = finished /\ Done' = Done /\ finished \subseteq Ids /\ Done <= n
      /\ consumed'[d] = to /\ \A x \in Conns : x # d => consumed'[x] = consumed[x]
  <2>1. /\ Ids = 1..n /\ Ids' = 1..n + 1
        /\ \A s \in Ids : Owner(s)' = Owner(s) /\ From(s)' = From(s) /\ End(s)' = End(s)
    BY ReadFacts
  <2>2. Owner(n + 1)' = d /\ From(n + 1)' = from /\ End(n + 1)' = to
    BY ReadFacts
  <2>3. finished' = finished /\ Done' = Done /\ finished \subseteq Ids /\ Done <= n
    BY ReadFacts
  <2>4. consumed'[d] = to /\ \A x \in Conns : x # d => consumed'[x] = consumed[x]
    BY ReadFacts
  <2> QED BY <2>1, <2>2, <2>3, <2>4
<1>2. /\ from = consumed[d] /\ to = delivered[d] /\ from < to /\ Holds(d, fd)
      /\ futureMap' = [futureMap EXCEPT ![fd] = n + 1]
      /\ UNCHANGED <<link, fdOf, written, delivered, replies, uncompleted, result, residue>>
  BY DEF ReadAs
<1>3. Types /\ Ordered(c) /\ Done \in Nat
  BY InTurnNumbers, LenProperties DEF ServerInv, OrderInv, Types, TypeOK
<1>4. Fresh(c)' /\ Clean(c)' = Clean(c) /\ Base(c)' = Base(c)
  BY <1>2, <1>3 DEF Ordered, Fresh, Clean, Base
<1> SUFFICES ASSUME Clean(c)
             PROVE  Frame(c)' /\ Parts(c)' /\ Returned(c)' /\ Assembled(c)' /\ AnswersInOrder(c)'
  BY <1>4 DEF Ordered
<1> DEFINE B == Base(c)
<1>5. Frame(c) /\ Parts(c) /\ Returned(c) /\ Assembled(c) /\ AnswersInOrder(c) /\ B \in Nat
  BY <1>3, BaseIs DEF Ordered
<1>6. Places(B)' = Places(B)
  BY <1>4 DEF Places
<1>7. fdOf[c] \in Fds /\ \A x \in Conns : Holds(x, fdOf[c]) => x = c
  BY CleanFd
<1>8. c = d => /\ from \in Places(B) /\ to \in Places(B) /\ to > B /\ fdOf[c] = fd
  <2>1. c = d => from \in Places(B) /\ to \in Places(B) /\ fdOf[c] = fd
    BY <1>2, <1>5 DEF Frame, Holds
  <2>2. c = d => from >= B
    BY <1>5, <2>1, PlacesFit
  <2> QED BY <1>2, <1>5, <2>1, <2>2
<1>9. Frame(c)'
  <2>1. consumed'[c] \in Places(B)
    BY <1>1, <1>5, <1>8 DEF Frame
  <2>2. ASSUME NEW i, i = futureMap'[fdOf[c]], i # NoTask
        PROVE  End(i)' > B
    <3>1. CASE c = d
      <4>1. i = n + 1
        BY <1>2, <1>3, <1>8, <2>2, <3>1 DEF Types, TypeOK
      <4> QED BY <1>1, <1>8, <3>1, <4>1
    <3>2. CASE c # d
      <4>1. fdOf[c] # fd
        BY <1>2, <1>7, <3>2
      <4>2. i = futureMap[fdOf[c]]
        BY <1>2, <1>3, <1>7, <2>2, <4>1 DEF Types, TypeOK
      <4>3. i \in Ids
        BY <1>7, <2>2, <4>2 DEF ServerInv, Requested, Futures
      <4>4. End(i) > B
        BY <1>5, <2>2, <4>2 DEF Frame
      <4> QED BY <1>1, <4>3, <4>4
    <3> QED BY <3>1, <3>2
  <2>3. /\ written'[c] \in {B, B + Total} /\ delivered'[c] \in Places(B)
    BY <1>2, <1>5 DEF Frame
  <2>4. \A i : i = futureMap'[fdOf[c]] /\ i # NoTask => tasks'[i].chunk.from + tasks'[i].chunk.len > B
    BY <2>2 DEF End
  <2> QED BY <1>2, <1>4, <1>6, <2>1, <2>3, <2>4 DEF Frame, End
<1>10. Parts(c)'
  <2> SUFFICES ASSUME NEW t \in 1..n + 1, Owner(t)' = c
               PROVE  /\ From(t)' < End(t)'
                      /\ t \notin finished => End(t)' > B
                      /\ End(t)' > B => From(t)' \in Places(B) /\ End(t)' \in Places(B)
    BY <1>1, <1>4, <1>6 DEF Parts
  <2>1. CASE t \in Ids
    BY <1>1, <1>5, <2>1 DEF Parts
  <2>2. CASE t = n + 1
    BY <1>1, <1>2, <1>8, <2>2
  <2> QED BY <1>1, <2>1, <2>2
<1>11. Returned(c)'
  <2>1. \A t \in finished : Owner(t)' = Owner(t) /\ End(t)' = End(t)
    BY <1>1
  <2> QED BY <1>1, <1>2, <1>4, <1>5, <2>1 DEF Returned
<1>12. Assembled(c)'
  <2>1. \A t \in 1..Done : Owner(t)' = Owner(t) /\ End(t)' = End(t)
    BY <1>1, <1>3
  <2>2. \A pos \in Nat : EndsAt(c, Done, pos)' => EndsAt(c, Done, pos)
    BY <1>1, <1>3, <2>1, EndsSame DEF EndsAt
  <2>3. \A b, len : Partial(c, b, len)' = Partial(c, b, len)
    BY DEF Partial
  <2> QED BY <1>2, <1>4, <1>5, <2>2, <2>3 DEF Assembled
<1>13. AnswersInOrder(c)'
  BY <1>2, <1>5 DEF AnswersInOrder
<1> QED BY <1>9, <1>10, <1>11, <1>12, <1>13

\* WriteResult, with names for what it reads and all it writes.
WriteOf(c, fd, t) ==
  /\ WriteAs(c, fd, t) /\ result[t] # <<"throws">>
  /\ replies' = IF result[t] = <<"empty">> \/ link[c] # "open" THEN replies
                ELSE [replies EXCEPT ![c] = Append(@, result[t])]

LEMMA WriteResultOf ==
  ASSUME ServerInv, WriteResult
  PROVE  \E c \in Conns, fd \in Fds, t \in Ids : WriteOf(c, fd, t)
<1> DEFINE fd == slots[at]
           c == ConnOf(fd)
           t == futureMap[fd]
<1>1. /\ pollPc = "out" /\ t \in finished /\ result[t] # <<"throws">>
      /\ futureMap' = [futureMap EXCEPT ![fd] = NoTask]
      /\ replies' = IF result[t] = <<"empty">> \/ link[c] # "open" THEN replies
                    ELSE [replies EXCEPT ![c] = Append(@, result[t])]
      /\ UNCHANGED <<link, fdOf, written, delivered, consumed, slots, ready, uncompleted, tasks, result,
                     backlog, active, finished, status, residue>>
  BY DEF WriteResult, AtSlot, TakeFuture, poolVars
<1>2. at \in 1..Slots /\ fd # NoFd /\ fd \in Fds
  BY <1>1 DEF ServerInv, Types, TypeOK, Connections, ReadyOpen
<1>3. c \in Conns /\ Holds(c, fd)
  BY <1>2, SlotInUse, HolderFound DEF ServerInv, Connections
<1> HIDE DEF c, fd
<1>4. t \in Ids
  BY <1>1, InTurnNumbers, LenProperties DEF ServerInv, Types, TypeOK
<1>5. replies' \in {replies, [replies EXCEPT ![c] = Append(@, result[t])]}
  BY <1>1
<1>6. WriteAs(c, fd, t)
  BY <1>1, <1>3, <1>5 DEF WriteAs
<1> QED BY <1>1, <1>2, <1>3, <1>4, <1>6 DEF WriteOf

\* The answer to the frame under way is written: the next frame begins.
LEMMA AnswerOrder ==
  ASSUME BodyCuts, ServerInv, NEW c \in Conns, Clean(c), Ordered(c), NEW fd \in Fds, NEW t \in Ids,
         WriteAs(c, fd, t), Owner(t) = c, End(t) = Base(c) + Total,
         result[t] = Answer(c, Len(replies[c]) + 1),
         replies' = [replies EXCEPT ![c] = Append(@, result[t])]
  PROVE  Frame(c)' /\ Parts(c)' /\ Returned(c)' /\ Assembled(c)' /\ AnswersInOrder(c)'
<1> DEFINE B == Base(c)
           R == Len(replies[c])
<1>1. /\ t \in finished
      /\ UNCHANGED <<link, fdOf, written, delivered, consumed, uncompleted, tasks, result, backlog,
                     active, finished, residue>>
      /\ Holds(c, fd) /\ fdOf[c] = fd
      /\ futureMap' = [futureMap EXCEPT ![fd] = NoTask]
  BY DEF WriteAs, Holds
<1>2. Types /\ Frame(c) /\ Parts(c) /\ Assembled(c) /\ AnswersInOrder(c) /\ Chunks
  BY DEF ServerInv, Ordered, Requested
<1>3. /\ R \in Nat /\ B \in Nat /\ Total \in Nat /\ Total > 0 /\ B = R * Total
      /\ (R + 1) * Total = B + Total
  BY <1>2, BaseIs, TotalPositive, FramePositions DEF Base
<1>4. /\ replies'[c] = Append(replies[c], Answer(c, R + 1))
      /\ Len(replies'[c]) = R + 1 /\ replies'[c][R + 1] = Answer(c, R + 1)
      /\ \A n \in 1..R : replies'[c][n] = replies[c][n]
  <2>1. replies'[c] = Append(replies[c], Answer(c, R + 1))
    BY <1>2 DEF Types
  <2>2. replies[c] \in Seq(Results) /\ Answer(c, R + 1) \in Results
    <3>1. R + 1 \in Nat
      BY <1>3
    <3> QED BY <1>2, <3>1 DEF Types, Results, Answers
  <2> QED BY <2>1, <2>2, AppendProperties
<1>5. Base(c)' = B + Total
  BY <1>3, <1>4 DEF Base
<1>6. consumed[c] = B + Total /\ delivered[c] = B + Total /\ written[c] = B + Total
  <2>1. End(t) <= consumed[c]
    BY <1>2 DEF Chunks
  <2> QED BY <1>2, <1>3, <2>1, Streams DEF Frame
<1>7. ASSUME NEW s \in Ids, Owner(s) = c
      PROVE  /\ End(s) \in Nat /\ From(s) \in Nat /\ From(s) < End(s) /\ End(s) <= B + Total /\ s <= t
  <2>1. End(s) \in Nat /\ From(s) \in Nat /\ From(s) < End(s) /\ End(s) <= B + Total
    BY <1>2, <1>6, <1>7, TaskTypes DEF Chunks, Parts
  <2>2. t < s => B + Total <= From(s)
    BY <1>2, <1>7 DEF Chunks
  <2>3. s \in Nat /\ t \in Nat
    BY DEF Ids
  <2> QED BY <1>3, <2>1, <2>2, <2>3
<1>8. finished = 1..Done /\ Done \in Nat /\ finished \subseteq Ids /\ Ids' = Ids /\ Done' = Done
  BY <1>1, <1>2, InTurnNumbers, LenProperties DEF ServerInv, InTurn, Types, TypeOK, Ids, Done, Taken
<1>9. Frame(c)'
  <2>1. futureMap'[fdOf'[c]] = NoTask
    BY <1>1, <1>2 DEF Types, TypeOK
  <2> QED BY <1>1, <1>5, <1>6, <2>1 DEF Frame, Places
<1>10. \A s \in Ids : Owner(s) = c => s \in finished /\ ~(End(s) > B + Total)
  <2> SUFFICES ASSUME NEW s \in Ids, Owner(s) = c PROVE s \in finished /\ ~(End(s) > B + Total)
    OBVIOUS
  <2>1. s <= t /\ End(s) <= B + Total /\ End(s) \in Nat
    BY <1>7
  <2>2. s \in finished
    BY <1>1, <1>8, <2>1 DEF Ids
  <2> QED BY <1>3, <2>1, <2>2
<1>11. Parts(c)' /\ Returned(c)'
  <2>1. \A s : Owner(s)' = Owner(s) /\ From(s)' = From(s) /\ End(s)' = End(s)
    BY <1>1 DEF Owner, From, End
  <2>2. Parts(c)'
    BY <1>1, <1>2, <1>5, <1>8, <1>10, <2>1 DEF Parts
  <2>3. Returned(c)'
    BY <1>1, <1>5, <1>8, <1>10, <2>1 DEF Returned
  <2> QED BY <2>2, <2>3
<1>12. Assembled(c)'
  <2>1. ASSUME NEW pos \in Nat, EndsAt(c, Done, pos)'
        PROVE  pos = B + Total /\ uncompleted[fdOf[c]] = {}
    <3>1. EndsAt(c, Done, pos)
      BY <1>1, <1>8, <2>1 DEF EndsAt, Owner, End
    <3>2. ~(pos = 0 /\ \A s \in 1..Done : Owner(s) # c)
      BY <1>1, <1>8
    <3>3. PICK s \in 1..Done : Owner(s) = c /\ End(s) = pos /\ \A r \in s + 1..Done : Owner(r) # c
      BY <3>1, <3>2 DEF EndsAt
    <3>4. s <= t /\ s \in Nat /\ t \in Nat
      BY <1>7, <1>8, <3>3 DEF Ids
    <3>5. t \in 1..Done /\ ~(t \in s + 1..Done)
      BY <1>1, <1>8, <3>3
    <3>6. s = t
      BY <3>4, <3>5
    <3>7. pos = B + Total
      BY <3>3, <3>6
    <3> QED BY <1>2, <3>1, <3>7 DEF Assembled
  <2>2. \A pos \in Nat : EndsAt(c, Done, pos)' => pos <= Base(c)' /\ uncompleted'[fdOf'[c]] = {}
    <3>1. \A pos \in Nat : EndsAt(c, Done, pos)' => pos = Base(c)' /\ uncompleted[fdOf[c]] = {}
      BY <1>5, <2>1
    <3> QED BY <1>1, <3>1
  <2> QED BY <2>2 DEF Assembled
<1>13. AnswersInOrder(c)'
  <2>1. \A n \in 1..R + 1 : n \in 1..R \/ n = R + 1
    BY <1>3
  <2> QED BY <1>2, <1>4, <2>1 DEF AnswersInOrder
<1> QED BY <1>9, <1>11, <1>12, <1>13

\* A result is written, or dropped when it is empty.
LEMMA WriteResultOrder ==
  ASSUME BodyCuts, ServerInv, OrderInv, WriteResult
  PROVE  OrderInv'
<1> SUFFICES ASSUME NEW c \in Conns PROVE Ordered(c)'
  BY DEF OrderInv
<1>1. PICK d \in Conns, fd \in Fds, t \in Ids : WriteOf(d, fd, t)
  BY WriteResultOf
<1>2. Types /\ Ordered(c) /\ SlotsMatch
  BY DEF ServerInv, OrderInv, Connections
<1>3. /\ WriteAs(d, fd, t) /\ result[t] # <<"throws">>
      /\ replies' = IF result[t] = <<"empty">> \/ link[d] # "open" THEN replies
                    ELSE [replies EXCEPT ![d] = Append(@, result[t])]
  BY <1>1 DEF WriteOf
<1>4. /\ Holds(d, fd) /\ t = futureMap[fd] /\ t \in finished /\ t # NoTask
      /\ UNCHANGED <<link, fdOf, written, delivered, consumed, uncompleted, tasks, result, backlog,
                     active, finished, residue>>
      /\ futureMap' = [futureMap EXCEPT ![fd] = NoTask] /\ Done' = Done
  BY <1>3 DEF WriteAs, Done, Taken, NoTask, Ids
<1>5. futureMap'[fdOf[c]] \in {futureMap[fdOf[c]], NoTask}
  BY <1>4
<1>6. CASE replies'[c] = replies[c]
  <2>1. Fresh(c)' /\ Untouched(c) /\ Clean(c)' = Clean(c)
    BY <1>2, <1>4, <1>5, <1>6 DEF Ordered, Fresh, Untouched, Clean
  <2> QED BY <1>2, <1>4, <2>1, OtherOrder
<1>7. CASE replies'[c] # replies[c]
  <2>1. /\ c = d /\ link[c] = "open" /\ result[t] # <<"empty">>
        /\ replies' = [replies EXCEPT ![c] = Append(@, result[t])]
    BY <1>2, <1>3, <1>7 DEF Types
  <2>2. Fresh(c)' /\ Clean(c)' = Clean(c)
    BY <1>4, <2>1 DEF Fresh, Clean
  <2>3. ASSUME Clean(c)
        PROVE  Frame(c)' /\ Parts(c)' /\ Returned(c)' /\ Assembled(c)' /\ AnswersInOrder(c)'
    <3>1. Frame(c) /\ Returned(c) /\ fdOf[c] = fd
      BY <1>2, <1>4, <2>1, <2>3 DEF Ordered, Holds
    <3>2. Owner(t) = c
      <4>1. Holds(Owner(t), fd) /\ Owner(t) \in Conns
        BY <1>2, <1>4, TaskTypes DEF ServerInv, Requested, Futures
      <4> QED BY <2>3, <3>1, <4>1, CleanFd
    <3>3. End(t) > Base(c)
      BY <1>4, <3>1 DEF Frame
    <3>4. End(t) = Base(c) + Total /\ result[t] = Answer(c, Len(replies[c]) + 1)
      BY <1>3, <1>4, <2>1, <3>1, <3>2, <3>3 DEF Returned
    <3> QED BY <1>2, <1>3, <2>1, <2>3, <3>2, <3>4, AnswerOrder
  <2> QED BY <2>2, <2>3 DEF Ordered
<1> QED BY <1>6, <1>7

\* What a text of the front of a frame, up to a cut in its body, and a text of a
\* whole frame give.
LEMMA ParseFront ==
  ASSUME BodyCuts, NEW d \in Data, d.pure, d.from % Total = 0
  PROVE  /\ d.len \in Cuts => Parse(d) = {"part"}
         /\ d.len = Total => Parse(d) = {"whole"}
<1>1. /\ d.len \in Nat /\ BodyLen \in Nat /\ HeaderLen = 7 /\ Total = HeaderLen + BodyLen + 2
      /\ d.len \in Cuts => d.len >= HeaderLen /\ d.len < HeaderLen + BodyLen
  BY ServerAssumption, BodyCutsFit DEF HeaderLen, Total, Data
<1> DEFINE aligned == d.from % Total = 0
<1>2. Parse(d) =
        CASE ~aligned \/ d.len < HeaderLen \/ d.len > Total -> {"bad"}
          [] aligned /\ d.len \in HeaderLen..HeaderLen + BodyLen - 1 -> {"part"}
          [] OTHER -> IF ~d.pure THEN {"bad", "mixed"}
                      ELSE IF d.len = Total - 1 THEN {"extra"} ELSE {"whole"}
  BY DEF Parse
<1>3. aligned
  OBVIOUS
<1> HIDE DEF aligned
<1>4. CASE d.len \in Cuts
  <2>1. Parse(d) = {"part"}
    BY <1>1, <1>2, <1>3, <1>4
  <2> QED BY <1>1, <1>4, <2>1
<1>5. CASE d.len = Total
  <2>1. Parse(d) = IF ~d.pure THEN {"bad", "mixed"}
                   ELSE IF d.len = Total - 1 THEN {"extra"} ELSE {"whole"}
    BY <1>1, <1>2, <1>3, <1>5
  <2>2. d.len \notin Cuts
    BY <1>1, <1>5
  <2> QED BY <1>1, <1>5, <2>1, <2>2
<1> QED BY <1>4, <1>5

\* The outcome of a task: it keeps what it has, or returns the request's answer.
Keeps(o, all) ==
  o.returns = <<"empty">> /\ o.entry = {[data |-> all, remaining |-> HeaderLen + BodyLen - all.len]}

Replies(o, all) ==
  o.entry = {} /\ o.returns \in {Answer(all.conn, RequestAt(all.from)), <<"throws">>}

LEMMA FirstExact ==
  ASSUME BodyCuts, NEW d \in Data, d.pure, d.from % Total = 0, NEW o \in FirstChunk(d)
  PROVE  /\ d.len \in Cuts => Keeps(o, d)
         /\ d.len = Total => Replies(o, d)
<1> DEFINE Gives(p) ==
      CASE p = "bad" -> {[returns |-> <<"failed">>, entry |-> {}]}
        [] p = "part" -> {[returns |-> <<"empty">>, entry |-> {[data |-> d, remaining |-> Missing(d)]}]}
        [] OTHER -> {[returns |-> r, entry |-> {}] : r \in Handle(d, p)}
<1>1. PICK p \in Parse(d) : o \in Gives(p)
  BY DEF FirstChunk
<1>2. CASE d.len \in Cuts
  <2>1. p = "part"
    BY <1>1, <1>2, ParseFront
  <2>2. o = [returns |-> <<"empty">>, entry |-> {[data |-> d, remaining |-> Missing(d)]}]
    BY <1>1, <2>1
  <2>3. Keeps(o, d)
    BY <2>2 DEF Keeps, Missing
  <2>4. d.len # Total
    BY <1>2, BodyCutsFit, TotalPositive
  <2> QED BY <2>3, <2>4
<1>3. CASE d.len = Total
  <2>1. p = "whole"
    BY <1>1, <1>3, ParseFront
  <2>2. PICK r \in Handle(d, p) : o = [returns |-> r, entry |-> {}]
    BY <1>1, <2>1
  <2>3. r \in {Answer(d.conn, RequestAt(d.from)), <<"throws">>}
    BY <2>1, <2>2 DEF Handle
  <2>4. Replies(o, d)
    BY <2>2, <2>3 DEF Replies
  <2>5. d.len \notin Cuts
    BY <1>3, BodyCutsFit, TotalPositive
  <2> QED BY <2>4, <2>5
<1> QED BY <1>2, <1>3

LEMMA NextExact ==
  ASSUME BodyCuts, NEW old \in Entries, NEW d \in Data, NEW o \in NextChunk(old, d),
         old.data.pure, old.data.from % Total = 0, old.remaining = HeaderLen + BodyLen - old.data.len,
         Join(old.data, d).pure
  PROVE  /\ Join(old.data, d).len \in Cuts => Keeps(o, Join(old.data, d))
         /\ Join(old.data, d).len = Total => Replies(o, Join(old.data, d))
<1> DEFINE left == old.remaining - d.len
           all == Join(old.data, d)
<1>1. /\ all \in Data /\ all.from = old.data.from /\ all.len = old.data.len + d.len
      /\ old.data.len \in Nat /\ d.len \in Nat /\ HeaderLen = 7 /\ BodyLen \in Nat
      /\ Total = HeaderLen + BodyLen + 2
  BY JoinForm, ServerAssumption DEF Entries, Data, HeaderLen, Total
<1>2. left = HeaderLen + BodyLen - all.len
  BY <1>1
<1>3. o \in IF left > 0
            THEN {[returns |-> <<"empty">>, entry |-> {[data |-> all, remaining |-> left]}]}
            ELSE UNION {IF p = "bad"
                        THEN {[returns |-> <<"throws">>, entry |-> {[old EXCEPT !.remaining = 0]}]}
                        ELSE {[returns |-> r, entry |-> {}] : r \in Handle(all, p)} : p \in Parse(all)}
  BY DEF NextChunk
<1> HIDE DEF all, left
<1>4. CASE all.len \in Cuts
  <2>1. left > 0 /\ all.len # Total
    BY <1>1, <1>2, <1>4, BodyCutsFit
  <2>2. o = [returns |-> <<"empty">>, entry |-> {[data |-> all, remaining |-> left]}]
    BY <1>3, <2>1
  <2> QED BY <1>2, <2>1, <2>2 DEF Keeps, all
<1>5. CASE all.len = Total
  <2>1. ~(left > 0) /\ all.len \notin Cuts
    BY <1>1, <1>2, <1>5, BodyCutsFit
  <2>2. all.pure /\ all.from % Total = 0
    BY <1>1 DEF all
  <2>3. Parse(all) = {"whole"}
    BY <1>1, <1>5, <2>2, ParseFront
  <2>4. PICK r \in Handle(all, "whole") : o = [returns |-> r, entry |-> {}]
    BY <1>3, <2>1, <2>3
  <2>5. r \in {Answer(all.conn, RequestAt(all.from)), <<"throws">>}
    BY DEF Handle
  <2>6. Replies(o, all)
    BY <2>4, <2>5 DEF Replies
  <2> QED BY <2>1, <2>6 DEF all
<1> QED BY <1>4, <1>5 DEF all

LEMMA EndsBack ==
  ASSUME NEW c, NEW t \in Nat \ {0}, NEW p, EndsAt(c, t, p), Owner(t) # c
  PROVE  EndsAt(c, t - 1, p)
<1>1. \A s \in 1..t : s \in 1..t - 1 \/ s = t
  OBVIOUS
<1>2. CASE p = 0 /\ \A s \in 1..t : Owner(s) # c
  BY <1>2 DEF EndsAt
<1>3. ASSUME NEW s \in 1..t, Owner(s) = c, End(s) = p, \A r \in s + 1..t : Owner(r) # c
      PROVE  EndsAt(c, t - 1, p)
  <2>1. s \in 1..t - 1 /\ \A r \in s + 1..t - 1 : r \in s + 1..t
    BY <1>1, <1>3
  <2> QED BY <1>3, <2>1 DEF EndsAt
<1> QED BY <1>2, <1>3 DEF EndsAt

\* The task on a chunk of the frame under way extends the entry, or answers.
LEMMA FrameOutcome ==
  ASSUME BodyCuts, ServerInv, NEW c \in Conns, Clean(c), Ordered(c), NEW t \in Ids, Owner(t) = c,
         t \notin finished, Done = t - 1, NEW o \in DoRpcOutcomes(t)
  PROVE  /\ End(t) > Base(c) /\ End(t) \in Nat
         /\ End(t) # Base(c) + Total =>
              o.returns = <<"empty">> /\ o.entry = {Partial(c, Base(c), End(t) - Base(c))}
         /\ End(t) = Base(c) + Total =>
              o.returns \in {Answer(c, Len(replies[c]) + 1), <<"throws">>} /\ o.entry = {}
<1> DEFINE B == Base(c)
           d == tasks[t].chunk
           found == uncompleted[fdOf[c]]
<1>1. Types /\ Parts(c) /\ Assembled(c)
  BY DEF ServerInv, Ordered
<1>2. /\ d \in Data /\ d.conn = c /\ d.from = From(t) /\ d.len \in Nat /\ End(t) = From(t) + d.len
      /\ d.pure /\ d.pure = TRUE /\ From(t) \in Nat /\ End(t) \in Nat /\ EndsAt(c, t - 1, From(t))
  <2>1. d \in Data /\ d.len \in Nat /\ From(t) \in Nat /\ End(t) \in Nat
    BY <1>1, TaskTypes
  <2>2. d.pure /\ EndsAt(c, t - 1, From(t))
    BY DEF ServerInv, Requested, Chunks
  <2>3. d.pure = TRUE
    BY <2>1, <2>2 DEF Data
  <2> QED BY <2>1, <2>2, <2>3 DEF Owner, From, End
<1>3. tasks[t].fd = fdOf[c] /\ fdOf[c] \in Fds
  BY CleanTask, CleanFd
<1>4. /\ B \in Nat /\ Total \in Nat /\ Total > 0 /\ B % Total = 0
      /\ RequestAt(B) = Len(replies[c]) + 1
  <2>1. B \in Nat /\ Total \in Nat /\ Total > 0 /\ RequestAt(B) = Len(replies[c]) + 1
    BY <1>1, BaseIs, TotalPositive
  <2>2. (B + 0) % Total = 0
    BY <1>1, <2>1, BaseIs
  <2> QED BY <2>1, <2>2
<1>5. /\ From(t) < End(t) /\ End(t) > B /\ From(t) \in Places(B) /\ End(t) \in Places(B)
  BY <1>1 DEF Parts
<1>6. /\ End(t) = B + Total \/ End(t) - B \in Cuts
      /\ From(t) = B \/ From(t) - B \in Cuts
      /\ B <= From(t) /\ From(t) < B + Total /\ (End(t) - B \in Cuts => End(t) # B + Total)
  <2>1. B <= From(t) /\ From(t) <= B + Total /\ End(t) <= B + Total
    BY <1>4, <1>5, PlacesFit
  <2>2. From(t) = B \/ From(t) = B + Total \/ \E p \in Cuts : From(t) = B + p
    BY <1>4, <1>5, PlacesFit
  <2>3. End(t) = B \/ End(t) = B + Total \/ \E p \in Cuts : End(t) = B + p
    BY <1>4, <1>5, PlacesFit
  <2>4. \A p \in Cuts : p \in Nat /\ (B + p) - B = p /\ p # Total
    BY <1>4, BodyCutsFit
  <2> HIDE DEF B
  <2>5. From(t) < B + Total
    BY <1>2, <1>4, <1>5, <2>1
  <2>6. From(t) = B \/ From(t) - B \in Cuts
    BY <1>2, <1>4, <2>2, <2>4, <2>5
  <2>7. End(t) = B + Total \/ End(t) - B \in Cuts
    BY <1>2, <1>4, <1>5, <2>3, <2>4
  <2>8. End(t) - B \in Cuts => End(t) # B + Total
    BY <1>2, <1>4, <2>4
  <2> QED BY <2>1, <2>5, <2>6, <2>7, <2>8
<1>7. found = IF From(t) <= B THEN {} ELSE {Partial(c, B, From(t) - B)}
  <2>1. EndsAt(c, Done, From(t))
    BY <1>2
  <2>2. found = IF From(t) <= B \/ From(t) = B + Total THEN {} ELSE {Partial(c, B, From(t) - B)}
    BY <1>1, <1>2, <2>1 DEF Assembled
  <2>3. From(t) # B + Total
    <3> HIDE DEF B
    <3> QED BY <1>2, <1>4, <1>6
  <2> QED BY <2>2, <2>3
<1>8. ASSUME NEW all, all.conn = c, all.from = B, all = [conn |-> c, from |-> B, len |-> End(t) - B, pure |-> TRUE],
             all.len \in Cuts => Keeps(o, all), all.len = Total => Replies(o, all)
      PROVE  /\ End(t) # B + Total => o.returns = <<"empty">> /\ o.entry = {Partial(c, B, End(t) - B)}
             /\ End(t) = B + Total => o.returns \in {Answer(c, Len(replies[c]) + 1), <<"throws">>} /\ o.entry = {}
  <2>1. all.len = End(t) - B
    BY <1>8
  <2>2. CASE End(t) # B + Total
    BY <1>6, <1>8, <2>1, <2>2 DEF Keeps, Partial
  <2>3. CASE End(t) = B + Total
    <3>1. all.len = Total
      BY <1>4, <2>1, <2>3
    <3> QED BY <1>4, <1>8, <2>3, <3>1 DEF Replies
  <2> QED BY <2>2, <2>3
<1>9. CASE From(t) = B
  <2>1. found = {}
    BY <1>4, <1>7, <1>9
  <2>2. o \in FirstChunk(d)
    BY <1>3, <2>1 DEF DoRpcOutcomes
  <2>3. d.len \in Cuts => Keeps(o, d)
    BY <1>2, <1>4, <1>9, <2>2, FirstExact
  <2>4. d.len = Total => Replies(o, d)
    BY <1>2, <1>4, <1>9, <2>2, FirstExact
  <2>5. d.len = End(t) - B
    BY <1>2, <1>4, <1>9
  <2>6. d = [conn |-> c, from |-> B, len |-> End(t) - B, pure |-> TRUE]
    BY <1>2, <1>9, <2>5 DEF Data
  <2> HIDE DEF d, B
  <2> QED BY <1>2, <1>5, <1>8, <1>9, <2>3, <2>4, <2>6 DEF B
<1>10. CASE From(t) - B \in Cuts /\ From(t) # B
  <2> DEFINE old == Partial(c, B, From(t) - B)
             all == Join(old.data, d)
  <2>1. found = {old}
    BY <1>2, <1>4, <1>6, <1>7, <1>10
  <2>2. /\ old \in Entries /\ old.data \in Data /\ old.data.conn = c /\ old.data.from = B
        /\ old.data.len = From(t) - B /\ old.data.pure
        /\ old.remaining = HeaderLen + BodyLen - old.data.len /\ old.remaining # 0
    <3>1. /\ From(t) - B \in Nat /\ HeaderLen \in Nat /\ BodyLen \in Nat
          /\ From(t) - B < HeaderLen + BodyLen
      BY <1>10, BodyCutsFit, TotalPositive DEF HeaderLen
    <3>2. HeaderLen + BodyLen - (From(t) - B) \in Nat /\ HeaderLen + BodyLen - (From(t) - B) # 0
      BY <3>1
    <3> HIDE DEF B
    <3>3. [conn |-> c, from |-> B, len |-> From(t) - B, pure |-> TRUE] \in Data
      BY <1>4, <3>1 DEF Data
    <3> QED BY <3>2, <3>3 DEF Partial, Entries
  <2>3. o \in NextChunk(old, d)
    <3> HIDE DEF old, d
    <3> QED BY <1>3, <2>1, <2>2 DEF DoRpcOutcomes, d
  <2> HIDE DEF old, d, B
  <2>4. /\ all \in Data /\ all.conn = c /\ all.from = B /\ all.len = old.data.len + d.len
        /\ all.pure
    BY <1>2, <1>4, <2>2, JoinForm
  <2>5. all.len = End(t) - B
    BY <1>2, <1>4, <2>2, <2>4
  <2>6. all = [conn |-> c, from |-> B, len |-> End(t) - B, pure |-> TRUE]
    BY <2>4, <2>5 DEF Data
  <2>7. all.len \in Cuts => Keeps(o, all)
    BY <1>2, <1>4, <2>2, <2>3, <2>4, NextExact
  <2>8. all.len = Total => Replies(o, all)
    BY <1>2, <1>4, <2>2, <2>3, <2>4, NextExact
  <2> HIDE DEF all
  <2> QED BY <1>2, <1>5, <1>8, <2>4, <2>6, <2>7, <2>8 DEF B
<1> QED BY <1>6, <1>9, <1>10

\* A task finishes: its descriptor's entry grows, or is gone with the answer.
LEMMA FinishOrder ==
  ASSUME BodyCuts, ServerInv, OrderInv, NEW t \in TaskIds, FinishTask(t)
  PROVE  OrderInv'
<1> SUFFICES ASSUME NEW c \in Conns PROVE Ordered(c)'
  BY DEF OrderInv
<1>1. /\ t \in Ids
      /\ \E fd \in Fds, d \in Data, o \in DoRpcOutcomes(t) : FinishAs(t, fd, d, o)
  BY FinishTaskAs
<1>2. PICK fd \in Fds, d \in Data, o \in DoRpcOutcomes(t) : FinishAs(t, fd, d, o)
  BY <1>1
<1>3. /\ t \in Nat \ {0} /\ finished = 1..t - 1 /\ finished' = 1..t
      /\ finished \subseteq Ids /\ Done = t - 1 /\ Done' = t
      /\ uncompleted'[fd] = o.entry /\ \A f \in Fds : f # fd => uncompleted'[f] = uncompleted[f]
      /\ result'[t] = o.returns /\ \A s \in TaskIds : s # t => result'[s] = result[s]
      /\ EndsAt(Owner(t), t, End(t))
      /\ fd \notin residue => Holds(Owner(t), fd)
  BY <1>1, <1>2, FinishFacts
<1>4. /\ UNCHANGED <<link, fdOf, written, delivered, consumed, replies, futureMap, tasks, residue>>
      /\ tasks[t].fd = fd
  BY <1>2 DEF FinishAs, netVars
<1>5. Types /\ Ordered(c) /\ Ids \subseteq TaskIds /\ t \notin finished
  BY <1>3 DEF ServerInv, InTurn, OrderInv
<1>6. /\ Base(c)' = Base(c) /\ Fresh(c)' /\ Clean(c)' = Clean(c) /\ Ids' = Ids
      /\ \A s : Owner(s)' = Owner(s) /\ From(s)' = From(s) /\ End(s)' = End(s)
      /\ \A b, len : Partial(c, b, len)' = Partial(c, b, len)
      /\ \A b : Places(b)' = Places(b)
  BY <1>4, <1>5 DEF Base, Ordered, Fresh, Clean, Ids, Owner, From, End, Partial, Places
<1> SUFFICES ASSUME Clean(c)
             PROVE  Frame(c)' /\ Parts(c)' /\ Returned(c)' /\ Assembled(c)' /\ AnswersInOrder(c)'
  BY <1>6 DEF Ordered
<1> DEFINE B == Base(c)
<1>7. Frame(c) /\ Parts(c) /\ Returned(c) /\ Assembled(c) /\ AnswersInOrder(c) /\ B \in Nat
  BY <1>5, BaseIs DEF Ordered
<1>8. fdOf[c] \in Fds /\ fdOf[c] \notin residue
      /\ (\A x \in Conns : Holds(x, fdOf[c]) => x = c)
  BY CleanFd DEF Clean
<1>9. Owner(t) \in Conns
  BY <1>1, <1>5, TaskTypes
<1>10. Frame(c)' /\ AnswersInOrder(c)'
  <2>1. Frame(c)'
    BY <1>4, <1>7 DEF Frame, Base, Places, End
  <2> QED BY <1>4, <1>7, <2>1 DEF AnswersInOrder
<1>11. \A s : s \in finished => s \in finished'
  BY <1>3
<1>12. Parts(c)'
  BY <1>6, <1>7, <1>11 DEF Parts
<1>13. \A s \in finished' : s = t \/ (s \in finished /\ result'[s] = result[s])
  <2>1. \A s \in 1..t : s = t \/ s \in 1..t - 1
    BY <1>3
  <2> QED BY <1>3, <1>5, <2>1
<1>14. \A pos \in Nat : EndsAt(c, Done, pos)' => EndsAt(c, t, pos)
  BY <1>3, <1>4 DEF EndsAt, Owner, End
<1>15. CASE Owner(t) # c
  <2>1. fdOf[c] # fd
    BY <1>3, <1>8, <1>9, <1>15
  <2>2. uncompleted'[fdOf[c]] = uncompleted[fdOf[c]]
    BY <1>3, <1>8, <2>1
  <2>3. Returned(c)'
    BY <1>4, <1>6, <1>7, <1>13, <1>15 DEF Returned
  <2>4. \A pos \in Nat : EndsAt(c, Done, pos)' => EndsAt(c, Done, pos)
    BY <1>3, <1>14, <1>15, EndsBack
  <2>5. Assembled(c)'
    BY <1>4, <1>6, <1>7, <2>2, <2>4 DEF Assembled
  <2> QED BY <1>10, <1>12, <2>3, <2>5
<1>16. CASE Owner(t) = c
  <2>1. /\ End(t) > B /\ End(t) \in Nat
        /\ End(t) # B + Total =>
             o.returns = <<"empty">> /\ o.entry = {Partial(c, B, End(t) - B)}
        /\ End(t) = B + Total =>
             o.returns \in {Answer(c, Len(replies[c]) + 1), <<"throws">>} /\ o.entry = {}
    BY <1>1, <1>3, <1>5, <1>16, FrameOutcome
  <2>2. fd = fdOf[c]
    BY <1>1, <1>4, <1>16, CleanTask
  <2>3. Returned(c)'
    <3> SUFFICES ASSUME NEW s \in finished', Owner(s) = c, End(s) > B
                 PROVE  IF End(s) = B + Total
                          THEN result'[s] \in {Answer(c, Len(replies[c]) + 1), <<"throws">>}
                          ELSE result'[s] = <<"empty">>
      BY <1>4, <1>6 DEF Returned
    <3>1. CASE s = t
      BY <1>3, <2>1, <3>1
    <3>2. CASE s \in finished /\ result'[s] = result[s]
      BY <1>7, <3>2 DEF Returned
    <3> QED BY <1>13, <3>1, <3>2
  <2>4. ASSUME NEW pos \in Nat, EndsAt(c, Done, pos)'
        PROVE  uncompleted'[fdOf[c]] = IF pos <= B \/ pos = B + Total THEN {} ELSE {Partial(c, B, pos - B)}
    <3>1. pos = End(t)
      <4>1. EndsAt(c, t, pos) /\ EndsAt(c, t, End(t))
        BY <1>3, <1>14, <1>16, <2>4
      <4> QED BY <1>3, <4>1, EndsOnce
    <3>2. ~(pos <= B)
      <4> HIDE DEF B
      <4> QED BY <1>7, <2>1, <3>1
    <3>3. uncompleted'[fdOf[c]] = IF End(t) = B + Total THEN {} ELSE {Partial(c, B, End(t) - B)}
      BY <1>3, <2>1, <2>2
    <3> QED BY <3>1, <3>2, <3>3
  <2>5. Assembled(c)'
    BY <1>4, <1>6, <2>4 DEF Assembled
  <2> QED BY <1>10, <1>12, <2>3, <2>5
<1> QED BY <1>15, <1>16

LEMMA OrderStep ==
  ASSUME BodyCuts, ServerInv, OrderInv, [Next]_vars
  PROVE  OrderInv'
<1>1. CASE UNCHANGED vars
  BY <1>1, IdleOrder
<1>2. CASE \E c \in Conns : Connect(c) \/ Ask(c) \/ Deliver(c) \/ Leave(c)
  BY <1>2, ClientOrder DEF ClientStep
<1>3. CASE PollThread
  <2>1. CASE \E c \in Conns, fd \in Fds : Accept(c, fd)
    BY <2>1, AcceptOrder
  <2>2. CASE IdlePoll
    BY <2>2, IdleOrder
  <2>3. CASE ReadChunk
    <3>1. PICK c \in Conns, fd \in Fds, n \in Nat, from \in Nat, to \in Nat : ReadAs(c, fd, n, from, to)
      BY <2>3, ReadChunkAs
    <3> QED BY <3>1, ReadChunkOrder
  <2>4. CASE ReadEnd
    BY <2>4, ReadEndOrder
  <2>5. CASE WriteResult
    BY <2>5, WriteResultOrder
  <2> QED BY <1>3, <2>1, <2>2, <2>3, <2>4, <2>5 DEF PollThread, IdlePoll
<1>4. CASE StartTask
  BY <1>4, IdleOrder
<1>5. ASSUME NEW t \in TaskIds, FinishTask(t) PROVE OrderInv'
  BY <1>5, FinishOrder
<1> QED BY <1>1, <1>2, <1>3, <1>4, <1>5 DEF Next

-----------------------------------------------------------------------------
(***************************************************************************)
(* Where the request of a waiting client is: the safety part of            *)
(* EveryRequestAnswered.                                                   *)
(***************************************************************************)

\* When the last byte of a request was read, its descriptor's future is that of
\* the task which has it, until the answer is written.
Picked(c) ==
  Clean(c) /\ consumed[c] = Base(c) + Total =>
    LET t == futureMap[fdOf[c]] IN t # NoTask /\ End(t) = Base(c) + Total

PickedInv == \A c \in Conns : Picked(c)

\* A step that leaves the connection, its descriptor and its future alone.
LEMMA PickedStays ==
  ASSUME ServerInv, NEW c \in Conns, Picked(c), Clean(c)' => Clean(c) /\ fdOf'[c] = fdOf[c],
         consumed'[c] = consumed[c], replies'[c] = replies[c],
         Clean(c)' => futureMap'[fdOf[c]] = futureMap[fdOf[c]],
         \A t \in Ids : End(t)' = End(t)
  PROVE  Picked(c)'
<1> SUFFICES ASSUME Clean(c)', consumed'[c] = Base(c)' + Total,
                    NEW t, t = futureMap'[fdOf'[c]]
             PROVE  t # NoTask /\ tasks'[t].chunk.from + tasks'[t].chunk.len = Base(c)' + Total
  BY DEF Picked, End
<1>1. Clean(c) /\ t = futureMap[fdOf[c]] /\ Base(c)' = Base(c)
  BY DEF Base
<1>2. t # NoTask /\ End(t) = Base(c) + Total
  BY <1>1 DEF Picked
<1>3. t \in Ids
  BY <1>1, <1>2, CleanFd DEF ServerInv, Requested, Futures
<1>4. tasks'[t].chunk.from + tasks'[t].chunk.len = End(t)
  BY <1>3 DEF End
<1> QED BY <1>1, <1>2, <1>4

LEMMA PickedInit == Init => PickedInv
BY DEF Init, PickedInv, Picked, Clean

\* A client's step, an idle step of the poll thread, and the pool's steps.
LEMMA QuietPicked ==
  ASSUME ServerInv, PickedInv,
         \/ \E d \in Conns : ClientStep(d)
         \/ IdlePoll \/ StartTask \/ UNCHANGED vars
         \/ \E t \in TaskIds : FinishTask(t)
  PROVE  PickedInv'
<1>1. UNCHANGED <<fdOf, consumed, replies, futureMap, tasks, residue>>
  BY DEF ClientStep, Connect, Ask, Deliver, Leave, IdlePoll, PollClients, SkipRead, NoResultYet, GetThrows,
         StartTask, FinishTask, vars, netVars, pollVars, rpcVars
<1>2. \A c \in Conns : link'[c] = "open" => link[c] = "open"
  BY DEF ClientStep, Connect, Ask, Deliver, Leave, IdlePoll, PollClients, SkipRead, NoResultYet, GetThrows,
         StartTask, FinishTask, vars, netVars, ServerInv, Types, TypeOK
<1> SUFFICES ASSUME NEW c \in Conns PROVE Picked(c)'
  BY DEF PickedInv
<1>3. Clean(c)' => Clean(c)
  BY <1>1, <1>2 DEF Clean
<1>4. \A t : End(t)' = End(t)
  BY <1>1 DEF End
<1> QED BY <1>1, <1>3, <1>4, PickedStays DEF PickedInv

\* A connection that is accepted has sent nothing.
LEMMA AcceptPicked ==
  ASSUME ServerInv, OrderInv, PickedInv, NEW d \in Conns, NEW fd \in Fds, Accept(d, fd)
  PROVE  PickedInv'
<1> SUFFICES ASSUME NEW c \in Conns PROVE Picked(c)'
  BY DEF PickedInv
<1>1. /\ UNCHANGED <<written, delivered, consumed, replies, futureMap, tasks, residue>>
      /\ link[d] = "connecting"
      /\ link' \in {[link EXCEPT ![d] = "open"], [link EXCEPT ![d] = "refused"]}
      /\ fdOf' \in {[fdOf EXCEPT ![d] = fd], fdOf}
  BY DEF Accept, Waiting, rpcVars
<1>2. Types
  BY DEF ServerInv
<1>3. CASE c # d
  <2>1. link'[c] = link[c] /\ fdOf'[c] = fdOf[c]
    BY <1>1, <1>2, <1>3 DEF Types, TypeOK
  <2>2. Clean(c)' => Clean(c)
    BY <1>1, <2>1 DEF Clean
  <2>3. \A t : End(t)' = End(t)
    BY <1>1 DEF End
  <2> QED BY <1>1, <2>1, <2>2, <2>3, PickedStays DEF PickedInv
<1>4. CASE c = d
  <2>1. written[c] = 0 /\ replies[c] = <<>>
    BY <1>1, <1>4 DEF OrderInv, Ordered, Fresh
  <2>2. consumed[c] = 0 /\ Base(c) = 0
    BY <1>2, <2>1, Streams, BaseIs
  <2>3. consumed'[c] = 0 /\ Base(c)' = 0
    BY <1>1, <2>2 DEF Base
  <2> QED BY <2>3, TotalPositive DEF Picked
<1> QED BY <1>3, <1>4

\* A connection ends; the others stay as they are.
LEMMA ReadEndPicked ==
  ASSUME ServerInv, PickedInv, ReadEnd
  PROVE  PickedInv'
<1> SUFFICES ASSUME NEW c \in Conns PROVE Picked(c)'
  BY DEF PickedInv
<1>1. PICK d \in Conns, fd \in Fds : EndAs(d, fd)
  BY ReadEndAs
<1>2. Types /\ SlotsMatch
  BY DEF ServerInv, Connections
<1>3. /\ Holds(d, fd) /\ UNCHANGED <<consumed, replies, tasks>> /\ link'[d] = "closed"
      /\ \A x \in Conns : x # d => link'[x] = link[x] /\ fdOf'[x] = fdOf[x]
      /\ \A f \in Fds : f # fd => futureMap'[f] = futureMap[f] /\ (f \in residue' <=> f \in residue)
  BY <1>1, <1>2 DEF EndAs, Free, Types, TypeOK
<1>4. ASSUME Clean(c)'
      PROVE  Clean(c) /\ fdOf'[c] = fdOf[c] /\ futureMap'[fdOf[c]] = futureMap[fdOf[c]]
  <2>1. c # d /\ link[c] = "open" /\ fdOf'[c] = fdOf[c]
    BY <1>3, <1>4 DEF Clean
  <2>2. Holds(c, fdOf[c]) /\ fdOf[c] # fd
    BY <1>2, <1>3, <2>1 DEF Holds, Connected, SlotsMatch
  <2>3. fdOf[c] \in Fds
    BY <1>2, <2>2, HolderUnique DEF InUse, Types, TypeOK
  <2> QED BY <1>3, <1>4, <2>1, <2>2, <2>3 DEF Clean
<1>5. \A t : End(t)' = End(t)
  BY <1>3 DEF End
<1> QED BY <1>3, <1>4, <1>5, PickedStays DEF PickedInv

\* A chunk is read: its task takes the place of the descriptor's last one.
LEMMA ReadChunkPicked ==
  ASSUME ServerInv, PickedInv, NEW d \in Conns, NEW fd \in Fds, NEW n \in Nat,
         NEW from \in Nat, NEW to \in Nat, ReadAs(d, fd, n, from, to)
  PROVE  PickedInv'
<1> SUFFICES ASSUME NEW c \in Conns PROVE Picked(c)'
  BY DEF PickedInv
<1>1. /\ UNCHANGED <<link, fdOf, replies, residue>> /\ Holds(d, fd)
      /\ futureMap' = [futureMap EXCEPT ![fd] = n + 1]
  BY DEF ReadAs
<1>2. /\ \A s \in Ids : End(s)' = End(s)
      /\ End(n + 1)' = to
      /\ consumed'[d] = to /\ \A x \in Conns : x # d => consumed'[x] = consumed[x]
  BY ReadFacts
<1>3. Clean(c)' = Clean(c) /\ Types /\ SlotsMatch
  BY <1>1 DEF Clean, ServerInv, Connections
<1>4. CASE c # d
  <2>1. Clean(c) => futureMap'[fdOf[c]] = futureMap[fdOf[c]]
    <3>1. Clean(c) => fdOf[c] # fd
      BY <1>1, <1>4, CleanFd
    <3> QED BY <1>1, <3>1
  <2> QED BY <1>1, <1>2, <1>3, <1>4, <2>1, PickedStays DEF PickedInv
<1>5. CASE c = d
  <2>1. fdOf'[c] = fd /\ futureMap'[fd] = n + 1
    BY <1>1, <1>3, <1>5 DEF Holds, Types, TypeOK
  <2>2. \A t : t = futureMap'[fdOf'[c]] => t # NoTask /\ tasks'[t].chunk.from + tasks'[t].chunk.len = to
    BY <1>2, <2>1 DEF NoTask, End
  <2> QED BY <1>2, <1>5, <2>2 DEF Picked, End
<1> QED BY <1>4, <1>5

\* A result is written: the answer, when the last byte of the request was read.
LEMMA WriteResultPicked ==
  ASSUME ServerInv, OrderInv, PickedInv, WriteResult
  PROVE  PickedInv'
<1> SUFFICES ASSUME NEW c \in Conns PROVE Picked(c)'
  BY DEF PickedInv
<1>1. PICK d \in Conns, fd \in Fds, t \in Ids : WriteOf(d, fd, t)
  BY WriteResultOf
<1>2. Types /\ Ordered(c) /\ Picked(c)
  BY DEF ServerInv, OrderInv, PickedInv
<1>7. replies[c] \in Seq(Results) /\ result[t] \in Results
  BY <1>1, <1>2 DEF Types, ServerInv, InTurn
<1>3. /\ Holds(d, fd) /\ t = futureMap[fd] /\ t \in finished /\ t # NoTask
      /\ UNCHANGED <<link, fdOf, consumed, tasks, residue>>
      /\ futureMap' = [futureMap EXCEPT ![fd] = NoTask]
      /\ replies' = IF result[t] = <<"empty">> \/ link[d] # "open" THEN replies
                    ELSE [replies EXCEPT ![d] = Append(@, result[t])]
  BY <1>1 DEF WriteOf, WriteAs, NoTask, Ids
<1>4. Clean(c)' = Clean(c) /\ \A s : End(s)' = End(s)
  BY <1>3 DEF Clean, End
<1>5. CASE c # d
  <2>1. Clean(c) => fdOf[c] # fd
    BY <1>3, <1>5, CleanFd
  <2>2. replies'[c] = replies[c]
    BY <1>2, <1>3, <1>5 DEF Types
  <2> QED BY <1>2, <1>3, <1>4, <2>1, <2>2, PickedStays
<1>6. CASE c = d
  <2> SUFFICES ASSUME Clean(c), consumed[c] = Base(c)' + Total PROVE FALSE
    BY <1>3, <1>4 DEF Picked
  <2>1. fdOf[c] = fd /\ link[c] = "open" /\ Frame(c) /\ Returned(c)
    BY <1>2, <1>3, <1>6 DEF Holds, Clean, Ordered
  <2>2. Owner(t) = c
    <3>1. Holds(Owner(t), fd) /\ Owner(t) \in Conns
      BY <1>2, <1>3, TaskTypes DEF ServerInv, Requested, Futures
    <3> QED BY <2>1, <3>1, CleanFd
  <2>3. End(t) > Base(c)
    BY <1>3, <2>1 DEF Frame
  <2>4. Base(c) \in Nat /\ Total \in Nat /\ Total > 0 /\ Len(replies[c]) \in Nat
    BY <1>2, BaseIs, TotalPositive
  <2>5. CASE replies' = replies
    <3>1. consumed[c] = Base(c) + Total
      BY <2>5 DEF Base
    <3>2. End(t) = Base(c) + Total
      BY <1>2, <1>3, <2>1, <3>1 DEF Picked
    <3>3. result[t] # <<"empty">>
      BY <1>3, <2>1, <2>2, <2>3, <3>2 DEF Returned, Answer
    <3>4. replies'[c] = Append(replies[c], result[t])
      BY <1>2, <1>3, <1>6, <2>1, <3>3 DEF Types
    <3>5. Len(replies'[c]) = Len(replies[c]) + 1
      BY <1>7, <3>4, AppendProperties
    <3> QED BY <2>4, <2>5, <3>5
  <2>6. CASE replies' # replies
    <3>1. replies'[c] = Append(replies[c], result[t])
      BY <1>2, <1>3, <1>6, <2>6 DEF Types
    <3>2. Len(replies'[c]) = Len(replies[c]) + 1
      BY <1>7, <3>1, AppendProperties
    <3>3. Base(c)' = Base(c) + Total
      BY <2>4, <3>2, FramePositions DEF Base
    <3>4. consumed[c] = Base(c) + Total + Total
      BY <3>3
    <3>5. consumed[c] <= Base(c) + Total
      BY <1>2, <2>1, <2>4, Streams DEF Frame
    <3> QED BY <2>4, <3>4, <3>5
  <2> QED BY <2>5, <2>6
<1> QED BY <1>5, <1>6

LEMMA PickedStep ==
  ASSUME ServerInv, OrderInv, PickedInv, [Next]_vars
  PROVE  PickedInv'
<1>1. CASE PollThread
  <2>1. CASE \E c \in Conns, fd \in Fds : Accept(c, fd)
    BY <2>1, AcceptPicked
  <2>2. CASE IdlePoll
    BY <2>2, QuietPicked
  <2>3. CASE ReadChunk
    <3>1. PICK c \in Conns, fd \in Fds, n \in Nat, from \in Nat, to \in Nat : ReadAs(c, fd, n, from, to)
      BY <2>3, ReadChunkAs
    <3> QED BY <3>1, ReadChunkPicked
  <2>4. CASE ReadEnd
    BY <2>4, ReadEndPicked
  <2>5. CASE WriteResult
    BY <2>5, WriteResultPicked
  <2> QED BY <1>1, <2>1, <2>2, <2>3, <2>4, <2>5 DEF PollThread, IdlePoll
<1>2. CASE \E c \in Conns : Connect(c) \/ Ask(c) \/ Deliver(c) \/ Leave(c)
  BY <1>2, QuietPicked DEF ClientStep
<1>3. CASE StartTask \/ (\E t \in TaskIds : FinishTask(t)) \/ UNCHANGED vars
  BY <1>3, QuietPicked
<1> QED BY <1>1, <1>2, <1>3 DEF Next

\* A client that waits for its n-th answer, on a descriptor without residue: its
\* request is on its way, or in the socket, or with the pool, or the future of its
\* last chunk is where the poll thread looks and has that answer (or the
\* exception that ends the process).
RequestsKept ==
  \A c \in Conns : link[c] = "open" /\ fdOf[c] \notin residue /\ Unanswered(c) =>
    \/ delivered[c] < written[c]
    \/ Readable(c)
    \/ LET t == futureMap[fdOf[c]]
       IN  /\ tasks[t].chunk.conn = c /\ End(t) = written[c]
           /\ \/ t \in Pool!Submitted \ finished
              \/ t \in finished /\ result[t] \in {Answer(c, Len(replies[c]) + 1), <<"throws">>}

LEMMA InvRequestsKept ==
  ASSUME ServerInv, OrderInv, PickedInv
  PROVE  RequestsKept
<1> SUFFICES ASSUME NEW c \in Conns, Clean(c), written[c] > Base(c),
                    ~(delivered[c] < written[c]), ~(consumed[c] < delivered[c])
             PROVE  LET t == futureMap[fdOf[c]]
                    IN  /\ tasks[t].chunk.conn = c /\ End(t) = written[c]
                        /\ \/ t \in Pool!Submitted \ finished
                           \/ t \in finished /\ result[t] \in {Answer(c, Len(replies[c]) + 1), <<"throws">>}
  BY DEF RequestsKept, Clean, Unanswered, Base, Readable
<1> DEFINE t == futureMap[fdOf[c]]
<1>1. Types /\ Frame(c) /\ Returned(c) /\ Picked(c)
  BY DEF ServerInv, OrderInv, Ordered, PickedInv
<1>2. written[c] = Base(c) + Total /\ consumed[c] = Base(c) + Total
  <2>1. written[c] = Base(c) + Total
    BY <1>1, BaseIs DEF Frame
  <2> QED BY <1>1, <2>1, Streams
<1>3. t # NoTask /\ End(t) = Base(c) + Total
  BY <1>1, <1>2 DEF Picked
<1>4. t \in Ids /\ Owner(t) = c
  <2>1. t \in Ids /\ Holds(Owner(t), fdOf[c])
    BY <1>3, CleanFd DEF ServerInv, Requested, Futures
  <2> QED BY <1>1, <2>1, CleanFd, TaskTypes
<1>5. CASE t \in finished
  <2>1. End(t) > Base(c)
    BY <1>1, <1>3, BaseIs, TotalPositive
  <2> QED BY <1>1, <1>2, <1>3, <1>4, <1>5, <2>1 DEF Returned, Owner
<1>6. CASE t \notin finished
  <2>1. t \in Pool!Submitted \ finished
    BY <1>4, <1>6, UnfinishedSubmitted, LenProperties DEF ServerInv, Types, TypeOK
  <2> QED BY <1>2, <1>3, <1>4, <1>6, <2>1 DEF Owner
<1> QED BY <1>5, <1>6

-----------------------------------------------------------------------------
(***************************************************************************)
(* Theorems.                                                               *)
(***************************************************************************)

\* Every variable has its type.
THEOREM ServerTypes == Spec => []TypeOK
<1>1. ServerInv => TypeOK
  BY DEF ServerInv, Types
<1> QED BY <1>1, ServerAlways, PTL

\* A descriptor is one connection's at a time, and the future kept under its
\* number is of a chunk of that connection, whenever clients disconnect and
\* however the kernel reuses numbers (tcpServer.cpp, rpcServer.cpp).
THEOREM FuturesOwned == Spec => []FutureOwner
<1>1. ServerInv => FutureOwner
  <2> SUFFICES ASSUME ServerInv PROVE FutureOwner
    OBVIOUS
  <2>1. SlotsMatch
    BY DEF ServerInv, Connections
  <2>2. ASSUME NEW fd \in Fds, futureMap[fd] # NoTask
        PROVE  /\ fd \in InUse /\ tasks[futureMap[fd]].fd = fd
               /\ tasks[futureMap[fd]].chunk.conn = ConnOf(fd)
    <3>1. /\ futureMap[fd] \in Ids /\ tasks[futureMap[fd]].fd = fd
          /\ Holds(Owner(futureMap[fd]), fd)
      BY <2>2 DEF ServerInv, Requested, Futures
    <3>2. Owner(futureMap[fd]) \in Conns
      BY <3>1, TaskTypes DEF ServerInv
    <3> QED BY <2>1, <3>1, <3>2, HolderUnique DEF Owner
  <2> QED BY <2>1, <2>2 DEF FutureOwner
<1> QED BY <1>1, ServerAlways, PTL

\* A request is put together from its own connection's bytes, without a gap,
\* unless the descriptor was last freed with a task outstanding, and the count
\* of what is missing is right (rpcServer.cpp:40-72).
THEOREM PartialsOwned == Spec => []PartialsBelong
<1>1. ServerInv => PartialsBelong
  <2> SUFFICES ASSUME ServerInv, NEW fd \in Fds, NEW now \in uncompleted[fd]
               PROVE  /\ fd \notin residue =>
                           fd \in InUse /\ now.data.pure /\ now.data.conn = ConnOf(fd)
                      /\ now.remaining # 0 => now.remaining + now.data.len = HeaderLen + BodyLen
    BY DEF PartialsBelong
  <2>1. /\ fd \notin residue => now.data.pure /\ Holds(now.data.conn, fd)
        /\ now.remaining # 0 => now.remaining + now.data.len = HeaderLen + BodyLen
    BY DEF ServerInv, Requested, Partials
  <2>2. now.data.conn \in Conns
    BY DEF ServerInv, Types, Entries, Data
  <2> QED BY <2>1, <2>2, HolderUnique DEF ServerInv, Connections
<1> QED BY <1>1, ServerAlways, PTL

\* The answers a client receives are to its own requests, in the order it sent
\* them, each at most once, wherever the network cuts a frame, whenever clients
\* disconnect and whatever other replies stand between them.
THEOREM AnswersAreOwn == Spec => []AnswersOwn
<1>1. ServerInv => AnswersOwn
  <2> SUFFICES ASSUME ServerInv, NEW c \in Conns, NEW n \in 1..Len(replies[c]),
                      replies[c][n][1] = "answer"
               PROVE  /\ replies[c][n][2] = c
                      /\ \A m \in 1..n - 1 :
                           replies[c][m][1] = "answer" => replies[c][m][3] < replies[c][n][3]
    BY DEF AnswersOwn
  <2>1. PICK s \in finished : Owner(s) = c /\ result[s] = replies[c][n]
    BY DEF ServerInv, Requested, Sent, IsAnswer
  <2>2. PICK pos : result[s] = Answer(Owner(s), RequestAt(pos))
    BY <2>1 DEF ServerInv, Requested, Answered, IsAnswer
  <2>3. replies[c][n][2] = c
    BY <2>1, <2>2 DEF Answer
  <2> QED BY <2>3 DEF ServerInv, Requested, Sent, IsAnswer
<1> QED BY <1>1, ServerAlways, PTL

\* A connected client that was given a descriptor without an earlier connection's
\* unfinished task receives the answer to its n-th request as its n-th reply,
\* however many clients and requests there are, as long as the network cuts
\* frames in their bodies only (rpcServer.cpp:27-88, tcpServer.cpp:70-103).
THEOREM RepliesOrdered == BodyCuts => (Spec => []RepliesInOrder)
<1> SUFFICES ASSUME BodyCuts PROVE Spec => []RepliesInOrder
  OBVIOUS
<1>1. OrderInv => RepliesInOrder
  BY DEF OrderInv, Ordered, Clean, AnswersInOrder, RepliesInOrder
<1>2. OrderInv /\ ServerInv /\ [Next]_vars => OrderInv'
  BY OrderStep
<1>3. Init => OrderInv
  BY OrderInit
<1> QED BY <1>1, <1>2, <1>3, ServerAlways, PTL DEF Spec

\* The request of a client that waits is never lost: it is on its way, in the
\* socket, with the pool, or the descriptor's future has its answer for the poll
\* thread to write, however many clients share the server and the pool and
\* whenever others disconnect.  So a reply can fail to come only because a thread is not
\* scheduled or the process has ended (rpcServer.cpp:27-104, tcpServer.cpp:70-103).
THEOREM RequestsAreKept == BodyCuts => (Spec => []RequestsKept)
<1> SUFFICES ASSUME BodyCuts PROVE Spec => []RequestsKept
  OBVIOUS
<1>1. Init => OrderInv /\ PickedInv
  BY OrderInit, PickedInit
<1>2. OrderInv /\ PickedInv /\ ServerInv /\ [Next]_vars => OrderInv' /\ PickedInv'
  BY OrderStep, PickedStep
<1>3. ServerInv /\ OrderInv /\ PickedInv => RequestsKept
  BY InvRequestsKept
<1> QED BY <1>1, <1>2, <1>3, ServerAlways, PTL DEF Spec
=============================================================================
