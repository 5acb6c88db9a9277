---------------------------- MODULE KafkaProducer ----------------------------
(***************************************************************************)
(* The log of requests that a service keeps in Kafka, and its replay:      *)
(* the end of doRpc's task (rpc/rpcServer.cpp), kafkaProducer with its     *)
(* thread (include/kafka.h, kafka/kafka.cpp) and the tool pressure         *)
(* (pressure.cpp), which reads the log and sends the requests again.       *)
(*                                                                         *)
(* Tasks run in the pool, which is the SerialExecutor that ThreadPool      *)
(* implements; kafkaProducer::instance, which takes no lock, depends on    *)
(* it.  A process has one service, here not the empty one, so there is one *)
(* topic.                                                                  *)
(***************************************************************************)
EXTENDS Integers, Sequences, FiniteSets, SequencesExt

CONSTANTS
  Requests,    \* the requests of ordinary clients: bounds the model
  MaxRefused   \* messages that librdkafka refuses, its queue being full

ASSUME ProducerAssumption == MaxRefused \in Nat

\* A replay carries the parameter "pressure".
Tasks == Requests \X {"call", "replay"}

VARIABLES
  backlog, active, finished,   \* the pool: see SerialExecutor
  taskPc,        \* where the task of each request stands
  instances,     \* how many producers instance() has made
  produceQueue,  \* the messages produced, oldest first
  syncPc,        \* where syncThread stands
  sending,       \* the message it has popped: a sequence of at most one
  topic,         \* external: the messages librdkafka has accepted
  refused,       \* external: those it has not
  offset,        \* the messages of topic that pressure has consumed
  status,        \* whether the process is "up", or was terminated by an exception
  order          \* history: the calls handled so far, which are to be logged

poolVars == <<backlog, active, finished>>
syncVars == <<syncPc, sending, topic, refused>>
vars == <<poolVars, taskPc, instances, produceQueue, syncVars, offset, order, status>>

Pool == INSTANCE SerialExecutor

TaskPcs == {"handle", "instance", "make", "push", "notify", "end", "thrown"}
SyncPcs == {"none", "lock", "check", "sleep", "waiting", "woken", "pop", "send"}

\* The places of syncThread where it owns kafkaProducer::mutex.
SyncOwns == syncPc \in {"check", "sleep", "pop", "send"}

Init ==
  /\ Pool!ExecInit
  /\ taskPc = [t \in Tasks |-> "handle"]
  /\ instances = 0
  /\ produceQueue = <<>>
  /\ syncPc = "none"
  /\ sending = <<>>
  /\ topic = <<>>
  /\ refused = {}
  /\ offset = 0
  /\ status = "up"
  /\ order = <<>>

-----------------------------------------------------------------------------
TaskStep(t, from, to) ==
  /\ t \in active
  /\ taskPc[t] = from
  /\ taskPc' = [taskPc EXCEPT ![t] = to]

SyncStep(from, to) == syncPc = from /\ syncPc' = to

-----------------------------------------------------------------------------
(***************************************************************************)
(* Mistakes (see ThreadPool).                                              *)
(***************************************************************************)
\* produce notifies without the lock.
NotifyUnlocked(t) ==
  /\ TaskStep(t, "notify", "end")
  /\ syncPc' = IF syncPc = "waiting" THEN "woken" ELSE syncPc
  /\ UNCHANGED <<poolVars, instances, produceQueue, sending, topic, refused, offset, order, status>>

\* The result of pop is not tested.
PopUntested ==
  /\ SyncStep("pop", "send")
  /\ sending' = SubSeq(produceQueue, 1, IF produceQueue = <<>> THEN 0 ELSE 1)
  /\ produceQueue' = SubSeq(produceQueue, 2, Len(produceQueue))
  /\ UNCHANGED <<poolVars, taskPc, instances, topic, refused, offset, order, status>>

-----------------------------------------------------------------------------
(***************************************************************************)
(* The pool's tasks: what doRpc's task does once its request is complete.  *)
(***************************************************************************)

\* A client's chunk reaches doRpc.
Receive(r) == Pool!Submit(<<r, "call">>) /\ UNCHANGED <<taskPc, instances, produceQueue, syncVars, offset, order, status>>

StartTask == Pool!Start /\ UNCHANGED <<taskPc, instances, produceQueue, syncVars, offset, order, status>>

\* handler->handleRPC(rpc) and the test for "pressure".  A request that cannot be
\* parsed or handled throws, and a replay is not logged.
HandleRPC(t) ==
  /\ \/ TaskStep(t, "handle", "thrown") /\ UNCHANGED order
     \/ /\ t[2] = "replay"
        /\ TaskStep(t, "handle", "end")
        /\ UNCHANGED order
     \/ /\ t[2] = "call"
        /\ TaskStep(t, "handle", "instance")
        /\ order' = Append(order, t)
  /\ UNCHANGED <<poolVars, instances, produceQueue, syncVars, offset, status>>

\* if (instance_==nullptr)
GetInstance(t) ==
  /\ TaskStep(t, "instance", IF instances = 0 THEN "make" ELSE "push")
  /\ UNCHANGED <<poolVars, instances, produceQueue, syncVars, offset, order, status>>

\* instance_=std::make_shared<kafkaProducer>(), which starts the thread.
MakeInstance(t) ==
  /\ TaskStep(t, "make", "push")
  /\ instances' = instances + 1
  /\ syncPc' = "lock"
  /\ UNCHANGED <<poolVars, produceQueue, sending, topic, refused, offset, order, status>>

\* produceQueue.push(...), before the lock.
Push(t) ==
  /\ TaskStep(t, "push", "notify")
  /\ produceQueue' = Append(produceQueue, t)
  /\ UNCHANGED <<poolVars, instances, syncVars, offset, order, status>>

\* Take the mutex and notify; the lock goes out of scope.
Notify(t) ==
  /\ ~SyncOwns
  /\ TaskStep(t, "notify", "end")
  /\ syncPc' = IF syncPc = "waiting" THEN "woken" ELSE syncPc
  /\ UNCHANGED <<poolVars, instances, produceQueue, sending, topic, refused, offset, order, status>>

\* The task returns, or leaves its exception in its future; the worker goes on.
FinishTask ==
  /\ \A t \in active : taskPc[t] \in {"end", "thrown"}
  /\ Pool!Finish
  /\ UNCHANGED <<taskPc, instances, produceQueue, syncVars, offset, order, status>>

Produce(t) == HandleRPC(t) \/ GetInstance(t) \/ MakeInstance(t) \/ Push(t) \/ Notify(t)

-----------------------------------------------------------------------------
(***************************************************************************)
(* kafkaProducer::syncThread.  isShutdown is set by the destructor only,   *)
(* which never runs: no server returns from startForever.                  *)
(***************************************************************************)

\* while (!isShutdown) { std::unique_lock<std::mutex> lck(mutex)
SyncLock ==
  /\ SyncStep("lock", "check")
  /\ UNCHANGED <<poolVars, taskPc, instances, produceQueue, sending, topic, refused, offset, order, status>>

\* if (produceQueue.empty())
SyncCheck ==
  /\ SyncStep("check", IF produceQueue = <<>> THEN "sleep" ELSE "pop")
  /\ UNCHANGED <<poolVars, taskPc, instances, produceQueue, sending, topic, refused, offset, order, status>>

\* consumer.wait(lck) releases the mutex, sleeps, and takes the mutex again
\* once notified or for no reason.
SyncSleep ==
  /\ SyncStep("sleep", "waiting")
  /\ UNCHANGED <<poolVars, taskPc, instances, produceQueue, sending, topic, refused, offset, order, status>>

SpuriousWakeup ==
  /\ SyncStep("waiting", "woken")
  /\ UNCHANGED <<poolVars, taskPc, instances, produceQueue, sending, topic, refused, offset, order, status>>

SyncReacquire ==
  /\ SyncStep("woken", "pop")
  /\ UNCHANGED <<poolVars, taskPc, instances, produceQueue, sending, topic, refused, offset, order, status>>

\* result=produceQueue.pop(data)
SyncPop ==
  /\ \/ /\ produceQueue # <<>>
        /\ SyncStep("pop", "send")
        /\ sending' = <<Head(produceQueue)>>
        /\ produceQueue' = Tail(produceQueue)
     \/ /\ produceQueue = <<>>
        /\ SyncStep("pop", "lock")
        /\ UNCHANGED <<sending, produceQueue>>
  /\ UNCHANGED <<poolVars, taskPc, instances, topic, refused, offset, order, status>>

\* produce_, with the mutex held: librdkafka takes the message or refuses it,
\* and the refusal is not looked at.
SyncSend ==
  /\ SyncStep("send", "lock")
  /\ \/ topic' = topic \o sending /\ UNCHANGED refused
     \/ /\ Cardinality(refused) < MaxRefused
        /\ refused' = refused \cup ToSet(sending)
        /\ UNCHANGED topic
  /\ sending' = <<>>
  /\ UNCHANGED <<poolVars, taskPc, instances, produceQueue, offset, order, status>>

SyncThread ==
  SyncLock \/ SyncCheck \/ SyncSleep \/ SyncReacquire \/ SyncPop \/ SyncSend

-----------------------------------------------------------------------------
\* future.get(), in the poll thread: nobody catches the exception of a task, and the
\* process dies with what is still in its queues.  (It is not called for a connection
\* that is gone.)
GetThrows ==
  /\ \E t \in finished : taskPc[t] = "thrown"
  /\ status' = "terminated"
  /\ UNCHANGED <<poolVars, taskPc, instances, produceQueue, syncVars, offset, order>>

-----------------------------------------------------------------------------
\* pressure: consume a message of the topic, once the request it sent before
\* is answered, tag it and send it.
Replay ==
  /\ offset < Len(topic)
  /\ \A t \in Pool!Submitted : t[2] = "replay" => t \in finished /\ taskPc[t] = "end"
  /\ offset' = offset + 1
  /\ Pool!Submit(<<topic[offset + 1][1], "replay">>)
  /\ UNCHANGED <<taskPc, instances, produceQueue, syncVars, order, status>>

Up == status = "up"

Next ==
  /\ Up
  /\ \/ \E r \in Requests : Receive(r)
     \/ StartTask
     \/ \E t \in Tasks : Produce(t)
     \/ FinishTask
     \/ SyncThread
     \/ SpuriousWakeup
     \/ GetThrows
     \/ Replay

Spec == Init /\ [][Next]_vars

\* The pool's threads and syncThread keep being scheduled; handlers return or throw.
\* Nobody has to call or to replay.
Fairness ==
  /\ WF_vars(Up /\ StartTask)
  /\ WF_vars(Up /\ FinishTask)
  /\ \A t \in Tasks : WF_vars(Up /\ Produce(t))
  /\ WF_vars(Up /\ SyncThread)

FairSpec == Spec /\ Fairness

-----------------------------------------------------------------------------
(***************************************************************************)
(* Properties.                                                             *)
(***************************************************************************)

\* Every variable has its type.
TypeOK ==
  /\ backlog \in Seq(Tasks) /\ active \subseteq Tasks /\ finished \subseteq Tasks
  /\ taskPc \in [Tasks -> TaskPcs]
  /\ instances \in Nat
  /\ produceQueue \in Seq(Tasks)
  /\ syncPc \in SyncPcs
  /\ sending \in Seq(Tasks) /\ Len(sending) = IF syncPc = "send" THEN 1 ELSE 0
  /\ topic \in Seq(Tasks) /\ refused \subseteq Tasks
  /\ offset \in 0..Len(topic)
  /\ status \in {"up", "terminated"}
  /\ order \in Seq(Tasks)

\* The elements of s that are in S, in their order: SelectSeq, as a function that
\* proofs can unfold.
Only(s, S) ==
  LET kept[n \in 0..Len(s)] ==
        IF n = 0 THEN <<>>
        ELSE IF s[n] \in S THEN Append(kept[n - 1], s[n]) ELSE kept[n - 1]
  IN  kept[Len(s)]

\* What a task has handled and not yet pushed.
Handled == {t \in Tasks : taskPc[t] \in {"instance", "make", "push"}}
Unpushed == Only(order, Handled)

\* The log is the sequence of calls in the order the service executed them,
\* each once, whatever part of it has got how far; only what librdkafka refuses
\* is missing, and a replay never enters it, so that a replayed log does not
\* grow.  It takes the one instance that instance() makes without a lock, and
\* the pool for the order (rpcServer.cpp:75-83, kafka.h:28-34).
LogFollowsOrder ==
  /\ instances <= 1
  /\ topic \o sending \o produceQueue \o Unpushed = Only(order, Tasks \ refused)

\* Every call that was executed is handed to librdkafka while the process lives: no
\* notification is lost, although the push is outside the lock and the wait tests
\* nothing again (kafka.cpp:9-12 and 22-27).  A process that dies of a later request's
\* exception takes the calls that are still queued with it (rpcServer.cpp:101).
EveryCallLogged ==
  \A t \in Tasks : t \in ToSet(order) ~> (t \in ToSet(topic) \cup refused \/ ~Up)
=============================================================================
