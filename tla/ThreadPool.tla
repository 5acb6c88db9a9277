----------------------------- MODULE ThreadPool -----------------------------
(***************************************************************************)
(* threadPool (include/threadPool.h, threadPool/threadPool.cpp) with its   *)
(* safeQueue (include/safeQueue.h): worker threads, callers of addThread,  *)
(* callers of waitAll, and the destructor.                                 *)
(*                                                                         *)
(* Every step between two synchronisation operations is an action.  The    *)
(* operations of safeQueue are atomic (each takes and releases the queue's *)
(* own mutex and calls nothing); "mutex" is the pool's mutex, which        *)
(* addThread never takes: a push can fall between a worker's test of the   *)
(* queue and its wait.                                                     *)
(***************************************************************************)
EXTENDS Integers, Sequences, FiniteSets

CONSTANTS
  Workers,   \* the pool's threads (threadNum of them)
  Callers,   \* threads that call addThread
  Waiters,   \* threads that call waitAll, each once
  Tasks,     \* the tasks that callers submit, each once: bounds the model
  NoTask,    \* what a worker that runs nothing holds
  NoOne,     \* the owner of a mutex that is free
  Shutdown   \* whether the pool may be destroyed

ASSUME PoolAssumption ==
  /\ Workers # {}
  /\ NoOne \notin Workers
  /\ NoOne \notin Waiters
  /\ NoTask \notin Tasks
  /\ Shutdown \in BOOLEAN

VARIABLES
  queue,          \* the safeQueue of tasks
  mutex,          \* threadPool::mutex: the worker that owns it
  workerPc,       \* where each worker stands in threadLoop
  task,           \* the task each worker has popped and not finished
  workingThread,  \* the atomic counter of the same name
  done,           \* the tasks that were executed (their future is ready)
  callerPc,       \* where each caller stands in addThread
  waiterPc,       \* where each caller of waitAll stands in it
  waitMutex,      \* threadPool::waitMutex: the waiter that owns it
  terminate,      \* the flag of the same name
  dtor,           \* where ~threadPool stands
  late            \* history: the workers that had tested terminate but were
                  \* not yet waiting when the last notify_all was sent

workerVars == <<mutex, workerPc, task, workingThread>>
waitVars == <<waiterPc, waitMutex>>
dtorVars == <<terminate, dtor, late>>
vars == <<queue, done, callerPc, workerVars, waitVars, dtorVars>>

WorkerPcs == {"test", "lock", "check", "sleep", "waiting", "woken", "count",
              "pop", "run", "uncount", "signal", "exited"}
WaiterPcs == {"idle", "testWorking", "testQueue", "sleep", "waiting",
              "woken", "returned"}
DtorPcs == {"alive", "notify", "pause", "join", "destroyed"}

\* The places of threadLoop where the worker owns the pool's mutex.  The task
\* itself ("run") is one of them.
InMutex == {"check", "sleep", "count", "pop", "run", "uncount", "signal"}

At(p) == {w \in Workers : workerPc[w] = p}

Queued == {queue[i] : i \in 1..Len(queue)}
Running == {task[w] : w \in At("run")}
New == Tasks \ (Queued \cup Running \cup done)

Init ==
  /\ queue = <<>>
  /\ done = {}
  /\ mutex = NoOne
  /\ workerPc = [w \in Workers |-> "test"]
  /\ task = [w \in Workers |-> NoTask]
  /\ workingThread = 0
  /\ callerPc = [c \in Callers |-> "idle"]
  /\ waiterPc = [v \in Waiters |-> "idle"]
  /\ waitMutex = NoOne
  /\ terminate = FALSE
  /\ dtor = "alive"
  /\ late = {}

-----------------------------------------------------------------------------
\* One step of a thread: from one place of its code to the next.
WorkerStep(w, from, to) ==
  /\ workerPc[w] = from
  /\ workerPc' = [workerPc EXCEPT ![w] = to]

WaiterStep(v, from, to) ==
  /\ waiterPc[v] = from
  /\ waiterPc' = [waiterPc EXCEPT ![v] = to]

DtorStep(from, to) == dtor = from /\ dtor' = to

-----------------------------------------------------------------------------
(***************************************************************************)
(* Mistakes: what a careless change of the code would make of an action    *)
(* below.  No specification uses them as they stand; each shows that a     *)
(* property can fail.                                                      *)
(***************************************************************************)
\* The lock is taken in shared mode.
LockShared(w) ==
  /\ mutex' = w
  /\ WorkerStep(w, "lock", "check")
  /\ UNCHANGED <<queue, done, callerPc, task, workingThread, waitVars, dtorVars>>

\* pop's result is not tested.
PopUntested(w) ==
  /\ WorkerStep(w, "pop", "run")
  /\ task' = [task EXCEPT ![w] = IF queue = <<>> THEN NoTask ELSE Head(queue)]
  /\ queue' = IF queue = <<>> THEN queue ELSE Tail(queue)
  /\ UNCHANGED <<done, callerPc, mutex, workingThread, waitVars, dtorVars>>

\* The mutex is released before the task is called, or the newest task is
\* popped.
PopVariant(w, unlock, index) ==
  /\ \/ /\ queue # <<>>
        /\ WorkerStep(w, "pop", "run")
        /\ task' = [task EXCEPT ![w] = queue[index]]
        /\ queue' = [i \in 1..Len(queue) - 1 |-> IF i < index THEN queue[i] ELSE queue[i + 1]]
        /\ mutex' = IF unlock THEN NoOne ELSE mutex
     \/ /\ queue = <<>>
        /\ WorkerStep(w, "pop", "uncount")
        /\ UNCHANGED <<task, queue, mutex>>
  /\ UNCHANGED <<done, callerPc, workingThread, waitVars, dtorVars>>

PopThenUnlock(w) == PopVariant(w, TRUE, 1)
PopNewest(w) == PopVariant(w, FALSE, Len(queue))

\* addThread does not notify.
ForgetNotify(c) ==
  /\ callerPc[c] = "notify"
  /\ callerPc' = [callerPc EXCEPT ![c] = "idle"]
  /\ UNCHANGED <<queue, done, workerVars, waitVars, dtorVars>>

\* waitAll looks at the counter only.
ForgetQueue(v) ==
  /\ WaiterStep(v, "testQueue", "returned")
  /\ waitMutex' = NoOne
  /\ UNCHANGED <<queue, done, callerPc, workerVars, dtorVars>>

\* The destructor's last notification wakes one worker.
SecondNotifyOne ==
  /\ DtorStep("pause", "join")
  /\ \/ At("waiting") = {} /\ workerPc' = workerPc
     \/ \E w \in At("waiting") : workerPc' = [workerPc EXCEPT ![w] = "woken"]
  /\ late' = At("lock") \cup At("check") \cup At("sleep")
  /\ UNCHANGED <<queue, done, callerPc, mutex, task, workingThread, waitVars, terminate>>

-----------------------------------------------------------------------------
(***************************************************************************)
(* Workers: threadPool::threadLoop.                                        *)
(***************************************************************************)

\* while (!terminate)
TestTerminate(w) ==
  /\ WorkerStep(w, "test", IF terminate THEN "exited" ELSE "lock")
  /\ UNCHANGED <<queue, done, callerPc, mutex, task, workingThread, waitVars, dtorVars>>

\* std::unique_lock<std::mutex> lck(mutex)
LockMutex(w) ==
  /\ mutex = NoOne
  /\ mutex' = w
  /\ WorkerStep(w, "lock", "check")
  /\ UNCHANGED <<queue, done, callerPc, task, workingThread, waitVars, dtorVars>>

\* if (queue.empty())
CheckQueue(w) ==
  /\ WorkerStep(w, "check", IF queue = <<>> THEN "sleep" ELSE "count")
  /\ UNCHANGED <<queue, done, callerPc, mutex, task, workingThread, waitVars, dtorVars>>

\* consumer.wait(lck): release the mutex and sleep, in one step.
Sleep(w) ==
  /\ WorkerStep(w, "sleep", "waiting")
  /\ mutex' = NoOne
  /\ UNCHANGED <<queue, done, callerPc, task, workingThread, waitVars, dtorVars>>

\* A condition variable may also wake a thread that nobody notified.
SpuriousWakeup(w) ==
  /\ WorkerStep(w, "waiting", "woken")
  /\ UNCHANGED <<queue, done, callerPc, mutex, task, workingThread, waitVars, dtorVars>>

\* The wait returns once the mutex is taken again; nothing is tested again.
Reacquire(w) ==
  /\ mutex = NoOne
  /\ mutex' = w
  /\ WorkerStep(w, "woken", "count")
  /\ UNCHANGED <<queue, done, callerPc, task, workingThread, waitVars, dtorVars>>

\* workingThread++
CountIn(w) ==
  /\ WorkerStep(w, "count", "pop")
  /\ workingThread' = workingThread + 1
  /\ UNCHANGED <<queue, done, callerPc, mutex, task, waitVars, dtorVars>>

\* result = queue.pop(f)
PopTask(w) ==
  /\ \/ /\ queue # <<>>
        /\ WorkerStep(w, "pop", "run")
        /\ task' = [task EXCEPT ![w] = Head(queue)]
        /\ queue' = Tail(queue)
     \/ /\ queue = <<>>
        /\ WorkerStep(w, "pop", "uncount")
        /\ UNCHANGED <<task, queue>>
  /\ UNCHANGED <<done, callerPc, mutex, workingThread, waitVars, dtorVars>>

\* f(): the packaged task returns or throws, and its future is ready.
RunTask(w) ==
  /\ WorkerStep(w, "run", "uncount")
  /\ done' = done \cup {task[w]}
  /\ task' = [task EXCEPT ![w] = NoTask]
  /\ UNCHANGED <<queue, callerPc, mutex, workingThread, waitVars, dtorVars>>

\* workingThread--
CountOut(w) ==
  /\ WorkerStep(w, "uncount", "signal")
  /\ workingThread' = workingThread - 1
  /\ UNCHANGED <<queue, done, callerPc, mutex, task, waitVars, dtorVars>>

\* notify_one on a condition variable whose sleepers are the threads at
\* "waiting" of pc: one of them is woken, or nothing happens.
NotifyOne(pc, pcNext) ==
  LET sleepers == {x \in DOMAIN pc : pc[x] = "waiting"}
  IN  \/ /\ sleepers = {}
         /\ pcNext = pc
      \/ \E x \in sleepers : pcNext = [pc EXCEPT ![x] = "woken"]

\* waitConsumer.notify_one(), then lck goes out of scope.
SignalWaiter(w) ==
  /\ WorkerStep(w, "signal", "test")
  /\ NotifyOne(waiterPc, waiterPc')
  /\ mutex' = NoOne
  /\ UNCHANGED <<queue, done, callerPc, task, workingThread, waitMutex, dtorVars>>

Worker(w) ==
  \/ TestTerminate(w) \/ LockMutex(w) \/ CheckQueue(w) \/ Sleep(w)
  \/ Reacquire(w) \/ CountIn(w) \/ PopTask(w) \/ RunTask(w)
  \/ CountOut(w) \/ SignalWaiter(w)

-----------------------------------------------------------------------------
(***************************************************************************)
(* Callers: threadPool::addThread.  The pool's mutex is not taken.         *)
(***************************************************************************)

\* queue.push(wrapper).  No member function is entered once the destructor
\* has begun.
PushTask(c, t) ==
  /\ dtor = "alive"
  /\ callerPc[c] = "idle"
  /\ t \in New
  /\ queue' = Append(queue, t)
  /\ callerPc' = [callerPc EXCEPT ![c] = "notify"]
  /\ UNCHANGED <<done, workerVars, waitVars, dtorVars>>

\* consumer.notify_one()
NotifyWorker(c) ==
  /\ callerPc[c] = "notify"
  /\ callerPc' = [callerPc EXCEPT ![c] = "idle"]
  /\ NotifyOne(workerPc, workerPc')
  /\ UNCHANGED <<queue, done, mutex, task, workingThread, waitVars, dtorVars>>

-----------------------------------------------------------------------------
(***************************************************************************)
(* threadPool::waitAll.  Workers never take waitMutex.                     *)
(***************************************************************************)

\* std::unique_lock<std::mutex> lck(waitMutex), on entry and after a wait.
LockWaitMutex(v) ==
  /\ waitMutex = NoOne
  /\ waitMutex' = v
  /\ \/ dtor = "alive" /\ WaiterStep(v, "idle", "testWorking")
     \/ WaiterStep(v, "woken", "testWorking")
  /\ UNCHANGED <<queue, done, callerPc, workerVars, dtorVars>>

\* while (workingThread!=0 || ...: the left operand.
TestWorking(v) ==
  /\ WaiterStep(v, "testWorking", IF workingThread # 0 THEN "sleep" ELSE "testQueue")
  /\ UNCHANGED <<queue, done, callerPc, workerVars, waitMutex, dtorVars>>

\* ... || !queue.empty()): the right operand, read later.  The loop ends and
\* waitAll returns when the queue is empty.
TestQueue(v) ==
  /\ \/ /\ queue # <<>>
        /\ WaiterStep(v, "testQueue", "sleep")
        /\ UNCHANGED waitMutex
     \/ /\ queue = <<>>
        /\ WaiterStep(v, "testQueue", "returned")
        /\ waitMutex' = NoOne
  /\ UNCHANGED <<queue, done, callerPc, workerVars, dtorVars>>

\* waitConsumer.wait(lck)
SleepWaiter(v) ==
  /\ WaiterStep(v, "sleep", "waiting")
  /\ waitMutex' = NoOne
  /\ UNCHANGED <<queue, done, callerPc, workerVars, dtorVars>>

WaitAll(v) == LockWaitMutex(v) \/ TestWorking(v) \/ TestQueue(v) \/ SleepWaiter(v)

-----------------------------------------------------------------------------
(***************************************************************************)
(* threadPool::~threadPool.  C++ lets an object be destroyed only when no  *)
(* call of its member functions is in progress.                            *)
(***************************************************************************)

\* terminate = true
SetTerminate ==
  /\ Shutdown
  /\ \A c \in Callers : callerPc[c] = "idle"
  /\ \A v \in Waiters : waiterPc[v] \in {"idle", "returned"}
  /\ DtorStep("alive", "notify")
  /\ terminate' = TRUE
  /\ UNCHANGED <<queue, done, callerPc, workerVars, waitVars, late>>

\* consumer.notify_all()
WakeAll ==
  workerPc' = [w \in Workers |-> IF workerPc[w] = "waiting" THEN "woken" ELSE workerPc[w]]

FirstNotifyAll ==
  /\ DtorStep("notify", "pause")
  /\ WakeAll
  /\ UNCHANGED <<queue, done, callerPc, mutex, task, workingThread, waitVars, terminate, late>>

\* sleep_for(100us) is a pause of any length: the second notify_all may come
\* at any time.
SecondNotifyAll ==
  /\ DtorStep("pause", "join")
  /\ WakeAll
  /\ late' = At("lock") \cup At("check") \cup At("sleep")
  /\ UNCHANGED <<queue, done, callerPc, mutex, task, workingThread, waitVars, terminate>>

\* join every thread
JoinAll ==
  /\ DtorStep("join", "destroyed")
  /\ At("exited") = Workers
  /\ UNCHANGED <<queue, done, callerPc, workerVars, waitVars, terminate, late>>

Destroy == SetTerminate \/ FirstNotifyAll \/ SecondNotifyAll \/ JoinAll

-----------------------------------------------------------------------------
Next ==
  \/ \E w \in Workers : Worker(w)
  \/ \E w \in Workers : SpuriousWakeup(w)
  \/ \E c \in Callers, t \in Tasks : PushTask(c, t)
  \/ \E c \in Callers : NotifyWorker(c)
  \/ \E v \in Waiters : WaitAll(v)
  \/ Destroy

Spec == Init /\ [][Next]_vars

(***************************************************************************)
(* Every thread that can take a step keeps being scheduled, and a task     *)
(* that was started ends.  Nothing is assumed of callers beyond finishing  *)
(* an addThread they have begun, of spurious wakeups, or of who gets a     *)
(* mutex that several threads want.                                        *)
(***************************************************************************)
Fairness ==
  /\ \A w \in Workers : WF_vars(Worker(w))
  /\ \A c \in Callers : WF_vars(NotifyWorker(c))
  /\ \A v \in Waiters : WF_vars(WaitAll(v))
  /\ WF_vars(FirstNotifyAll \/ SecondNotifyAll \/ JoinAll)

FairSpec == Spec /\ Fairness

-----------------------------------------------------------------------------
(***************************************************************************)
(* Properties.                                                             *)
(***************************************************************************)

\* Every variable has its type, and "late" names only workers.
TypeOK ==
  /\ queue \in Seq(Tasks)
  /\ done \subseteq Tasks
  /\ mutex \in Workers \cup {NoOne}
  /\ workerPc \in [Workers -> WorkerPcs]
  /\ task \in [Workers -> Tasks \cup {NoTask}]
  /\ workingThread \in Int
  /\ callerPc \in [Callers -> {"idle", "notify"}]
  /\ waiterPc \in [Waiters -> WaiterPcs]
  /\ waitMutex \in Waiters \cup {NoOne}
  /\ terminate \in BOOLEAN
  /\ dtor \in DtorPcs
  /\ late \subseteq Workers

\* Tasks never overlap, however many threads the pool has: threadLoop calls
\* f() before lck goes out of scope.  Every unlocked data structure that tasks
\* share depends on it.
TasksSerialized == \A v, w \in At("run") : v = w

\* The counter waitAll reads is the number of threads between the increment and
\* the decrement, and that number is 0 or 1.
CounterExact ==
  workingThread =
    IF \E w \in Workers : workerPc[w] \in {"pop", "run", "uncount"} THEN 1 ELSE 0

\* While a task is queued, some worker is on its way to the queue or some
\* caller has yet to notify one.  addThread pushes and notifies without the
\* pool's mutex and threadLoop waits without testing again, so with one worker
\* the notification can fall between its test and its wait and be lost; with two
\* or more it cannot, because the mutex lets only one worker stand there.
Awake(w) == workerPc[w] \notin {"sleep", "waiting", "exited"}

NoLostWakeup ==
  ~terminate /\ queue # <<>> =>
    (\E w \in Workers : Awake(w)) \/ (\E c \in Callers : callerPc[c] = "notify")

\* When waitAll returns, no task is queued and at most one that was submitted is
\* not finished.  It is not "none": the counter and the queue are read at two
\* moments, and a worker can take the last task between them.
WaitAllLeavesAtMostOne ==
  [][\A v \in Waiters :
       waiterPc[v] # "returned" /\ waiterPc'[v] = "returned" =>
         queue = <<>> /\ \A s, t \in (Tasks \ New) \ done : s = t]_vars

\* The destructor can hang only on a worker that had passed its test of
\* terminate and was not yet waiting when the last notify_all was sent.
LateSleepersOnly == dtor = "join" => At("waiting") \subseteq late

\* The pool is a serial executor (its safety, for a pool that may be destroyed).
Executor == INSTANCE SerialExecutor
  WITH backlog <- queue, active <- Running, finished <- done

ImplementsExecutor == Executor!ExecSafety
=============================================================================
