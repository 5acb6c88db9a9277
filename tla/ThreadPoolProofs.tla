-------------------------- MODULE ThreadPoolProofs --------------------------
(***************************************************************************)
(* The safety properties of ThreadPool, for any sets of workers, callers,  *)
(* waiters and tasks.                                                      *)
(*                                                                         *)
(* Everything follows from one fact: the workers that stand inside the     *)
(* mutex's scope in threadLoop are the mutex's owner (Owner).  The other   *)
(* conjuncts of IInv record what each place of the code says about the     *)
(* data.  No properties are assumed of the scheduler.                      *)
(***************************************************************************)
EXTENDS ThreadPool, TLAPS

\* A worker is in the mutex's scope exactly when it owns the mutex.
Owner == \A w \in Workers : workerPc[w] \in InMutex <=> mutex = w

\* A worker holds a task exactly while it runs it.
Holding == \A w \in Workers : task[w] \in Tasks <=> workerPc[w] = "run"

\* Workers leave only once the destructor has begun, and a flag that is set says
\* that it has.
Leaving ==
  /\ terminate <=> dtor # "alive"
  /\ \A w \in Workers : workerPc[w] = "exited" => terminate

\* After the last notify_all every worker that can still fall asleep is late.
LateCovers ==
  dtor = "join" =>
    \A w \in Workers :
      workerPc[w] \in {"lock", "check", "sleep", "waiting"} => w \in late

IInv == TypeOK /\ Owner /\ Holding /\ Leaving /\ LateCovers /\ CounterExact

-----------------------------------------------------------------------------
LEMMA InitIInv == Init => IInv
<1> SUFFICES ASSUME Init PROVE IInv
  OBVIOUS
<1> USE PoolAssumption DEF Init
<1>1. TypeOK
  <2>1. queue \in Seq(Tasks) /\ done \subseteq Tasks /\ late \subseteq Workers
    OBVIOUS
  <2>2. task \in [Workers -> Tasks \cup {NoTask}]
    OBVIOUS
  <2>3. workerPc \in [Workers -> WorkerPcs] /\ waiterPc \in [Waiters -> WaiterPcs]
    BY DEF WorkerPcs, WaiterPcs
  <2>4. callerPc \in [Callers -> {"idle", "notify"}]
    OBVIOUS
  <2>5. mutex \in Workers \cup {NoOne} /\ waitMutex \in Waiters \cup {NoOne}
    OBVIOUS
  <2>6. workingThread \in Int /\ dtor \in DtorPcs
    BY DEF DtorPcs
  <2>7. terminate \in BOOLEAN
    BY Zenon
  <2>8. QED
    BY <2>1, <2>2, <2>3, <2>4, <2>5, <2>6, <2>7 DEF TypeOK
<1>2. Owner
  BY DEF Owner, InMutex
<1>3. Holding /\ Leaving /\ LateCovers /\ CounterExact
  BY DEF Holding, Leaving, LateCovers, CounterExact
<1>4. QED
  BY <1>1, <1>2, <1>3 DEF IInv

\* Every action keeps the type invariant.
LEMMA TypeStep == TypeOK /\ Holding /\ [Next]_vars => TypeOK'
<1> SUFFICES ASSUME TypeOK, Holding, [Next]_vars PROVE TypeOK'
  OBVIOUS
<1> USE DEF TypeOK, WorkerPcs, WaiterPcs, DtorPcs
<1>1. ASSUME NEW w \in Workers, Worker(w) PROVE TypeOK'
  <2>1. CASE TestTerminate(w)
    BY <2>1 DEF TestTerminate, WorkerStep, waitVars, dtorVars
  <2>2. CASE LockMutex(w)
    BY <2>2 DEF LockMutex, WorkerStep, waitVars, dtorVars
  <2>3. CASE CheckQueue(w)
    BY <2>3 DEF CheckQueue, WorkerStep, waitVars, dtorVars
  <2>4. CASE Sleep(w)
    BY <2>4 DEF Sleep, WorkerStep, waitVars, dtorVars
  <2>5. CASE Reacquire(w)
    BY <2>5 DEF Reacquire, WorkerStep, waitVars, dtorVars
  <2>6. CASE CountIn(w)
    BY <2>6 DEF CountIn, WorkerStep, waitVars, dtorVars
  <2>7. CASE PopTask(w)
    <3>1. queue # <<>> => Head(queue) \in Tasks /\ Tail(queue) \in Seq(Tasks)
      OBVIOUS
    <3>2. QED
      BY <2>7, <3>1 DEF PopTask, WorkerStep, waitVars, dtorVars
  <2>8. CASE RunTask(w)
    <3>1. task[w] \in Tasks
      BY <2>8 DEF RunTask, WorkerStep, Holding
    <3>2. QED
      BY <2>8, <3>1 DEF RunTask, WorkerStep, waitVars, dtorVars
  <2>9. CASE CountOut(w)
    BY <2>9 DEF CountOut, WorkerStep, waitVars, dtorVars
  <2>10. CASE SignalWaiter(w)
    BY <2>10 DEF SignalWaiter, WorkerStep, NotifyOne, dtorVars
  <2>11. QED
    BY <1>1, <2>1, <2>2, <2>3, <2>4, <2>5, <2>6, <2>7, <2>8, <2>9, <2>10 DEF Worker
<1>2. ASSUME NEW w \in Workers, SpuriousWakeup(w) PROVE TypeOK'
  BY <1>2 DEF SpuriousWakeup, WorkerStep, waitVars, dtorVars
<1>3. ASSUME NEW c \in Callers, NEW t \in Tasks, PushTask(c, t) PROVE TypeOK'
  BY <1>3 DEF PushTask, workerVars, waitVars, dtorVars
<1>4. ASSUME NEW c \in Callers, NotifyWorker(c) PROVE TypeOK'
  BY <1>4 DEF NotifyWorker, NotifyOne, waitVars, dtorVars
<1>5. ASSUME NEW v \in Waiters, WaitAll(v) PROVE TypeOK'
  BY <1>5
  DEF WaitAll, LockWaitMutex, TestWorking, TestQueue, SleepWaiter, WaiterStep,
      workerVars, dtorVars
<1>6. ASSUME Destroy PROVE TypeOK'
  BY <1>6
  DEF Destroy, SetTerminate, FirstNotifyAll, SecondNotifyAll, JoinAll, DtorStep,
      WakeAll, At, workerVars, waitVars
<1>7. ASSUME UNCHANGED vars PROVE TypeOK'
  BY <1>7 DEF vars, workerVars, waitVars, dtorVars
<1>8. QED
  BY <1>1, <1>2, <1>3, <1>4, <1>5, <1>6, <1>7 DEF Next

\* Where an action may take the workers: one worker takes a step of its own, or
\* workers that were waiting are woken, or none of them moves.  The proofs below
\* use it instead of the actions of callers, waiters and the destructor.
LEMMA StepShape ==
  ASSUME TypeOK, [Next]_vars
  PROVE  \/ \E w \in Workers : Worker(w) \/ SpuriousWakeup(w)
         \/ /\ UNCHANGED <<mutex, task, workingThread, done>>
            /\ \A w \in Workers :
                 workerPc'[w] = workerPc[w] \/ (workerPc[w] = "waiting" /\ workerPc'[w] = "woken")
<1> USE DEF TypeOK
<1>1. ASSUME NEW c \in Callers, NEW t \in Tasks, PushTask(c, t)
      PROVE  UNCHANGED <<workerVars, done>>
  BY <1>1 DEF PushTask, workerVars
<1>2. ASSUME NEW c \in Callers, NotifyWorker(c)
      PROVE  /\ UNCHANGED <<mutex, task, workingThread, done>>
             /\ \A w \in Workers :
                 workerPc'[w] = workerPc[w] \/ (workerPc[w] = "waiting" /\ workerPc'[w] = "woken")
  BY <1>2 DEF NotifyWorker, NotifyOne
<1>3. ASSUME NEW v \in Waiters, WaitAll(v) PROVE UNCHANGED <<workerVars, done>>
  BY <1>3
  DEF WaitAll, LockWaitMutex, TestWorking, TestQueue, SleepWaiter, workerVars
<1>4. ASSUME Destroy
      PROVE  /\ UNCHANGED <<mutex, task, workingThread, done>>
             /\ \A w \in Workers :
                 workerPc'[w] = workerPc[w] \/ (workerPc[w] = "waiting" /\ workerPc'[w] = "woken")
  BY <1>4
  DEF Destroy, SetTerminate, FirstNotifyAll, SecondNotifyAll, JoinAll, WakeAll, workerVars
<1>5. QED
  BY <1>1, <1>2, <1>3, <1>4 DEF Next, vars, workerVars

-----------------------------------------------------------------------------
(***************************************************************************)
(* The mutex, the tasks and the counter.                                   *)
(***************************************************************************)
LEMMA OwnerStep == TypeOK /\ Owner /\ [Next]_vars => Owner'
<1> SUFFICES ASSUME TypeOK, Owner, [Next]_vars PROVE Owner'
  OBVIOUS
<1> USE PoolAssumption DEF TypeOK, Owner, InMutex, WorkerStep
<1>1. ASSUME NEW w \in Workers, Worker(w) \/ SpuriousWakeup(w) PROVE Owner'
  <2>1. CASE TestTerminate(w) \/ CheckQueue(w) \/ CountIn(w) \/ CountOut(w)
    BY <2>1 DEF TestTerminate, CheckQueue, CountIn, CountOut
  <2>2. CASE LockMutex(w) \/ Reacquire(w)
    BY <2>2 DEF LockMutex, Reacquire
  <2>3. CASE Sleep(w) \/ SignalWaiter(w)
    BY <2>3 DEF Sleep, SignalWaiter
  <2>4. CASE PopTask(w)
    BY <2>4 DEF PopTask
  <2>5. CASE RunTask(w) \/ SpuriousWakeup(w)
    BY <2>5 DEF RunTask, SpuriousWakeup
  <2>6. QED
    BY <1>1, <2>1, <2>2, <2>3, <2>4, <2>5 DEF Worker
<1>2. QED
  BY <1>1, StepShape

LEMMA HoldingStep == TypeOK /\ Holding /\ [Next]_vars => Holding'
<1> SUFFICES ASSUME TypeOK, Holding, [Next]_vars PROVE Holding'
  OBVIOUS
<1> USE PoolAssumption DEF TypeOK, Holding, WorkerStep
<1>1. ASSUME NEW w \in Workers, Worker(w) \/ SpuriousWakeup(w) PROVE Holding'
  <2>1. CASE TestTerminate(w) \/ CheckQueue(w) \/ CountIn(w) \/ CountOut(w)
    BY <2>1 DEF TestTerminate, CheckQueue, CountIn, CountOut
  <2>2. CASE LockMutex(w) \/ Reacquire(w) \/ Sleep(w) \/ SignalWaiter(w)
    BY <2>2 DEF LockMutex, Reacquire, Sleep, SignalWaiter
  <2>3. CASE PopTask(w)
    <3>1. queue # <<>> => Head(queue) \in Tasks
      OBVIOUS
    <3>2. QED
      BY <2>3, <3>1 DEF PopTask
  <2>4. CASE RunTask(w) \/ SpuriousWakeup(w)
    BY <2>4 DEF RunTask, SpuriousWakeup
  <2>5. QED
    BY <1>1, <2>1, <2>2, <2>3, <2>4 DEF Worker
<1>2. QED
  BY <1>1, StepShape

\* Only the mutex's owner can stand between the increment and the decrement.
LEMMA CounterStep == TypeOK /\ Owner /\ CounterExact /\ [Next]_vars => CounterExact'
<1> SUFFICES ASSUME TypeOK, Owner, CounterExact, [Next]_vars PROVE CounterExact'
  OBVIOUS
<1> DEFINE Counted(w) == workerPc[w] \in {"pop", "run", "uncount"}
<1>1. CounterExact <=>
        /\ (\E w \in Workers : Counted(w)) => workingThread = 1
        /\ (~ \E w \in Workers : Counted(w)) => workingThread = 0
  BY DEF CounterExact
<1>2. CounterExact' <=>
        /\ (\E w \in Workers : Counted(w)') => workingThread' = 1
        /\ (~ \E w \in Workers : Counted(w)') => workingThread' = 0
  BY DEF CounterExact
<1> USE PoolAssumption DEF TypeOK, Owner, InMutex, WorkerStep
<1>3. ASSUME NEW w \in Workers, Worker(w) \/ SpuriousWakeup(w) PROVE CounterExact'
  <2>1. CASE CountIn(w)
    <3>1. ~ \E v \in Workers : Counted(v)
      BY <2>1 DEF CountIn
    <3>2. Counted(w)' /\ workingThread' = 1
      BY <1>1, <2>1, <3>1 DEF CountIn
    <3>3. QED
      BY <1>2, <3>2
  <2>2. CASE CountOut(w)
    <3>1. Counted(w) /\ workingThread' = 0
      BY <1>1, <2>2 DEF CountOut
    <3>2. ~ \E v \in Workers : Counted(v)'
      BY <2>2 DEF CountOut
    <3>3. QED
      BY <1>2, <3>1, <3>2
  <2>3. CASE TestTerminate(w) \/ LockMutex(w) \/ CheckQueue(w) \/ Sleep(w)
             \/ Reacquire(w) \/ PopTask(w) \/ RunTask(w) \/ SignalWaiter(w)
             \/ SpuriousWakeup(w)
    <3>1. workingThread' = workingThread /\ \A v \in Workers : Counted(v)' <=> Counted(v)
      BY <2>3
      DEF TestTerminate, LockMutex, CheckQueue, Sleep, Reacquire, PopTask, RunTask,
          SignalWaiter, SpuriousWakeup
    <3>2. QED
      BY <1>1, <1>2, <3>1
  <2>4. QED
    BY <1>3, <2>1, <2>2, <2>3 DEF Worker
<1>4. CASE /\ UNCHANGED <<mutex, task, workingThread, done>>
           /\ \A w \in Workers :
                workerPc'[w] = workerPc[w] \/ (workerPc[w] = "waiting" /\ workerPc'[w] = "woken")
  <2>1. workingThread' = workingThread /\ \A v \in Workers : Counted(v)' <=> Counted(v)
    BY <1>4
  <2>2. QED
    BY <1>1, <1>2, <2>1
<1>5. QED
  BY <1>3, <1>4, StepShape

-----------------------------------------------------------------------------
(***************************************************************************)
(* The destructor.                                                         *)
(***************************************************************************)

\* terminate and dtor change together, and only in SetTerminate.
LEMMA DtorShape ==
  ASSUME TypeOK, [Next]_vars
  PROVE  \/ UNCHANGED dtorVars
         \/ Destroy /\ UNCHANGED <<mutex, task, workingThread>>
<1>1. ASSUME NEW w \in Workers, Worker(w) \/ SpuriousWakeup(w) PROVE UNCHANGED dtorVars
  BY <1>1
  DEF Worker, TestTerminate, LockMutex, CheckQueue, Sleep, Reacquire, CountIn,
      PopTask, RunTask, CountOut, SignalWaiter, SpuriousWakeup
<1>2. ASSUME NEW c \in Callers, NotifyWorker(c) \/ \E t \in Tasks : PushTask(c, t)
      PROVE  UNCHANGED dtorVars
  BY <1>2 DEF PushTask, NotifyWorker
<1>3. ASSUME NEW v \in Waiters, WaitAll(v) PROVE UNCHANGED dtorVars
  BY <1>3 DEF WaitAll, LockWaitMutex, TestWorking, TestQueue, SleepWaiter
<1>4. ASSUME Destroy PROVE UNCHANGED <<mutex, task, workingThread>>
  BY <1>4
  DEF Destroy, SetTerminate, FirstNotifyAll, SecondNotifyAll, JoinAll, workerVars
<1>5. CASE UNCHANGED vars
  BY <1>5 DEF vars
<1>6. QED
  BY <1>1, <1>2, <1>3, <1>4, <1>5 DEF Next

LEMMA LeavingStep == TypeOK /\ Leaving /\ [Next]_vars => Leaving'
<1> SUFFICES ASSUME TypeOK, Leaving, [Next]_vars PROVE Leaving'
  OBVIOUS
<1> USE DEF Leaving
<1>1. (terminate <=> dtor # "alive")'
  <2>1. CASE UNCHANGED dtorVars
    BY <2>1 DEF dtorVars
  <2>2. CASE Destroy
    BY <2>2
    DEF Destroy, SetTerminate, FirstNotifyAll, SecondNotifyAll, JoinAll, DtorStep
  <2>3. QED
    BY <2>1, <2>2, DtorShape
<1>2. terminate => terminate'
  <2>1. CASE UNCHANGED dtorVars
    BY <2>1 DEF dtorVars
  <2>2. CASE Destroy
    BY <2>2 DEF Destroy, SetTerminate, FirstNotifyAll, SecondNotifyAll, JoinAll
  <2>3. QED
    BY <2>1, <2>2, DtorShape
<1>3. ASSUME NEW w \in Workers, workerPc'[w] = "exited" PROVE terminate'
  <2>1. CASE workerPc[w] = "exited"
    BY <2>1, <1>2
  <2>2. CASE workerPc[w] # "exited"
    <3>1. PICK v \in Workers : Worker(v) \/ SpuriousWakeup(v)
      BY <1>3, <2>2, StepShape
    <3>2. TestTerminate(v) /\ v = w
      BY <1>3, <2>2, <3>1
      DEF TypeOK, Worker, TestTerminate, LockMutex, CheckQueue, Sleep, Reacquire, CountIn,
          PopTask, RunTask, CountOut, SignalWaiter, SpuriousWakeup, WorkerStep
    <3>3. terminate
      BY <1>3, <3>2 DEF TestTerminate, WorkerStep, TypeOK
    <3>4. QED
      BY <3>3, <1>2
  <2>3. QED
    BY <2>1, <2>2
<1>4. QED
  BY <1>1, <1>3

LEMMA LateStep == TypeOK /\ Leaving /\ LateCovers /\ [Next]_vars => LateCovers'
<1> SUFFICES ASSUME TypeOK, Leaving, LateCovers, [Next]_vars, dtor' = "join",
                    NEW w \in Workers,
                    workerPc'[w] \in {"lock", "check", "sleep", "waiting"}
             PROVE  w \in late'
  BY DEF LateCovers
<1> USE DEF TypeOK
<1>1. CASE SecondNotifyAll
  BY <1>1 DEF SecondNotifyAll, WakeAll, At
<1>2. CASE ~SecondNotifyAll
  <2>1. dtor = "join" /\ late' = late
    BY <1>2, DtorShape
    DEF dtorVars, Destroy, SetTerminate, FirstNotifyAll, JoinAll, DtorStep
  <2>2. workerPc[w] \in {"lock", "check", "sleep", "waiting"}
    <3>1. CASE workerPc[w] = workerPc'[w]
      BY <3>1
    <3>2. CASE workerPc[w] # workerPc'[w]
      <4>1. PICK v \in Workers : Worker(v) \/ SpuriousWakeup(v)
        BY <3>2, StepShape
      <4>2. TestTerminate(v) => workerPc'[v] = "exited"
        BY <2>1 DEF TestTerminate, WorkerStep, Leaving
      <4>3. QED
        BY <3>2, <4>1, <4>2
        DEF Worker, TestTerminate, LockMutex, CheckQueue, Sleep, Reacquire, CountIn,
            PopTask, RunTask, CountOut, SignalWaiter, SpuriousWakeup, WorkerStep
    <3>3. QED
      BY <3>1, <3>2
  <2>3. QED
    BY <2>1, <2>2 DEF LateCovers
<1>3. QED
  BY <1>1, <1>2

-----------------------------------------------------------------------------
LEMMA IInvStep == IInv /\ [Next]_vars => IInv'
  BY TypeStep, OwnerStep, HoldingStep, LeavingStep, LateStep, CounterStep DEF IInv

LEMMA Inductive == Spec => []IInv
  BY InitIInv, IInvStep, PTL DEF Spec

\* Type correctness.
THEOREM TypeCorrect == Spec => []TypeOK
<1>1. IInv => TypeOK
  BY DEF IInv
<1>2. QED
  BY <1>1, Inductive, PTL

\* A pool of any number of threads runs one task at a time.
THEOREM Serialized == Spec => []TasksSerialized
<1>1. IInv => TasksSerialized
  BY DEF IInv, Owner, InMutex, TasksSerialized, At
<1>2. QED
  BY <1>1, Inductive, PTL

\* The counter waitAll reads is exact, and is 0 or 1.
THEOREM CounterCorrect == Spec => []CounterExact
<1>1. IInv => CounterExact
  BY DEF IInv
<1>2. QED
  BY <1>1, Inductive, PTL

\* Once the last notify_all is sent, only workers it came too early for sleep.
THEOREM DestructorSleepers == Spec => []LateSleepersOnly
<1>1. IInv => LateSleepersOnly
  BY DEF IInv, LateCovers, LateSleepersOnly, At
<1>2. QED
  BY <1>1, Inductive, PTL

-----------------------------------------------------------------------------
(***************************************************************************)
(* No wakeup is lost, with two workers or more.                            *)
(***************************************************************************)
NotifyPending == \E c \in Callers : callerPc[c] = "notify"

\* A worker that does not move, or moves by its own step, stays awake unless it
\* falls asleep on an empty queue or leaves.
LEMMA AwakeStep ==
  ASSUME IInv, [Next]_vars, ~terminate', NEW w \in Workers, Awake(w), ~Awake(w)'
  PROVE  queue' = <<>>
<1> USE DEF IInv, TypeOK, Awake
<1>1. PICK v \in Workers : Worker(v) \/ SpuriousWakeup(v)
  BY StepShape
<1>2. v = w /\ (TestTerminate(w) \/ CheckQueue(w))
  BY <1>1
  DEF Worker, TestTerminate, LockMutex, CheckQueue, Sleep, Reacquire, CountIn,
      PopTask, RunTask, CountOut, SignalWaiter, SpuriousWakeup, WorkerStep
<1>3. ~TestTerminate(w)
  BY DEF TestTerminate, WorkerStep, dtorVars
<1>4. QED
  BY <1>2, <1>3 DEF CheckQueue, WorkerStep

\* The notification finds a worker that sleeps and wakes it, or no worker sleeps,
\* and of two workers at most one is about to.
LEMMA NotifyStep ==
  ASSUME IInv, ~terminate, NEW c \in Callers, NotifyWorker(c),
         \E v, w \in Workers : v # w
  PROVE  \E w \in Workers : Awake(w)'
<1> USE DEF IInv, TypeOK, Awake, NotifyWorker, NotifyOne
<1>1. CASE \E x \in Workers : workerPc[x] = "waiting"
  <2>1. PICK x \in Workers : workerPc' = [workerPc EXCEPT ![x] = "woken"]
    BY <1>1
  <2>2. QED
    BY <2>1
<1>2. CASE ~ \E x \in Workers : workerPc[x] = "waiting"
  <2>1. workerPc' = workerPc
    BY <1>2
  <2>2. PICK v, w \in Workers : v # w
    OBVIOUS
  <2>3. workerPc[v] # "sleep" \/ workerPc[w] # "sleep"
    BY <2>2 DEF Owner, InMutex
  <2>4. QED
    BY <1>2, <2>1, <2>2, <2>3 DEF Leaving
<1>3. QED
  BY <1>1, <1>2

\* A queue that grows leaves a caller that has yet to notify; one that does not
\* grow was not empty before.
LEMMA QueueStep ==
  ASSUME IInv, [Next]_vars
  PROVE  \/ queue' # <<>> => queue # <<>>
         \/ NotifyPending'
<1> USE DEF IInv, TypeOK, NotifyPending
<1>1. ASSUME NEW w \in Workers, Worker(w) \/ SpuriousWakeup(w)
      PROVE  queue' # <<>> => queue # <<>>
  BY <1>1
  DEF Worker, TestTerminate, LockMutex, CheckQueue, Sleep, Reacquire, CountIn,
      PopTask, RunTask, CountOut, SignalWaiter, SpuriousWakeup
<1>2. ASSUME NEW c \in Callers, NEW t \in Tasks, PushTask(c, t) PROVE NotifyPending'
  BY <1>2 DEF PushTask
<1>3. ASSUME NEW c \in Callers, NotifyWorker(c) PROVE queue' = queue
  BY <1>3 DEF NotifyWorker
<1>4. ASSUME NEW v \in Waiters, WaitAll(v) PROVE queue' = queue
  BY <1>4 DEF WaitAll, LockWaitMutex, TestWorking, TestQueue, SleepWaiter
<1>5. ASSUME Destroy PROVE queue' = queue
  BY <1>5 DEF Destroy, SetTerminate, FirstNotifyAll, SecondNotifyAll, JoinAll
<1>6. ASSUME UNCHANGED vars PROVE queue' = queue
  BY <1>6 DEF vars
<1>7. QED
  BY <1>1, <1>2, <1>3, <1>4, <1>5, <1>6 DEF Next

\* A pending notification is delivered by NotifyWorker and by nothing else.
LEMMA PendingStep ==
  ASSUME IInv, [Next]_vars, NotifyPending
  PROVE  NotifyPending' \/ \E c \in Callers : NotifyWorker(c)
<1> USE DEF IInv, TypeOK, NotifyPending
<1>1. ASSUME NEW w \in Workers, Worker(w) \/ SpuriousWakeup(w) PROVE callerPc' = callerPc
  BY <1>1
  DEF Worker, TestTerminate, LockMutex, CheckQueue, Sleep, Reacquire, CountIn,
      PopTask, RunTask, CountOut, SignalWaiter, SpuriousWakeup
<1>2. ASSUME NEW c \in Callers, NEW t \in Tasks, PushTask(c, t) PROVE NotifyPending'
  BY <1>2 DEF PushTask
<1>3. ASSUME NEW v \in Waiters, WaitAll(v) PROVE callerPc' = callerPc
  BY <1>3 DEF WaitAll, LockWaitMutex, TestWorking, TestQueue, SleepWaiter
<1>4. ASSUME Destroy PROVE callerPc' = callerPc
  BY <1>4 DEF Destroy, SetTerminate, FirstNotifyAll, SecondNotifyAll, JoinAll
<1>5. ASSUME UNCHANGED vars PROVE callerPc' = callerPc
  BY <1>5 DEF vars
<1>6. QED
  BY <1>1, <1>2, <1>3, <1>4, <1>5 DEF Next

LEMMA WakeStep ==
  ASSUME \E v, w \in Workers : v # w, IInv, NoLostWakeup, [Next]_vars
  PROVE  NoLostWakeup'
<1> SUFFICES ASSUME ~terminate', queue' # <<>>
             PROVE  (\E w \in Workers : Awake(w)') \/ NotifyPending'
  BY DEF NoLostWakeup, NotifyPending
<1>1. ~terminate
  <2>1. CASE UNCHANGED dtorVars
    BY <2>1 DEF dtorVars
  <2>2. CASE Destroy
    BY <2>2 DEF Destroy, SetTerminate, FirstNotifyAll, SecondNotifyAll, JoinAll
  <2>3. QED
    BY <2>1, <2>2, DtorShape DEF IInv
<1>2. CASE queue = <<>>
  BY <1>2, QueueStep
<1>3. CASE queue # <<>>
  <2>1. (\E w \in Workers : Awake(w)) \/ NotifyPending
    BY <1>1, <1>3 DEF NoLostWakeup, NotifyPending
  <2>2. ASSUME NEW w \in Workers, Awake(w) PROVE Awake(w)'
    BY <2>2, AwakeStep
  <2>3. ASSUME NotifyPending
        PROVE  NotifyPending' \/ \E w \in Workers : Awake(w)'
    BY <1>1, <2>3, PendingStep, NotifyStep
  <2>4. QED
    BY <2>1, <2>2, <2>3
<1>4. QED
  BY <1>2, <1>3

\* addThread's notification is never lost in a pool of two or more workers.
THEOREM WakeupsKept == (\E v, w \in Workers : v # w) => (Spec => []NoLostWakeup)
<1> SUFFICES ASSUME \E v, w \in Workers : v # w PROVE Spec => []NoLostWakeup
  OBVIOUS
<1>1. Init => NoLostWakeup
  BY DEF Init, NoLostWakeup
<1>2. IInv /\ NoLostWakeup /\ [Next]_vars => NoLostWakeup'
  BY WakeStep
<1>3. QED
  BY <1>1, <1>2, Inductive, PTL DEF Spec

-----------------------------------------------------------------------------
(***************************************************************************)
(* The pool is a serial executor.                                          *)
(***************************************************************************)

\* A worker at "run" is alone there.
LEMMA RunsAlone ==
  ASSUME IInv, NEW w \in Workers, workerPc[w] = "run"
  PROVE  Running = {task[w]}
  BY DEF IInv, Owner, InMutex, Running, At

LEMMA NobodyRuns ==
  ASSUME IInv, NEW w \in Workers, workerPc[w] \in InMutex \ {"run"}
  PROVE  Running = {}
  BY DEF IInv, Owner, InMutex, Running, At

\* If no worker enters or leaves "run" or changes its task, the same tasks run.
LEMMA SameRunning ==
  ASSUME task' = task, \A w \in Workers : workerPc'[w] = "run" <=> workerPc[w] = "run"
  PROVE  Running' = Running
  BY DEF Running, At

LEMMA QuietStep ==
  ASSUME IInv, NEW w \in Workers,
         \/ TestTerminate(w) \/ LockMutex(w) \/ CheckQueue(w) \/ Sleep(w) \/ Reacquire(w)
         \/ CountIn(w) \/ CountOut(w) \/ SignalWaiter(w) \/ SpuriousWakeup(w)
  PROVE  UNCHANGED <<queue, done, Running>>
<1> USE DEF IInv, TypeOK
<1>1. queue' = queue /\ done' = done /\ task' = task
  BY DEF TestTerminate, LockMutex, CheckQueue, Sleep, Reacquire, CountIn, CountOut,
         SignalWaiter, SpuriousWakeup
<1>2. \A v \in Workers : workerPc'[v] = "run" <=> workerPc[v] = "run"
  BY DEF TestTerminate, LockMutex, CheckQueue, Sleep, Reacquire, CountIn, CountOut,
         SignalWaiter, SpuriousWakeup, WorkerStep
<1>3. QED
  BY <1>1, <1>2, SameRunning

LEMMA PopMaps ==
  ASSUME IInv, IInv', NEW w \in Workers, PopTask(w)
  PROVE  Executor!Start \/ UNCHANGED <<queue, done, Running>>
<1> USE DEF PopTask, WorkerStep
<1>1. Running = {}
  BY NobodyRuns DEF InMutex
<1>2. CASE queue # <<>> /\ workerPc' = [workerPc EXCEPT ![w] = "run"]
  <2>1. workerPc'[w] = "run" /\ task'[w] = Head(queue)
    BY <1>2 DEF IInv, TypeOK
  <2>2. Running' = {Head(queue)}
    BY <2>1, RunsAlone, IInv' DEF IInv, Owner, InMutex, Running, At
  <2>3. QED
    BY <1>1, <1>2, <2>2 DEF Executor!Start
<1>3. CASE queue = <<>> /\ workerPc' = [workerPc EXCEPT ![w] = "uncount"]
  <2>1. workerPc'[w] = "uncount"
    BY <1>3 DEF IInv, TypeOK
  <2>2. Running' = {}
    BY <2>1 DEF IInv, Owner, InMutex, Running, At
  <2>3. QED
    BY <1>1, <1>3, <2>2
<1>4. QED
  BY <1>2, <1>3

LEMMA RunMaps ==
  ASSUME IInv, IInv', NEW w \in Workers, RunTask(w)
  PROVE  Executor!Finish
<1> USE DEF RunTask, WorkerStep
<1>1. Running = {task[w]}
  BY RunsAlone
<1>2. workerPc'[w] = "uncount"
  BY DEF IInv, TypeOK
<1>3. Running' = {}
  BY <1>2 DEF IInv, Owner, InMutex, Running, At
<1>4. QED
  BY <1>1, <1>3 DEF Executor!Finish

LEMMA PushMaps ==
  ASSUME NEW c \in Callers, NEW t \in Tasks, PushTask(c, t)
  PROVE  Executor!Submit(t)
<1>1. Running' = Running
  BY SameRunning DEF PushTask, workerVars
<1>2. t \notin Executor!Submitted
  BY DEF PushTask, New, Queued, Executor!Submitted
<1>3. QED
  BY <1>1, <1>2 DEF PushTask, Executor!Submit

\* Every step of the pool is a step of the executor, or stutters.
LEMMA ExecStep == IInv /\ IInv' /\ [Next]_vars => [Executor!ExecNext]_(Executor!execVars)
<1> SUFFICES ASSUME IInv, IInv', [Next]_vars
             PROVE  Executor!ExecNext \/ UNCHANGED <<queue, done, Running>>
  BY DEF Executor!execVars
<1>1. ASSUME NEW w \in Workers, Worker(w) \/ SpuriousWakeup(w)
      PROVE  Executor!ExecNext \/ UNCHANGED <<queue, done, Running>>
  <2>1. CASE PopTask(w)
    BY <2>1, PopMaps DEF Executor!ExecNext
  <2>2. CASE RunTask(w)
    BY <2>2, RunMaps DEF Executor!ExecNext
  <2>3. CASE ~PopTask(w) /\ ~RunTask(w)
    BY <1>1, <2>3, QuietStep DEF Worker
  <2>4. QED
    BY <2>1, <2>2, <2>3
<1>2. ASSUME NEW c \in Callers, NEW t \in Tasks, PushTask(c, t) PROVE Executor!ExecNext
  BY <1>2, PushMaps DEF Executor!ExecNext
<1>3. ASSUME NEW c \in Callers, NotifyWorker(c) PROVE UNCHANGED <<queue, done, Running>>
  <2>1. \A w \in Workers : workerPc'[w] = "run" <=> workerPc[w] = "run"
    BY <1>3 DEF NotifyWorker, NotifyOne, IInv, TypeOK
  <2>2. QED
    BY <1>3, <2>1, SameRunning DEF NotifyWorker
<1>4. ASSUME NEW v \in Waiters, WaitAll(v) PROVE UNCHANGED <<queue, done, Running>>
  <2>1. UNCHANGED <<queue, done, workerVars>>
    BY <1>4 DEF WaitAll, LockWaitMutex, TestWorking, TestQueue, SleepWaiter
  <2>2. QED
    BY <2>1, SameRunning DEF workerVars
<1>5. ASSUME Destroy PROVE UNCHANGED <<queue, done, Running>>
  <2>1. UNCHANGED <<queue, done, task>>
    BY <1>5 DEF Destroy, SetTerminate, FirstNotifyAll, SecondNotifyAll, JoinAll, workerVars
  <2>2. \A w \in Workers : workerPc'[w] = "run" <=> workerPc[w] = "run"
    BY <1>5
    DEF Destroy, SetTerminate, FirstNotifyAll, SecondNotifyAll, JoinAll, WakeAll,
        workerVars, IInv, TypeOK
  <2>3. QED
    BY <2>1, <2>2, SameRunning
<1>6. ASSUME UNCHANGED vars PROVE UNCHANGED <<queue, done, Running>>
  BY <1>6, SameRunning DEF vars, workerVars
<1>7. QED
  BY <1>1, <1>2, <1>3, <1>4, <1>5, <1>6 DEF Next

\* The pool, even one that is being destroyed, implements SerialExecutor's safety.
THEOREM PoolIsSerialExecutor == Spec => ImplementsExecutor
<1>1. Init => Executor!ExecInit
  BY DEF Init, Executor!ExecInit, Running, At
<1>2. QED
  BY <1>1, ExecStep, Inductive, PTL DEF Spec, ImplementsExecutor, Executor!ExecSafety

-----------------------------------------------------------------------------
\* waitAll returns with an empty queue, so what is submitted and not finished is
\* being run, and the pool runs one task at a time.
THEOREM WaitAllReturns == Spec => WaitAllLeavesAtMostOne
<1> DEFINE Quiet ==
      \A v \in Waiters :
        waiterPc[v] # "returned" /\ waiterPc'[v] = "returned" =>
          queue = <<>> /\ \A s, t \in (Tasks \ New) \ done : s = t
<1>1. IInv /\ [Next]_vars => [Quiet]_vars
  <2> SUFFICES ASSUME IInv, [Next]_vars, NEW v \in Waiters,
                      waiterPc[v] # "returned", waiterPc'[v] = "returned"
               PROVE  queue = <<>> /\ \A s, t \in (Tasks \ New) \ done : s = t
    OBVIOUS
  <2>1. queue = <<>>
    <3>1. ASSUME NEW w \in Workers, Worker(w) \/ SpuriousWakeup(w) PROVE FALSE
      BY <3>1
      DEF Worker, TestTerminate, LockMutex, CheckQueue, Sleep, Reacquire, CountIn,
          PopTask, RunTask, CountOut, SignalWaiter, NotifyOne, SpuriousWakeup, waitVars,
          IInv, TypeOK
    <3>2. ASSUME NEW c \in Callers, NotifyWorker(c) \/ \E t \in Tasks : PushTask(c, t)
          PROVE  FALSE
      BY <3>2 DEF NotifyWorker, PushTask, waitVars
    <3>3. ASSUME Destroy PROVE FALSE
      BY <3>3
      DEF Destroy, SetTerminate, FirstNotifyAll, SecondNotifyAll, JoinAll, waitVars
    <3>4. ASSUME UNCHANGED vars PROVE FALSE
      BY <3>4 DEF vars, waitVars
    <3>5. PICK u \in Waiters : WaitAll(u)
      BY <3>1, <3>2, <3>3, <3>4 DEF Next
    <3>6. QED
      BY <3>5
      DEF WaitAll, LockWaitMutex, TestWorking, TestQueue, SleepWaiter, WaiterStep, IInv, TypeOK
  <2>2. (Tasks \ New) \ done \subseteq Running
    BY <2>1 DEF New, Queued
  <2>3. \A x, y \in At("run") : x = y
    BY DEF At, IInv, Owner, InMutex
  <2>4. \A s, t \in Running : s = t
    BY <2>3 DEF Running
  <2>5. QED
    BY <2>1, <2>2, <2>4
<1>2. QED
  BY <1>1, Inductive, PTL DEF Spec, WaitAllLeavesAtMostOne
=============================================================================
