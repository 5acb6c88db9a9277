--------------------------- MODULE SerialExecutor ---------------------------
(***************************************************************************)
(* What the thread pool promises to the code that submits work to it, with *)
(* threads, locks and condition variables left out: submitted tasks are    *)
(* executed in submission order, one at a time, each at most once.         *)
(*                                                                         *)
(* The "one at a time" is the point.  threadPool::threadLoop calls the     *)
(* task while it still holds the pool's mutex, so a pool of several        *)
(* threads is a serial executor, and code run by the pool (doRpc and its   *)
(* map of incomplete requests, kafkaProducer::instance, the balancer's     *)
(* handlers) relies on that without saying so.  ThreadPool implements this *)
(* module; RpcServer and KafkaProducer use it in place of the pool.        *)
(***************************************************************************)
EXTENDS Integers, Sequences

CONSTANT Tasks   \* the tasks that callers may submit, each at most once

VARIABLES
  backlog,   \* submitted tasks that no thread has taken yet, oldest first
  active,    \* the tasks being executed: never more than one
  finished   \* the tasks whose future is ready

execVars == <<backlog, active, finished>>

Submitted == {backlog[i] : i \in 1..Len(backlog)} \cup active \cup finished

ExecInit ==
  /\ backlog = <<>>
  /\ active = {}
  /\ finished = {}

Submit(t) ==
  /\ t \in Tasks \ Submitted
  /\ backlog' = Append(backlog, t)
  /\ UNCHANGED <<active, finished>>

\* Mistake: the newest task is taken.
StartNewest ==
  /\ backlog # <<>>
  /\ active = {}
  /\ active' = {backlog[Len(backlog)]}
  /\ backlog' = SubSeq(backlog, 1, Len(backlog) - 1)
  /\ UNCHANGED finished

\* Mistake: a task is started while another runs.
StartTogether ==
  /\ backlog # <<>>
  /\ active' = active \cup {Head(backlog)}
  /\ backlog' = Tail(backlog)
  /\ UNCHANGED finished

Start ==
  /\ backlog # <<>>
  /\ active = {}
  /\ active' = {Head(backlog)}
  /\ backlog' = Tail(backlog)
  /\ UNCHANGED finished

Finish ==
  /\ active # {}
  /\ finished' = finished \cup active
  /\ active' = {}
  /\ UNCHANGED backlog

ExecNext == (\E t \in Tasks : Submit(t)) \/ Start \/ Finish

\* The safety part, which also holds of a pool that is being destroyed.
ExecSafety == ExecInit /\ [][ExecNext]_execVars

\* A pool that is not being destroyed also keeps taking and finishing tasks.
ExecSpec == ExecSafety /\ WF_execVars(Start) /\ WF_execVars(Finish)
=============================================================================
