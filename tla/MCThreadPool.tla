---------------------------- MODULE MCThreadPool ----------------------------
(***************************************************************************)
(* ThreadPool for TLC: what is checked under fairness on small instances,  *)
(* beside the safety properties that ThreadPool states and ThreadPoolProofs*)
(* proves for every instance.                                              *)
(***************************************************************************)
EXTENDS ThreadPool

\* A pool that is not destroyed takes every task that was submitted and finishes
\* it: no push falls into the gap between a worker's test of the queue and its
\* wait for good.  It takes two workers (NoLostWakeup).
TasksExecuted == \A t \in Tasks : t \in Queued ~> (t \in done \/ terminate)

\* If no worker was caught between its test and its wait by the last
\* notify_all, the destructor returns: every worker is woken and leaves.
ShutdownCompletes == (dtor = "join" /\ late = {}) ~> (dtor = "destroyed")
=============================================================================
