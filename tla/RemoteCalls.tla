----------------------------- MODULE RemoteCalls -----------------------------
(***************************************************************************)
(* What rpcClient::remoteCall promises to the threads that call it, with   *)
(* connections, locks, peers and the network left out.  Each thread makes  *)
(* one call at a time.  A call is sent any number of times, each copy is   *)
(* executed at most once, perhaps after the call has ended, and only a     *)
(* call that was executed is answered: a call that was sent once and       *)
(* answered has been executed exactly once.  That is so until the network  *)
(* cuts a request outside its body: from then on a call may also end with  *)
(* a result that is not its own.  RpcClient implements this.               *)
(***************************************************************************)
EXTENDS Integers

CONSTANT Callers

VARIABLES
  calling,   \* the callers whose call has not ended
  calls,     \* per caller: calls begun
  sent,      \* per caller: how often the last call was sent
  executed,  \* per caller: how often it was executed
  outcome,   \* per caller: what it gave, with the call it is the answer to
  cuts       \* requests that were cut outside their bodies

remoteVars == <<calling, calls, sent, executed, outcome, cuts>>

Init ==
  /\ calling = {}
  /\ calls = [t \in Callers |-> 0]
  /\ sent = [t \in Callers |-> 0]
  /\ executed = [t \in Callers |-> 0]
  /\ outcome = [t \in Callers |-> <<"none">>]
  /\ cuts = 0

Begin(t) ==
  /\ t \notin calling
  /\ calling' = calling \cup {t}
  /\ calls' = [calls EXCEPT ![t] = @ + 1]
  /\ sent' = [sent EXCEPT ![t] = 0]
  /\ executed' = [executed EXCEPT ![t] = 0]
  /\ outcome' = [outcome EXCEPT ![t] = <<"none">>]
  /\ UNCHANGED cuts

Send(t) ==
  /\ t \in calling
  /\ sent' = [sent EXCEPT ![t] = @ + 1]
  /\ UNCHANGED <<calling, calls, executed, outcome, cuts>>

\* Not only while the caller waits.
Execute(t) ==
  /\ executed[t] < sent[t]
  /\ executed' = [executed EXCEPT ![t] = @ + 1]
  /\ UNCHANGED <<calling, calls, sent, outcome, cuts>>

\* The caller gets the answer, or the empty one, to this very call.
Return(t) ==
  /\ t \in calling /\ executed[t] > 0
  /\ calling' = calling \ {t}
  /\ \E kind \in {"answer", "empty"} :
       outcome' = [outcome EXCEPT ![t] = <<kind, <<t, calls[t]>>>>]
  /\ UNCHANGED <<calls, sent, executed, cuts>>

\* "connect error" says nothing about whether the call was executed.
Fail(t) ==
  /\ t \in calling
  /\ calling' = calling \ {t}
  /\ outcome' = [outcome EXCEPT ![t] = <<"connect error">>]
  /\ UNCHANGED <<calls, sent, executed, cuts>>

\* A request arrives in pieces that the server does not put together.
Cut ==
  /\ cuts' = cuts + 1
  /\ UNCHANGED <<calling, calls, sent, executed, outcome>>

\* The caller gets what may be the answer to another call, or to none.
Mismatch(t) ==
  /\ t \in calling /\ cuts > 0
  /\ calling' = calling \ {t}
  /\ outcome' = [outcome EXCEPT ![t] = <<"unmatched">>]
  /\ UNCHANGED <<calls, sent, executed, cuts>>

Next ==
  \/ Cut
  \/ \E t \in Callers :
       Begin(t) \/ Send(t) \/ Execute(t) \/ Return(t) \/ Mismatch(t) \/ Fail(t)

Spec == Init /\ [][Next]_remoteVars
=============================================================================
