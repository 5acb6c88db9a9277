--------------------------- MODULE RpcSystemProofs ---------------------------
(***************************************************************************)
(* The safety properties of RpcSystem, for any clients, providers and ways *)
(* to call.  Two of them are the safety core of EveryCallEnds: who waits   *)
(* depends on one that can go on, or on a deadlock; and a deadlock stays   *)
(* until a process in it dies.                                             *)
(***************************************************************************)
EXTENDS RpcSystem, FiniteSetTheorems, SequenceTheorems, TLAPS

-----------------------------------------------------------------------------
(***************************************************************************)
(* Queues of requests.                                                     *)
(***************************************************************************)
Requests == Actors \cup Orphans

Has(s, a) == \E i \in 1..Len(s) : s[i] = a

\* No actor has two requests in s.
Distinct(s) == \A i, j \in 1..Len(s) : s[i] = s[j] /\ s[i] \in Actors => i = j

LEMMA AppendHas ==
  ASSUME NEW T, NEW s \in Seq(T), NEW e \in T
  PROVE  /\ Append(s, e) \in Seq(T)
         /\ \A x : Has(Append(s, e), x) <=> Has(s, x) \/ x = e
         /\ Distinct(s) /\ ~Has(s, e) => Distinct(Append(s, e))
<1>1. /\ Append(s, e) \in Seq(T) /\ Len(Append(s, e)) = Len(s) + 1 /\ Len(s) \in Nat
      /\ \A i \in 1..Len(s) : Append(s, e)[i] = s[i]
      /\ Append(s, e)[Len(s) + 1] = e
  BY AppendProperties, LenProperties
<1>2. \A i \in 1..(Len(s) + 1) : i \in 1..Len(s) \/ i = Len(s) + 1
  BY <1>1
<1>3. ASSUME NEW x PROVE Has(Append(s, e), x) <=> Has(s, x) \/ x = e
  BY <1>1, <1>2 DEF Has
<1>4. ASSUME Distinct(s), ~Has(s, e) PROVE Distinct(Append(s, e))
  BY <1>1, <1>2, <1>4 DEF Has, Distinct
<1> QED BY <1>1, <1>3, <1>4

LEMMA TailHas ==
  ASSUME NEW T, NEW s \in Seq(T), s # <<>>
  PROVE  /\ Head(s) \in T /\ Tail(s) \in Seq(T)
         /\ \A x : Has(s, x) <=> x = Head(s) \/ Has(Tail(s), x)
         /\ Distinct(s) => Distinct(Tail(s))
         /\ Distinct(s) /\ Head(s) \in Actors => ~Has(Tail(s), Head(s))
<1>1. /\ Head(s) \in T /\ Tail(s) \in Seq(T) /\ Len(Tail(s)) = Len(s) - 1 /\ Len(s) \in Nat \ {0}
      /\ \A i \in 1..Len(Tail(s)) : Tail(s)[i] = s[i + 1]
  BY HeadTailProperties, EmptySeq
<1>2. Head(s) = s[1]
  OBVIOUS
<1>3. ASSUME NEW x PROVE Has(s, x) <=> x = Head(s) \/ Has(Tail(s), x)
  <2>1. ASSUME NEW i \in 1..Len(s), s[i] = x, x # Head(s) PROVE Has(Tail(s), x)
    <3>1. i - 1 \in 1..Len(Tail(s)) /\ Tail(s)[i - 1] = s[(i - 1) + 1]
      BY <1>1, <1>2, <2>1
    <3> QED BY <2>1, <3>1 DEF Has
  <2>2. ASSUME NEW i \in 1..Len(Tail(s)), Tail(s)[i] = x PROVE Has(s, x)
    <3>1. i + 1 \in 1..Len(s) /\ s[i + 1] = x
      BY <1>1, <2>2
    <3> QED BY <3>1 DEF Has
  <2>3. Has(s, Head(s))
    BY <1>1, <1>2 DEF Has
  <2> QED BY <2>1, <2>2, <2>3 DEF Has
<1>4. ASSUME Distinct(s)
      PROVE  Distinct(Tail(s)) /\ (Head(s) \in Actors => ~Has(Tail(s), Head(s)))
  <2>1. \A i \in 1..Len(Tail(s)) : i + 1 \in 1..Len(s) /\ i + 1 # 1 /\ 1 \in 1..Len(s)
    BY <1>1
  <2>2. Head(s) \in Actors => ~Has(Tail(s), Head(s))
    BY <1>1, <1>2, <1>4, <2>1 DEF Has, Distinct
  <2>3. ASSUME NEW i \in 1..Len(Tail(s)), NEW j \in 1..Len(Tail(s)), Tail(s)[i] = Tail(s)[j], Tail(s)[i] \in Actors
        PROVE  i = j
    <3>1. i + 1 = j + 1
      BY <1>1, <1>4, <2>1, <2>3 DEF Distinct
    <3> QED BY <3>1
  <2> QED BY <2>2, <2>3 DEF Distinct
<1> QED BY <1>1, <1>3, <1>4

-----------------------------------------------------------------------------
(***************************************************************************)
(* The invariant.                                                          *)
(***************************************************************************)
Kinds ==
  /\ status \in [Providers -> {"down", "registering", "serving"}]
  /\ table \subseteq listed /\ listed \subseteq Providers
  /\ inbox \in [Processes -> Seq(Requests)]
  /\ current \in [Processes -> Requests \cup {None}]
  /\ step \in [Processes -> {"start", "called"}]
  /\ asked \in [Actors -> Processes \cup {None, Gone}]
  /\ DOMAIN rpcMutex = Fronts
  /\ crashes \in 0..MaxCrashes

\* An actor has one request at the process it awaits, waiting or under way, and
\* none elsewhere.
Once ==
  \A p \in Processes :
    /\ Distinct(inbox[p])
    /\ \A a \in Actors :
         /\ asked[a] = p <=> Has(inbox[p], a) \/ current[p] = a
         /\ ~(Has(inbox[p], a) /\ current[p] = a)

\* Where a process that awaits an answer stands: it asked once, and has asked
\* nobody since.
Why ==
  /\ \A p \in Providers : status[p] # "serving" => current[p] = None
  /\ \A p \in Providers : asked[p] # None =>
       \/ status[p] = "registering"
       \/ p \in Fronts /\ status[p] = "serving" /\ current[p] # None /\ step[p] = "called"
  /\ asked[Balancer] # None => current[Balancer] # None /\ step[Balancer] = "called"
  /\ \A f \in Fronts : Refresher(f) \in Refreshers /\ asked[Refresher(f)] # None =>
       rpcMutex[f] = Refresher(f)

\* Who has the mutex of a front's rpcClient: its handler has it as long as its
\* own call lasts.
MutexOwner ==
  \A f \in Fronts :
    /\ rpcMutex[f] \in {None, f} \cup ({Refresher(f)} \cap Refreshers)
    /\ rpcMutex[f] = f <=> current[f] # None /\ step[f] = "called"

\* Whom an actor may await.
Whom ==
  /\ \A p \in Providers : asked[p] = Balancer =>
       status[p] = "registering" \/ (p \in Fronts /\ Mode[p] = "SERVER")
  /\ \A p \in Providers : asked[p] \notin {None, Gone, Balancer} =>
       p \in Fronts /\ asked[p] \in Backs \cap listed
  /\ asked[Balancer] \in {None, Gone} \cup listed
  /\ \A r \in Refreshers : asked[r] \in {None, Balancer}

SystemInv == Kinds /\ Once /\ Why /\ MutexOwner /\ Whom

-----------------------------------------------------------------------------
LEMMA ActorFacts ==
  /\ None \notin Actors /\ Gone \notin Actors /\ None # Gone
  /\ Fronts \subseteq Providers /\ Backs \subseteq Providers /\ Fronts \cap Backs = {}
  /\ Providers \subseteq Processes /\ Balancer \in Processes /\ Processes \subseteq Actors
  /\ Clients \subseteq Actors /\ Refreshers \subseteq Actors
  /\ Balancer \notin Providers /\ Balancer \notin Clients /\ Clients \cap Providers = {}
  /\ Clients \cap Processes = {} /\ Refreshers \cap (Clients \cup Processes) = {}
  /\ \A f \in Fronts : Refresher(f) \in Refreshers <=> Mode[f] = "CLIENT"
  /\ \A f \in Fronts : Refresher(f) \notin Processes \cup {None}
  /\ \A r \in Refreshers : \E f \in Fronts : r = Refresher(f)
  /\ \A f, g \in Fronts : Refresher(f) = Refresher(g) => f = g
BY SystemAssumption DEF Actors, Processes, Providers, Refreshers, Refresher

LEMMA RequestFacts ==
  /\ Actors \subseteq Requests /\ Orphans \subseteq Requests
  /\ Orphans \cap Actors = {} /\ None \notin Requests
BY SystemAssumption, ActorFacts DEF Requests

LEMMA OrphanFacts ==
  ASSUME NEW a \in Providers \cup Refreshers
  PROVE  Orphan(a) \in Orphans /\ Orphan(a)[3] = Asks(a)
<1>1. Asks(a) \in {"insertService", "getService", "requestService"}
  BY DEF Asks
<1> QED BY <1>1 DEF Orphan, Orphans

\* The requests of s when those in dead have died.
Leave(s, dead) == [i \in DOMAIN s |-> IF s[i] \in dead THEN Orphan(s[i]) ELSE s[i]]

LEMMA LeaveHas ==
  ASSUME NEW s \in Seq(Requests), NEW dead \in SUBSET (Providers \cup Refreshers)
  PROVE  /\ Leave(s, dead) \in Seq(Requests)
         /\ \A a \in Actors : Has(Leave(s, dead), a) <=> Has(s, a) /\ a \notin dead
         /\ Distinct(s) => Distinct(Leave(s, dead))
         /\ \A r \in Orphans : Has(Leave(s, dead), r) =>
              Has(s, r) \/ \E a \in dead : Has(s, a) /\ r = Orphan(a)
<1> DEFINE t == Leave(s, dead)
<1>1. /\ Len(s) \in Nat /\ DOMAIN s = 1..Len(s)
      /\ \A i \in 1..Len(s) : s[i] \in Requests
  BY LenProperties, ElementOfSeq
<1>2. \A a \in dead : Orphan(a) \in Orphans
  BY OrphanFacts
<1>3. t = [i \in 1..Len(s) |-> IF s[i] \in dead THEN Orphan(s[i]) ELSE s[i]]
  BY <1>1 DEF Leave
<1>4. \A i \in 1..Len(s) : t[i] = IF s[i] \in dead THEN Orphan(s[i]) ELSE s[i]
  BY <1>3
<1>5. \A i \in 1..Len(s) : t[i] \in Requests
  BY <1>1, <1>2, <1>4, RequestFacts
<1>6. t \in Seq(Requests) /\ Len(t) = Len(s)
  <2>1. t \in [1..Len(s) -> Requests]
    BY <1>3, <1>5
  <2> QED BY <1>1, <2>1
<1> HIDE DEF t
<1>7. \A i \in 1..Len(s), a \in Actors : t[i] = a <=> s[i] = a /\ a \notin dead
  BY <1>2, <1>4, RequestFacts
<1>8. \A a \in Actors : Has(t, a) <=> Has(s, a) /\ a \notin dead
  BY <1>6, <1>7 DEF Has
<1>9. ASSUME Distinct(s), NEW i \in 1..Len(t), NEW j \in 1..Len(t), t[i] = t[j], t[i] \in Actors
      PROVE  i = j
  <2>1. s[i] = t[i] /\ s[j] = t[i]
    BY <1>6, <1>7, <1>9
  <2> QED BY <1>6, <1>9, <2>1 DEF Distinct
<1>10. ASSUME NEW r \in Orphans, NEW i \in 1..Len(t), t[i] = r
       PROVE  Has(s, r) \/ \E a \in dead : Has(s, a) /\ r = Orphan(a)
  BY <1>4, <1>6, <1>10 DEF Has
<1> QED BY <1>6, <1>8, <1>9, <1>10 DEF Has, Distinct, t

LEMMA SystemInit == Init => SystemInv
<1> SUFFICES ASSUME Init PROVE SystemInv
  OBVIOUS
<1> USE ActorFacts
<1>1. \A p \in Processes : ~(\E i \in 1..Len(inbox[p]) : TRUE)
  BY DEF Init
<1>2. Kinds
  BY SystemAssumption DEF Init, Kinds
<1>3. Once
  BY <1>1 DEF Init, Once, Has, Distinct
<1>4. Why /\ MutexOwner /\ Whom
  BY DEF Init, Why, MutexOwner, Whom
<1> QED BY <1>2, <1>3, <1>4 DEF SystemInv

\* A request that is sent by one who awaits nobody.
LEMMA AskOnce ==
  ASSUME Kinds, Once, NEW a \in Actors, NEW p \in Processes, asked[a] = None, Ask(a, p), current' = current
  PROVE  Once' /\ inbox' \in [Processes -> Seq(Requests)] /\ asked' \in [Actors -> Processes \cup {None, Gone}]
<1> USE ActorFacts, RequestFacts DEF Kinds
<1>1. asked' = [asked EXCEPT ![a] = p] /\ inbox' = [inbox EXCEPT ![p] = Append(@, a)]
  BY DEF Ask
<1>2. /\ Append(inbox[p], a) \in Seq(Requests)
      /\ \A x : Has(Append(inbox[p], a), x) <=> Has(inbox[p], x) \/ x = a
      /\ Distinct(inbox[p]) /\ ~Has(inbox[p], a) => Distinct(Append(inbox[p], a))
  BY AppendHas
<1>3. \A q \in Processes : ~Has(inbox[q], a) /\ current[q] # a
  BY DEF Once
<1>4. /\ inbox' \in [Processes -> Seq(Requests)] /\ asked' \in [Actors -> Processes \cup {None, Gone}]
      /\ inbox'[p] = Append(inbox[p], a) /\ \A q \in Processes : q # p => inbox'[q] = inbox[q]
      /\ asked'[a] = p /\ \A b \in Actors : b # a => asked'[b] = asked[b]
  BY <1>1, <1>2
<1>5. /\ \A b : Has(inbox'[p], b) <=> Has(inbox[p], b) \/ b = a
      /\ Distinct(inbox'[p])
  <2>1. Distinct(inbox[p]) /\ ~Has(inbox[p], a)
    BY <1>3 DEF Once
  <2> QED BY <1>2, <1>4, <2>1
<1>6. ASSUME NEW q \in Processes PROVE Distinct(inbox'[q])
  <2>1. CASE q = p
    BY <1>5, <2>1
  <2>2. CASE q # p
    BY <1>4, <2>2 DEF Once
  <2> QED BY <2>1, <2>2
<1>7. ASSUME NEW q \in Processes, NEW b \in Actors
      PROVE  /\ asked'[b] = q <=> Has(inbox'[q], b) \/ current[q] = b
             /\ ~(Has(inbox'[q], b) /\ current[q] = b)
  <2>1. /\ asked[b] = q <=> Has(inbox[q], b) \/ current[q] = b
        /\ ~(Has(inbox[q], b) /\ current[q] = b)
    BY DEF Once
  <2>2. ~Has(inbox[q], a) /\ current[q] # a
    BY <1>3
  <2>3. Has(inbox'[q], b) <=> Has(inbox[q], b) \/ (q = p /\ b = a)
    <3>1. CASE q = p
      BY <1>5, <3>1
    <3>2. CASE q # p
      BY <1>4, <3>2
    <3> QED BY <3>1, <3>2
  <2>4. asked'[b] = q <=> IF b = a THEN q = p ELSE asked[b] = q
    BY <1>4
  <2> QED BY <2>1, <2>2, <2>3, <2>4
<1> QED BY <1>4, <1>6, <1>7 DEF Once

\* A handler that returns.
LEMMA ReplyOnce ==
  ASSUME Kinds, Once, NEW p \in Processes, Reply(p), inbox' = inbox, current[p] # None
  PROVE  /\ Once'
         /\ current' \in [Processes -> Requests \cup {None}]
         /\ asked' \in [Actors -> Processes \cup {None, Gone}]
<1> USE ActorFacts DEF Kinds
<1>1. /\ current'[p] = None /\ \A q \in Processes : q # p => current'[q] = current[q]
      /\ \A a \in Actors : asked'[a] = IF a = current[p] THEN None ELSE asked[a]
      /\ current' \in [Processes -> Requests \cup {None}]
      /\ asked' \in [Actors -> Processes \cup {None, Gone}]
  BY DEF Reply
<1>2. ASSUME NEW q \in Processes, NEW a \in Actors
      PROVE  /\ asked'[a] = q <=> Has(inbox[q], a) \/ current'[q] = a
             /\ ~(Has(inbox[q], a) /\ current'[q] = a)
  <2>1. current[p] = a => asked[a] = p /\ ~Has(inbox[p], a)
    BY DEF Once
  <2> QED BY <1>1, <2>1 DEF Once
<1> QED BY <1>1, <1>2 DEF Once

\* The pool takes a request.
LEMMA BeginOnce ==
  ASSUME Kinds, Once, NEW p \in Processes, Begin(p)
  PROVE  /\ Once'
         /\ inbox' \in [Processes -> Seq(Requests)]
         /\ current' \in [Processes -> Requests \cup {None}]
         /\ current'[p] # None
<1> USE ActorFacts, RequestFacts DEF Kinds
<1>1. current[p] = None /\ inbox[p] # <<>> /\ inbox[p] \in Seq(Requests)
  BY DEF Begin
<1>2. /\ Head(inbox[p]) \in Requests /\ Tail(inbox[p]) \in Seq(Requests)
      /\ \A x : Has(inbox[p], x) <=> x = Head(inbox[p]) \/ Has(Tail(inbox[p]), x)
      /\ Distinct(inbox[p]) => Distinct(Tail(inbox[p]))
      /\ Distinct(inbox[p]) /\ Head(inbox[p]) \in Actors => ~Has(Tail(inbox[p]), Head(inbox[p]))
  BY <1>1, TailHas
<1>3. Distinct(inbox[p])
  BY DEF Once
<1>4. /\ current'[p] = Head(inbox[p]) /\ inbox'[p] = Tail(inbox[p])
      /\ \A q \in Processes : q # p => current'[q] = current[q] /\ inbox'[q] = inbox[q]
      /\ inbox' \in [Processes -> Seq(Requests)]
      /\ current' \in [Processes -> Requests \cup {None}]
      /\ asked' = asked
  BY <1>2 DEF Begin
<1>5. ASSUME NEW q \in Processes PROVE Distinct(inbox'[q])
  <2>1. Distinct(Tail(inbox[p])) /\ inbox'[p] = Tail(inbox[p])
    BY <1>2, <1>3, <1>4
  <2>2. CASE q # p
    BY <1>4, <2>2 DEF Once
  <2> QED BY <2>1, <2>2
<1>6. ASSUME NEW q \in Processes, NEW a \in Actors
      PROVE  /\ asked[a] = q <=> Has(inbox'[q], a) \/ current'[q] = a
             /\ ~(Has(inbox'[q], a) /\ current'[q] = a)
  <2>1. /\ asked[a] = q <=> Has(inbox[q], a) \/ current[q] = a
        /\ ~(Has(inbox[q], a) /\ current[q] = a)
    BY DEF Once
  <2>2. CASE q = p
    <3>1. Has(inbox[p], a) <=> a = current'[p] \/ Has(inbox'[p], a)
      BY <1>2, <1>4
    <3>2. ~(Has(inbox'[p], a) /\ current'[p] = a)
      BY <1>2, <1>3, <1>4
    <3> QED BY <1>1, <2>1, <2>2, <3>1, <3>2
  <2>3. CASE q # p
    BY <1>4, <2>1, <2>3
  <2> QED BY <2>2, <2>3
<1> QED BY <1>2, <1>4, <1>5, <1>6 DEF Once

\* A provider dies.
LEMMA CrashOnce ==
  ASSUME Kinds, Once, NEW p \in Providers, Crash(p)
  PROVE  /\ Once'
         /\ inbox' \in [Processes -> Seq(Requests)]
         /\ current' \in [Processes -> Requests \cup {None}]
         /\ asked' \in [Actors -> Processes \cup {None, Gone}]
<1> USE ActorFacts, RequestFacts DEF Kinds
<1> DEFINE dead == {p} \cup (Refreshers \cap {Refresher(p)})
<1>1. PICK reading \in SUBSET {a \in Actors : current[p] = a /\ Returns(p)} :
        asked' = [a \in Actors |->
                   IF a \in dead THEN None
                   ELSE IF asked[a] = p THEN IF a \in reading THEN Gone ELSE None
                   ELSE asked[a]]
  BY Zenon DEF Crash
<1>0. /\ inbox' = [q \in Processes |-> IF q = p THEN <<>> ELSE Leave(inbox[q], dead)]
      /\ current' = [q \in Processes |->
                      IF q = p THEN None
                      ELSE IF current[q] \in dead THEN Orphan(current[q]) ELSE current[q]]
  BY DEF Crash, Leave
<1>9. dead \in SUBSET (Providers \cup Refreshers) /\ dead \subseteq Actors
  OBVIOUS
<1> HIDE DEF dead
<1>10. \A a \in dead : Orphan(a) \in Orphans
  BY <1>9, OrphanFacts
<1>2. ASSUME NEW q \in Processes
      PROVE  /\ Leave(inbox[q], dead) \in Seq(Requests)
             /\ \A a \in Actors : Has(Leave(inbox[q], dead), a) <=> Has(inbox[q], a) /\ a \notin dead
             /\ Distinct(inbox[q]) => Distinct(Leave(inbox[q], dead))
  BY <1>9, LeaveHas
<1>3. <<>> \in Seq(Requests) /\ Distinct(<<>>) /\ \A a : ~Has(<<>>, a)
  <2>1. <<>> \in Seq(Requests) /\ Len(<<>>) = 0 /\ \A i \in 1..0 : FALSE
    OBVIOUS
  <2> QED BY <2>1 DEF Distinct, Has
<1>4. /\ inbox' \in [Processes -> Seq(Requests)]
      /\ current' \in [Processes -> Requests \cup {None}]
      /\ asked' \in [Actors -> Processes \cup {None, Gone}]
  <2>1. inbox' \in [Processes -> Seq(Requests)]
    BY <1>0, <1>2, <1>3
  <2>2. current' \in [Processes -> Requests \cup {None}]
    BY <1>0, <1>10
  <2>3. asked' \in [Actors -> Processes \cup {None, Gone}]
    BY <1>1
  <2> QED BY <2>1, <2>2, <2>3
<1>5. ASSUME NEW q \in Processes PROVE Distinct(inbox'[q])
  <2>1. CASE q = p
    <3>1. inbox'[q] = <<>>
      BY <1>0, <2>1
    <3> QED BY <1>3, <3>1
  <2>2. CASE q # p
    <3>1. inbox'[q] = Leave(inbox[q], dead)
      BY <1>0, <2>2
    <3>2. Distinct(inbox[q])
      BY DEF Once
    <3> QED BY <1>2, <3>1, <3>2
  <2> QED BY <2>1, <2>2
<1>6. ASSUME NEW q \in Processes, NEW a \in Actors
      PROVE  /\ asked'[a] = q <=> Has(inbox'[q], a) \/ current'[q] = a
             /\ ~(Has(inbox'[q], a) /\ current'[q] = a)
  <2>1. /\ asked[a] = q <=> Has(inbox[q], a) \/ current[q] = a
        /\ ~(Has(inbox[q], a) /\ current[q] = a)
        /\ asked[a] = p <=> Has(inbox[p], a) \/ current[p] = a
    BY DEF Once
  <2>2. asked'[a] = q <=> a \notin dead /\ asked[a] # p /\ asked[a] = q
    BY <1>1
  <2>3. CASE q = p
    <3>1. inbox'[q] = <<>> /\ current'[q] = None
      BY <1>0, <2>3
    <3>2. ~Has(inbox'[q], a)
      BY <1>3, <3>1
    <3> QED BY <2>2, <2>3, <3>1, <3>2
  <2>4. CASE q # p
    <3>1. inbox'[q] = Leave(inbox[q], dead)
      BY <1>0, <2>4
    <3>2. Has(inbox'[q], a) <=> Has(inbox[q], a) /\ a \notin dead
      BY <1>2, <3>1
    <3>3. current'[q] = a <=> current[q] = a /\ a \notin dead
      BY <1>0, <1>10, <2>4
    <3> QED BY <2>1, <2>2, <2>4, <3>2, <3>3
  <2> QED BY <2>3, <2>4
<1> QED BY <1>4, <1>5, <1>6 DEF Once
-----------------------------------------------------------------------------
(***************************************************************************)
(* One lemma per action: it keeps the invariant.                           *)
(***************************************************************************)
LEMMA StepCall ==
  ASSUME SystemInv, NEW c \in Clients, Call(c)
  PROVE  SystemInv'
<1> USE ActorFacts DEF SystemInv
<1>1. PICK p \in Targets(c) : Ask(c, p)
  BY DEF Call
<1>2. p \in Processes /\ asked[c] = None
  BY <1>1 DEF Call, Targets, Service
<1>3. Once' /\ inbox' \in [Processes -> Seq(Requests)] /\ asked' \in [Actors -> Processes \cup {None, Gone}]
  BY <1>1, <1>2, AskOnce DEF Call
<1>4. /\ \A a \in Actors \ {c} : asked'[a] = asked[a]
      /\ \A a \in Processes \cup Refreshers : a \in Actors \ {c}
  BY <1>1 DEF Ask, Kinds
<1>5. Kinds' /\ Why' /\ MutexOwner' /\ Whom'
  BY <1>3, <1>4 DEF Call, Kinds, Why, MutexOwner, Whom
<1> QED BY <1>3, <1>5

LEMMA StepRefresh ==
  ASSUME SystemInv, NEW f \in Fronts, Refresh(f)
  PROVE  SystemInv'
<1> USE ActorFacts DEF SystemInv
<1>1. Refresher(f) \in Refreshers /\ Refresher(f) \in Actors /\ asked[Refresher(f)] = None
  BY DEF Refresh, Why, Kinds
<1>2. Once' /\ inbox' \in [Processes -> Seq(Requests)] /\ asked' \in [Actors -> Processes \cup {None, Gone}]
  BY <1>1, AskOnce DEF Refresh
<1>3. /\ asked'[Refresher(f)] = Balancer
      /\ \A a \in Actors : a # Refresher(f) => asked'[a] = asked[a]
      /\ \A p \in Processes : p \in Actors /\ p # Refresher(f)
      /\ rpcMutex'[f] = Refresher(f) /\ DOMAIN rpcMutex' = Fronts
      /\ \A g \in Fronts : g # f => rpcMutex'[g] = rpcMutex[g]
      /\ rpcMutex[f] = None
  BY <1>1 DEF Refresh, Ask, Kinds
<1>4. Kinds'
  BY <1>2, <1>3 DEF Refresh, Kinds
<1>5. Why'
  BY <1>1, <1>3 DEF Refresh, Kinds, Why
<1>6. MutexOwner'
  BY <1>1, <1>3 DEF Refresh, Kinds, MutexOwner
<1>7. Whom'
  BY <1>1, <1>3 DEF Refresh, Kinds, Whom
<1> QED BY <1>2, <1>4, <1>5, <1>6, <1>7

LEMMA StepRefreshEnd ==
  ASSUME SystemInv, NEW f \in Fronts, RefreshEnd(f)
  PROVE  SystemInv'
<1> USE ActorFacts DEF SystemInv
<1>1. /\ rpcMutex'[f] = None /\ DOMAIN rpcMutex' = Fronts
      /\ \A g \in Fronts : g # f => rpcMutex'[g] = rpcMutex[g]
      /\ Refresher(f) # f /\ rpcMutex[f] = Refresher(f) /\ asked[Refresher(f)] = None
  BY DEF RefreshEnd, Kinds, MutexOwner
<1>2. Kinds' /\ Once' /\ Whom'
  BY <1>1 DEF RefreshEnd, Kinds, Once, Whom
<1>3. Why' /\ MutexOwner'
  BY <1>1 DEF RefreshEnd, Kinds, Why, MutexOwner
<1> QED BY <1>2, <1>3

LEMMA StepNestedCall ==
  ASSUME SystemInv, NEW f \in Fronts, NestedCall(f)
  PROVE  SystemInv'
<1> USE ActorFacts DEF SystemInv
<1>1. PICK p \in Targets(f) : Ask(f, p)
  BY DEF NestedCall
<1>2. /\ p \in Processes /\ f \in Processes /\ f \in Actors
      /\ Mode[f] = "SERVER" => p = Balancer
      /\ Mode[f] # "SERVER" => p \in Backs \cap listed
  BY <1>1 DEF Targets, Service
<1>3. current[f] # None /\ step[f] = "start" /\ status[f] = "serving" /\ asked[f] = None
  BY DEF NestedCall, Why, Kinds
<1>4. Once' /\ inbox' \in [Processes -> Seq(Requests)] /\ asked' \in [Actors -> Processes \cup {None, Gone}]
  BY <1>1, <1>2, <1>3, AskOnce DEF NestedCall
<1>5. /\ asked'[f] = p /\ \A a \in Actors : a # f => asked'[a] = asked[a]
      /\ step'[f] = "called" /\ \A q \in Processes : q # f => step'[q] = step[q]
      /\ step' \in [Processes -> {"start", "called"}]
      /\ rpcMutex'[f] = f /\ \A g \in Fronts : g # f => rpcMutex'[g] = rpcMutex[g]
      /\ DOMAIN rpcMutex' = Fronts
      /\ rpcMutex[f] = None
  BY <1>1, <1>2 DEF NestedCall, Ask, Kinds
<1>6. Kinds'
  BY <1>4, <1>5 DEF NestedCall, Kinds
<1>7. Why'
  BY <1>2, <1>3, <1>5 DEF NestedCall, Kinds, Why
<1>8. MutexOwner'
  BY <1>2, <1>3, <1>5 DEF NestedCall, Kinds, MutexOwner
<1>9. Whom'
  <2>1. \A r \in Refreshers : asked'[r] = asked[r] /\ r # Balancer
    BY <1>2, <1>5
  <2>2. \A q \in Processes : q # f => asked'[q] = asked[q]
    BY <1>5
  <2>3. asked'[f] = Balancer => Mode[f] = "SERVER"
    BY <1>2, <1>5
  <2>4. asked'[f] \notin {None, Gone, Balancer} => asked'[f] \in Backs \cap listed
    BY <1>2, <1>5
  <2>5. \A q \in Providers : asked'[q] = Balancer =>
          status'[q] = "registering" \/ (q \in Fronts /\ Mode[q] = "SERVER")
    BY <2>2, <2>3 DEF NestedCall, Whom
  <2>6. \A q \in Providers : asked'[q] \notin {None, Gone, Balancer} =>
          q \in Fronts /\ asked'[q] \in Backs \cap listed
    BY <2>2, <2>4 DEF Whom
  <2>7. asked'[Balancer] = asked[Balancer]
    BY <2>2
  <2> QED BY <2>1, <2>5, <2>6, <2>7 DEF NestedCall, Whom
<1> QED BY <1>4, <1>6, <1>7, <1>8, <1>9

LEMMA StepBegin ==
  ASSUME SystemInv, NEW p \in Processes, Begin(p)
  PROVE  SystemInv'
<1> USE ActorFacts DEF SystemInv
<1>1. /\ Once'
      /\ inbox' \in [Processes -> Seq(Requests)]
      /\ current' \in [Processes -> Requests \cup {None}]
      /\ current'[p] # None
  BY BeginOnce
<1>2. /\ \A q \in Processes : q # p => current'[q] = current[q] /\ step'[q] = step[q]
      /\ step'[p] = "start" /\ step' \in [Processes -> {"start", "called"}]
      /\ current[p] = None
      /\ p # Balancer => status[p] = "serving"
  BY DEF Begin, Kinds
<1>3. Kinds'
  BY <1>1, <1>2 DEF Begin, Kinds
<1>4. Why'
  BY <1>1, <1>2 DEF Begin, Kinds, Why
<1>5. MutexOwner' /\ Whom'
  BY <1>1, <1>2 DEF Begin, Kinds, MutexOwner, Whom
<1> QED BY <1>1, <1>3, <1>4, <1>5

\* What Reply leaves alone.
LEMMA ReplyFrame ==
  ASSUME Kinds, NEW p \in Processes, Reply(p)
  PROVE  /\ current'[p] = None
         /\ \A q \in Processes : q # p => current'[q] = current[q]
         /\ \A a \in Actors : asked'[a] \in {None, asked[a]}
BY ActorFacts DEF Reply, Kinds

LEMMA StepFinish ==
  ASSUME SystemInv, NEW p \in Providers, Finish(p)
  PROVE  SystemInv'
<1> USE ActorFacts DEF SystemInv
<1>1. p \in Processes /\ current[p] # None /\ Reply(p) /\ inbox' = inbox
  BY DEF Finish, Returns
<1>2. Once' /\ current' \in [Processes -> Requests \cup {None}] /\ asked' \in [Actors -> Processes \cup {None, Gone}]
  BY <1>1, ReplyOnce
<1>3. /\ current'[p] = None
      /\ \A q \in Processes : q # p => current'[q] = current[q]
      /\ \A a \in Actors : asked'[a] \in {None, asked[a]}
  BY <1>1, ReplyFrame
<1>4. asked[p] = None
  BY <1>1 DEF Finish, Returns, Why, Kinds
<1>5. /\ DOMAIN rpcMutex' = Fronts
      /\ \A f \in Fronts : f # p => rpcMutex'[f] = rpcMutex[f]
      /\ p \in Fronts => rpcMutex'[p] # p /\ rpcMutex'[p] \in {None, rpcMutex[p]}
      /\ p \in Fronts /\ Refresher(p) \in Refreshers /\ rpcMutex[p] = Refresher(p) => rpcMutex'[p] = Refresher(p)
  <2>2. p \in Fronts => p # None /\ (rpcMutex[p] = p <=> step[p] = "called")
    BY <1>1 DEF MutexOwner
  <2>3. p \in Fronts /\ Refresher(p) \in Refreshers /\ rpcMutex[p] = Refresher(p) => step[p] # "called"
    BY <2>2
  <2>4. rpcMutex' = [f \in Fronts |-> IF f = p /\ step[p] = "called" THEN None ELSE rpcMutex[f]]
    BY DEF Finish
  <2> QED BY <2>2, <2>3, <2>4
<1>6. Kinds'
  BY <1>2, <1>5 DEF Finish, Kinds
<1>7. Why'
  BY <1>3, <1>4, <1>5 DEF Finish, Kinds, Why
<1>8. MutexOwner'
  BY <1>3, <1>5 DEF Finish, Kinds, MutexOwner
<1>9. Whom'
  BY <1>3 DEF Finish, Kinds, Whom
<1> QED BY <1>2, <1>6, <1>7, <1>8, <1>9

LEMMA StepAnswer ==
  ASSUME SystemInv, Answer
  PROVE  SystemInv'
<1> USE ActorFacts DEF SystemInv
<1>1. current[Balancer] # None /\ Reply(Balancer) /\ inbox' = inbox
  BY DEF Answer
<1>2. Once' /\ current' \in [Processes -> Requests \cup {None}] /\ asked' \in [Actors -> Processes \cup {None, Gone}]
  BY <1>1, ReplyOnce
<1>3. /\ current'[Balancer] = None
      /\ \A q \in Processes : q # Balancer => current'[q] = current[q]
      /\ \A a \in Actors : asked'[a] \in {None, asked[a]}
  BY <1>1, ReplyFrame
<1>4. asked[Balancer] = None
  BY <1>1 DEF Answer, Why, Kinds
<1>5. table' \subseteq listed' /\ listed \subseteq listed' /\ listed' \subseteq Providers
  BY DEF Answer, Kinds
<1>6. Kinds'
  BY <1>2, <1>5 DEF Answer, Kinds
<1>7. Why' /\ MutexOwner'
  BY <1>3, <1>4 DEF Answer, Kinds, Why, MutexOwner
<1>8. Whom'
  BY <1>3, <1>5 DEF Answer, Kinds, Whom
<1> QED BY <1>2, <1>6, <1>7, <1>8

LEMMA StepForward ==
  ASSUME SystemInv, Forward
  PROVE  SystemInv'
<1> USE ActorFacts DEF SystemInv
<1>1. PICK p \in table \cap Service(Sender(current[Balancer])) :
        IF p \in Up
        THEN /\ Ask(Balancer, p)
             /\ step' = [step EXCEPT ![Balancer] = "called"]
             /\ UNCHANGED table
        ELSE /\ table' = table \ {p}
             /\ UNCHANGED <<asked, inbox, step>>
  BY DEF Forward
<1>2. p \in listed /\ p \in Processes
  BY DEF Kinds
<1>3. current[Balancer] # None /\ asked[Balancer] = None
  BY DEF Forward, Why, Kinds
<1>4. CASE p \in Up
  <2>1. Once' /\ inbox' \in [Processes -> Seq(Requests)] /\ asked' \in [Actors -> Processes \cup {None, Gone}]
    BY <1>1, <1>2, <1>3, <1>4, AskOnce DEF Forward
  <2>2. /\ asked'[Balancer] = p /\ \A a \in Actors : a # Balancer => asked'[a] = asked[a]
        /\ step'[Balancer] = "called" /\ \A q \in Processes : q # Balancer => step'[q] = step[q]
        /\ step' \in [Processes -> {"start", "called"}]
    <3>1. asked' = [asked EXCEPT ![Balancer] = p] /\ step' = [step EXCEPT ![Balancer] = "called"]
      BY <1>1, <1>4 DEF Ask
    <3> QED BY <3>1 DEF Kinds
  <2>3. Kinds'
    BY <1>1, <1>4, <2>1, <2>2 DEF Forward, Kinds
  <2>4. Why' /\ MutexOwner'
    BY <1>3, <2>2 DEF Forward, Kinds, Why, MutexOwner
  <2>5. Whom'
    <3>1. \A a \in Providers \cup Refreshers : asked'[a] = asked[a]
      BY <2>2
    <3>2. asked'[Balancer] \in {None, Gone} \cup listed
      BY <1>2, <2>2
    <3> QED BY <3>1, <3>2 DEF Forward, Whom
  <2> QED BY <2>1, <2>3, <2>4, <2>5
<1>5. CASE p \notin Up
  <2>1. Kinds'
    BY <1>1, <1>5 DEF Forward, Kinds
  <2>2. Once' /\ Why' /\ MutexOwner' /\ Whom'
    BY <1>1, <1>5 DEF Forward, Once, Why, MutexOwner, Whom
  <2> QED BY <2>1, <2>2
<1> QED BY <1>4, <1>5

LEMMA StepForwardEnd ==
  ASSUME SystemInv, ForwardEnd
  PROVE  SystemInv'
<1> USE ActorFacts DEF SystemInv
<1>1. current[Balancer] # None /\ Reply(Balancer) /\ inbox' = inbox
  BY DEF ForwardEnd
<1>2. Once' /\ current' \in [Processes -> Requests \cup {None}] /\ asked' \in [Actors -> Processes \cup {None, Gone}]
  BY <1>1, ReplyOnce
<1>3. /\ current'[Balancer] = None
      /\ \A q \in Processes : q # Balancer => current'[q] = current[q]
      /\ \A a \in Actors : asked'[a] \in {None, asked[a]}
  BY <1>1, ReplyFrame
<1>4. asked[Balancer] = None
  BY <1>1 DEF ForwardEnd, Why, Kinds
<1>5. Kinds'
  BY <1>2 DEF ForwardEnd, Kinds
<1>6. Why' /\ MutexOwner'
  BY <1>3, <1>4 DEF ForwardEnd, Kinds, Why, MutexOwner
<1>7. Whom'
  BY <1>3 DEF ForwardEnd, Kinds, Whom
<1> QED BY <1>2, <1>5, <1>6, <1>7

LEMMA StepStart ==
  ASSUME SystemInv, NEW p \in Providers, Start(p)
  PROVE  SystemInv'
<1> USE ActorFacts DEF SystemInv
<1>1. p \in Actors /\ p \in Processes /\ status[p] = "down" /\ current[p] = None /\ asked[p] = None
  BY DEF Start, Why, Kinds
<1>2. Once' /\ inbox' \in [Processes -> Seq(Requests)] /\ asked' \in [Actors -> Processes \cup {None, Gone}]
  BY <1>1, AskOnce DEF Start
<1>3. /\ asked'[p] = Balancer /\ \A a \in Actors : a # p => asked'[a] = asked[a]
      /\ status'[p] = "registering" /\ \A q \in Providers : q # p => status'[q] = status[q]
      /\ status' \in [Providers -> {"down", "registering", "serving"}]
  BY <1>1 DEF Start, Ask, Kinds
<1>4. Kinds'
  BY <1>2, <1>3 DEF Start, Kinds
<1>5. Why'
  BY <1>1, <1>3 DEF Start, Kinds, Why
<1>6. MutexOwner'
  BY DEF Start, MutexOwner
<1>7. Whom'
  <2>1. \A a \in Refreshers \cup {Balancer} : asked'[a] = asked[a]
    BY <1>1, <1>3
  <2>2. \A q \in Providers : q # p => asked'[q] = asked[q] /\ status'[q] = status[q]
    BY <1>3
  <2> QED BY <1>3, <2>1, <2>2 DEF Start, Whom
<1> QED BY <1>2, <1>4, <1>5, <1>6, <1>7

LEMMA StepAccept ==
  ASSUME SystemInv, NEW p \in Providers, Accept(p)
  PROVE  SystemInv'
<1> USE ActorFacts DEF SystemInv
<1>1. /\ status'[p] = "serving" /\ \A q \in Providers : q # p => status'[q] = status[q]
      /\ status' \in [Providers -> {"down", "registering", "serving"}]
      /\ asked[p] = None
  BY DEF Accept, Kinds
<1>2. Kinds' /\ Once' /\ MutexOwner'
  BY <1>1 DEF Accept, Kinds, Once, MutexOwner
<1>3. Why' /\ Whom'
  BY <1>1 DEF Accept, Kinds, Why, Whom
<1> QED BY <1>2, <1>3

LEMMA StepCrash ==
  ASSUME SystemInv, NEW p \in Providers, Crash(p)
  PROVE  SystemInv'
<1> USE ActorFacts DEF SystemInv
<1>1. /\ Once'
      /\ inbox' \in [Processes -> Seq(Requests)]
      /\ current' \in [Processes -> Requests \cup {None}]
      /\ asked' \in [Actors -> Processes \cup {None, Gone}]
  BY CrashOnce
<1>2. /\ \A a \in Actors : asked'[a] \in {None, asked[a]} \/ (asked'[a] = Gone /\ asked[a] = p)
      /\ asked'[p] = None /\ (Refresher(p) \in Refreshers => asked'[Refresher(p)] = None)
      /\ asked'[Balancer] # None => step' = step
  BY DEF Crash, Kinds
<1>3. /\ current'[p] = None
      /\ \A q \in Processes : q # p => (current'[q] = None <=> current[q] = None)
  <2>1. \A a \in {p} \cup (Refreshers \cap {Refresher(p)}) : a # None /\ Orphan(a) # None
    BY OrphanFacts, RequestFacts
  <2> QED BY <2>1 DEF Crash, Kinds
<1>4. /\ status'[p] = "down" /\ \A q \in Providers : q # p => status'[q] = status[q]
      /\ status' \in [Providers -> {"down", "registering", "serving"}]
      /\ DOMAIN rpcMutex' = Fronts
      /\ \A f \in Fronts : rpcMutex'[f] = IF f = p THEN None ELSE rpcMutex[f]
      /\ step' \in [Processes -> {"start", "called"}]
      /\ \A q \in Providers : step'[q] = step[q]
  BY DEF Crash, Kinds
<1>5. Kinds'
  <2>1. crashes' \in 0..MaxCrashes
    BY SystemAssumption DEF Crash, Kinds
  <2>2. table' = table /\ listed' = listed
    BY DEF Crash
  <2> QED BY <1>1, <1>4, <2>1, <2>2 DEF Kinds
<1>6. Why'
  BY <1>2, <1>3, <1>4 DEF Crash, Kinds, Why
<1>7. MutexOwner'
  BY <1>3, <1>4 DEF Crash, Kinds, MutexOwner
<1>8. Whom'
  BY <1>2, <1>4 DEF Crash, Kinds, Whom
<1> QED BY <1>1, <1>5, <1>6, <1>7, <1>8

LEMMA SystemStep == SystemInv /\ [Next]_vars => SystemInv'
<1> SUFFICES ASSUME SystemInv, [Next]_vars PROVE SystemInv'
  OBVIOUS
<1>1. CASE \E c \in Clients : Call(c)
  BY <1>1, StepCall
<1>2. CASE \E f \in Fronts : Refresh(f) \/ RefreshEnd(f) \/ NestedCall(f)
  BY <1>2, StepRefresh, StepRefreshEnd, StepNestedCall
<1>3. CASE \E p \in Processes : Handler(p)
  BY <1>3, StepBegin, StepFinish DEF Handler
<1>4. CASE Balancing
  BY <1>4, StepAnswer, StepForward, StepForwardEnd DEF Balancing
<1>5. CASE \E p \in Providers : Start(p) \/ Accept(p) \/ Crash(p)
  BY <1>5, StepStart, StepAccept, StepCrash
<1>6. CASE UNCHANGED vars
  BY <1>6 DEF vars, SystemInv, Kinds, Once, Why, MutexOwner, Whom
<1> QED BY <1>1, <1>2, <1>3, <1>4, <1>5, <1>6 DEF Next

LEMMA SystemAlways == Spec => []SystemInv
BY SystemInit, SystemStep, PTL DEF Spec
-----------------------------------------------------------------------------
LEMMA InvTypeOK == SystemInv => TypeOK
<1> SUFFICES ASSUME SystemInv PROVE TypeOK
  OBVIOUS
<1> USE ActorFacts DEF SystemInv
<1>1. ASSUME NEW p \in Processes, NEW a \in Actors
      PROVE  LET waiting == {i \in 1..Len(inbox[p]) : inbox[p][i] = a}
             IN  Cardinality(waiting) + (IF current[p] = a THEN 1 ELSE 0) = IF asked[a] = p THEN 1 ELSE 0
  <2> DEFINE waiting == {i \in 1..Len(inbox[p]) : inbox[p][i] = a}
  <2>1. /\ asked[a] = p <=> Has(inbox[p], a) \/ current[p] = a
        /\ ~(Has(inbox[p], a) /\ current[p] = a)
        /\ Distinct(inbox[p])
    BY DEF Once
  <2>2. Cardinality(waiting) = IF Has(inbox[p], a) THEN 1 ELSE 0
    <3>1. CASE Has(inbox[p], a)
      <4>1. PICK i \in 1..Len(inbox[p]) : inbox[p][i] = a
        BY <3>1 DEF Has
      <4>2. waiting = {i}
        BY <2>1, <4>1 DEF Distinct
      <4> HIDE DEF waiting
      <4> QED BY <3>1, <4>2, FS_Singleton
    <3>2. CASE ~Has(inbox[p], a)
      <4>1. waiting = {}
        BY <3>2 DEF Has
      <4> HIDE DEF waiting
      <4> QED BY <3>2, <4>1, FS_EmptySet
    <3> QED BY <3>1, <3>2
  <2> HIDE DEF waiting
  <2>3. Cardinality(waiting) + (IF current[p] = a THEN 1 ELSE 0) = IF asked[a] = p THEN 1 ELSE 0
    BY <2>1, <2>2
  <2> QED BY <2>3 DEF waiting
<1>2. \A f \in Fronts : rpcMutex[f] \in {None, f} \cup ({Refresher(f)} \cap Refreshers)
  BY DEF MutexOwner
<1> QED BY <1>1, <1>2 DEF Kinds, Requests, TypeOK

\* Every variable keeps its type, and an actor awaits a process exactly when it
\* has one request of its own there, waiting or under way: through calls that
\* providers make themselves, answers, registrations, crashes and the requests
\* that dead processes leave behind, no request is forgotten and none is
\* answered twice.
THEOREM SystemTypes == Spec => []TypeOK
BY SystemAlways, InvTypeOK, PTL

-----------------------------------------------------------------------------
(***************************************************************************)
(* Deadlocks: whoever waits, for a lock or an answer, ends at the balancer *)
(* or at one that waits for nobody.                                        *)
(***************************************************************************)
\* The members of a deadlock, and whom each of them waits for.
LEMMA MembersWait ==
  ASSUME SystemInv, NEW S \in Deadlocks
  PROVE  /\ S \subseteq Processes \cup Refreshers /\ S # {}
         /\ \A r \in S \cap Refreshers : Balancer \in S
         /\ \A b \in S \cap Backs : asked[b] = Balancer /\ Balancer \in S /\ status[b] = "registering"
         /\ \A f \in S \cap Fronts :
              \/ asked[f] = Balancer /\ Balancer \in S
              \/ asked[f] \in S \cap Backs \cap listed
              \/ rpcMutex[f] = Refresher(f) /\ Refresher(f) \in S \cap Refreshers
         /\ Balancer \in S => asked[Balancer] \in S \cap listed
<1> USE ActorFacts DEF SystemInv
<1>1. /\ S \subseteq Processes \cup Refreshers /\ S # {} /\ S \subseteq Actors
      /\ None \notin S /\ Gone \notin S
      /\ \A a \in S : WaitsFor(a) \in S
  BY DEF Deadlocks
<1>2. \A a \in S : a \notin Fronts => asked[a] # None /\ asked[a] \in S
  BY <1>1 DEF WaitsFor
<1>3. \A r \in S \cap Refreshers : Balancer \in S
  BY <1>2 DEF Whom
<1>4. \A b \in S \cap Backs : asked[b] = Balancer /\ Balancer \in S /\ status[b] = "registering"
  BY <1>1, <1>2 DEF Whom
<1>5. ASSUME NEW f \in S \cap Fronts
      PROVE  \/ asked[f] = Balancer /\ Balancer \in S
             \/ asked[f] \in S \cap Backs \cap listed
             \/ rpcMutex[f] = Refresher(f) /\ Refresher(f) \in S \cap Refreshers
  <2>1. CASE asked[f] # None
    BY <1>1, <2>1 DEF WaitsFor, Whom
  <2>2. CASE asked[f] = None
    <3>1. rpcMutex[f] \in S /\ current[f] # None /\ step[f] = "start"
      BY <1>1, <2>2 DEF WaitsFor
    <3>2. rpcMutex[f] # f /\ rpcMutex[f] # None
      BY <1>1, <3>1 DEF MutexOwner
    <3> QED BY <3>1, <3>2 DEF MutexOwner
  <2> QED BY <2>1, <2>2
<1>6. Balancer \in S => asked[Balancer] \in S \cap listed
  BY <1>1, <1>2 DEF Whom
<1> QED BY <1>1, <1>3, <1>4, <1>5, <1>6

LEMMA InvDeadlocksKnown == SystemInv => DeadlocksKnown
<1> SUFFICES ASSUME SystemInv, NEW S \in Deadlocks
             PROVE  /\ {Balancer, asked[Balancer]} \subseteq S
                    /\ \E p \in S \cap Providers :
                         \/ status[p] = "registering" /\ p \in listed
                         \/ p \in Fronts /\ Mode[p] = "SERVER" /\ asked[p] = Balancer
                         \/ p \in Fronts /\ rpcMutex[p] = Refresher(p)
  BY DEF DeadlocksKnown
<1> USE ActorFacts
<1>1. /\ S \subseteq Processes \cup Refreshers /\ S # {}
      /\ \A r \in S \cap Refreshers : Balancer \in S
      /\ \A b \in S \cap Backs : asked[b] = Balancer /\ Balancer \in S /\ status[b] = "registering"
      /\ \A f \in S \cap Fronts :
           \/ asked[f] = Balancer /\ Balancer \in S
           \/ asked[f] \in S \cap Backs \cap listed
           \/ rpcMutex[f] = Refresher(f) /\ Refresher(f) \in S \cap Refreshers
      /\ Balancer \in S => asked[Balancer] \in S \cap listed
  BY MembersWait
<1>2. Balancer \in S
  <2>1. PICK a \in S : a \in Refreshers \cup Backs \cup Fronts \cup {Balancer}
    BY <1>1 DEF Processes, Providers
  <2>2. CASE a \in Fronts
    BY <1>1, <2>2
  <2> QED BY <1>1, <2>1, <2>2
<1>3. asked[Balancer] \in S \cap listed \cap (Fronts \cup Backs)
  BY <1>1, <1>2 DEF SystemInv, Kinds, Providers
<1>4. CASE asked[Balancer] \in Backs
  BY <1>1, <1>2, <1>3, <1>4
<1>5. CASE asked[Balancer] \in Fronts
  <2> DEFINE f == asked[Balancer]
  <2>1. CASE asked[f] = Balancer
    BY <1>2, <1>3, <1>5, <2>1 DEF SystemInv, Whom
  <2>2. CASE asked[f] \in S \cap Backs \cap listed
    BY <1>1, <1>2, <1>3, <2>2
  <2>3. CASE rpcMutex[f] = Refresher(f)
    BY <1>2, <1>3, <1>5, <2>3
  <2> QED BY <1>1, <1>3, <1>5, <2>1, <2>2, <2>3
<1> QED BY <1>3, <1>4, <1>5

\* Whatever clients and providers there are and however they call, a deadlock
\* has the balancer's handler in it, waiting for a provider, and it has a listed
\* provider that registers again, a handler that calls through the balancer, or
\* one that waits for the mutex its refresh thread has: there is no other way.
THEOREM DeadlocksAreKnown == Spec => []DeadlocksKnown
BY SystemAlways, InvDeadlocksKnown, PTL

-----------------------------------------------------------------------------
(***************************************************************************)
(* The balancer as a directory only.                                       *)
(***************************************************************************)
Direct == \A a \in Clients \cup Fronts : Mode[a] # "SERVER"

DeadlockFree == Deadlocks = {}

\* Then no client awaits it, it awaits nobody, and no process that died asked it
\* for more than a list or a registration.
Unasked ==
  /\ asked[Balancer] = None /\ \A c \in Clients : asked[c] # Balancer
  /\ \A r \in Orphans : r[3] = "requestService" => ~Has(inbox[Balancer], r) /\ current[Balancer] # r

LEMMA NoForward ==
  ASSUME Direct, SystemInv, Unasked, current[Balancer] # None
  PROVE  Content(current[Balancer]) # "requestService"
<1> USE ActorFacts
<1> DEFINE a == current[Balancer]
<1>1. a \in Requests
  BY DEF SystemInv, Kinds
<1>2. CASE a \in Orphans
  BY <1>2 DEF Unasked, Content
<1>3. CASE a \in Actors
  <2>1. asked[a] = Balancer
    BY <1>3 DEF SystemInv, Once
  <2>2. a \in Refreshers \/ (a \in Providers /\ status[a] = "registering")
    BY <1>3, <2>1 DEF Direct, Unasked, SystemInv, Whom, Actors, Processes
  <2> QED BY <1>3, <2>2, RequestFacts DEF Asks, Content
<1> QED BY <1>1, <1>2, <1>3 DEF Requests

\* Who waits: no client for the balancer, and not the balancer.
NoClient == asked[Balancer] = None /\ \A c \in Clients : asked[c] # Balancer

\* What the dead have asked.
NoOrphan ==
  \A r \in Orphans : r[3] = "requestService" => ~Has(inbox[Balancer], r) /\ current[Balancer] # r

LEMMA DirectClients ==
  ASSUME Direct, SystemInv, Unasked, [Next]_vars
  PROVE  NoClient'
<1> USE ActorFacts DEF Unasked, NoClient
<1>1. asked \in [Actors -> Processes \cup {None, Gone}]
  BY DEF SystemInv, Kinds
<1>2. ASSUME NEW c \in Clients, Call(c) PROVE NoClient'
  <2>1. PICK p \in Targets(c) : Ask(c, p)
    BY <1>2 DEF Call
  <2>2. p \in Providers
    BY <2>1 DEF Targets, Direct, Service
  <2> QED BY <1>1, <2>1, <2>2 DEF Ask
<1>3. ASSUME NEW f \in Fronts, Refresh(f) PROVE NoClient'
  <2>1. Ask(Refresher(f), Balancer) /\ Refresher(f) \notin Clients \cup {Balancer}
    BY <1>3 DEF Refresh
  <2> QED BY <1>1, <2>1 DEF Ask
<1>4. ASSUME NEW f \in Fronts, NestedCall(f) PROVE NoClient'
  <2>1. PICK p \in Targets(f) : Ask(f, p)
    BY <1>4 DEF NestedCall
  <2>2. f \notin Clients \cup {Balancer}
    OBVIOUS
  <2> QED BY <1>1, <2>1, <2>2 DEF Ask
<1>5. ASSUME NEW p \in Providers, Start(p) PROVE NoClient'
  <2>1. Ask(p, Balancer) /\ p \notin Clients \cup {Balancer}
    BY <1>5 DEF Start
  <2> QED BY <1>1, <2>1 DEF Ask
<1>6. ~Forward
  BY NoForward DEF Forward
<1>7. ASSUME \A a \in Actors : asked'[a] \in {None, asked[a]} PROVE NoClient'
  BY <1>7
<1>8. ASSUME NEW p \in Processes, Handler(p) \/ Answer \/ ForwardEnd PROVE NoClient'
  <2>1. \A a \in Actors : asked'[a] \in {None, asked[a]}
    BY <1>1, <1>8 DEF Handler, Begin, Finish, Answer, ForwardEnd, Reply
  <2> QED BY <1>7, <2>1
<1>9. ASSUME NEW p \in Providers, Accept(p) PROVE NoClient'
  BY <1>9 DEF Accept
<1>10. ASSUME NEW p \in Providers, Crash(p) PROVE NoClient'
  <2>1. \A a \in Actors : asked'[a] \in {None, asked[a]} \/ (asked'[a] = Gone /\ asked[a] = p)
    BY <1>1, <1>10 DEF Crash
  <2>2. Gone # Balancer
    OBVIOUS
  <2>3. asked'[Balancer] = None
    BY <2>1
  <2>4. \A c \in Clients : asked'[c] # Balancer
    BY <2>1, <2>2
  <2> QED BY <2>3, <2>4
<1>11. CASE UNCHANGED vars \/ \E f \in Fronts : RefreshEnd(f)
  BY <1>11 DEF vars, RefreshEnd
<1> QED BY <1>2, <1>3, <1>4, <1>5, <1>6, <1>8, <1>9, <1>10, <1>11 DEF Next, Balancing

LEMMA DirectOrphans ==
  ASSUME Direct, SystemInv, Unasked, [Next]_vars
  PROVE  NoOrphan'
<1> USE ActorFacts, RequestFacts DEF Unasked
<1>1. /\ inbox \in [Processes -> Seq(Requests)]
      /\ current \in [Processes -> Requests \cup {None}]
  BY DEF SystemInv, Kinds
<1>2. ASSUME NEW r \in Orphans, r[3] = "requestService"
      PROVE  ~Has(inbox[Balancer], r) /\ current[Balancer] # r /\ r # None
  BY <1>2
<1>3. ASSUME \A r \in Orphans : Has(inbox'[Balancer], r) \/ current'[Balancer] = r =>
               Has(inbox[Balancer], r) \/ current[Balancer] = r
      PROVE  NoOrphan'
  BY <1>2, <1>3 DEF NoOrphan
<1>4. ASSUME NEW a \in Actors, NEW p \in Processes, Ask(a, p), current' = current PROVE NoOrphan'
  <2>1. \A x : Has(Append(inbox[p], a), x) <=> Has(inbox[p], x) \/ x = a
    BY <1>1, AppendHas
  <2>2. inbox'[Balancer] = IF p = Balancer THEN Append(inbox[p], a) ELSE inbox[Balancer]
    BY <1>1, <1>4 DEF Ask
  <2>3. \A r \in Orphans : Has(inbox'[Balancer], r) => Has(inbox[Balancer], r)
    BY <2>1, <2>2
  <2> QED BY <1>3, <1>4, <2>3
<1>5. ASSUME NEW a \in Clients \cup Fronts, Call(a) \/ NestedCall(a) PROVE NoOrphan'
  <2>1. PICK p \in Targets(a) : Ask(a, p)
    BY <1>5 DEF Call, NestedCall
  <2>2. p \in Processes /\ a \in Actors /\ current' = current
    BY <1>5, <2>1 DEF Targets, Service, Call, NestedCall
  <2> QED BY <1>4, <2>1, <2>2
<1>6. ASSUME NEW f \in Fronts, Refresh(f) PROVE NoOrphan'
  BY <1>4, <1>6 DEF Refresh
<1>7. ASSUME NEW p \in Providers, Start(p) PROVE NoOrphan'
  BY <1>4, <1>7 DEF Start
<1>8. ASSUME NEW p \in Processes, Begin(p) PROVE NoOrphan'
  <2>1. /\ inbox[p] \in Seq(Requests) /\ inbox[p] # <<>>
        /\ current'[p] = Head(inbox[p]) /\ inbox'[p] = Tail(inbox[p])
        /\ \A q \in Processes : q # p => current'[q] = current[q] /\ inbox'[q] = inbox[q]
    BY <1>1, <1>8 DEF Begin
  <2>2. \A x : Has(inbox[p], x) <=> x = Head(inbox[p]) \/ Has(Tail(inbox[p]), x)
    BY <2>1, TailHas
  <2> QED BY <1>3, <2>1, <2>2
<1>9. ASSUME NEW p \in Processes, Reply(p), inbox' = inbox PROVE NoOrphan'
  <2>1. current'[Balancer] \in {None, current[Balancer]}
    BY <1>1, <1>9 DEF Reply
  <2> QED BY <1>3, <1>9, <2>1
<1>10. ASSUME NEW p \in Processes, Finish(p) \/ Answer \/ ForwardEnd PROVE NoOrphan'
  BY <1>9, <1>10 DEF Finish, Answer, ForwardEnd
<1>11. ~Forward
  BY NoForward DEF Forward
<1>12. ASSUME NEW p \in Providers, Crash(p) PROVE NoOrphan'
  <2> DEFINE dead == {p} \cup (Refreshers \cap {Refresher(p)})
  <2>1. /\ inbox'[Balancer] = Leave(inbox[Balancer], dead)
        /\ current'[Balancer] = IF current[Balancer] \in dead THEN Orphan(current[Balancer])
                                ELSE current[Balancer]
    BY <1>12 DEF Crash, Leave
  <2>2. dead \in SUBSET (Providers \cup Refreshers) /\ dead \subseteq Actors
    OBVIOUS
  \* Who died had asked for a list or a registration.
  <2>3. ASSUME NEW a \in dead, Has(inbox[Balancer], a) \/ current[Balancer] = a
        PROVE  Orphan(a)[3] # "requestService"
    <3>1. a \in Actors /\ asked[a] = Balancer
      BY <2>2, <2>3 DEF SystemInv, Once
    <3>2. a \in Refreshers \/ (a \in Providers /\ status[a] = "registering")
      BY <2>2, <3>1 DEF Direct, SystemInv, Whom
    <3>3. Asks(a) # "requestService"
      BY <3>2 DEF Asks
    <3> QED BY <2>2, <3>3, OrphanFacts
  <2> HIDE DEF dead
  <2>4. \A r \in Orphans : Has(Leave(inbox[Balancer], dead), r) =>
          Has(inbox[Balancer], r) \/ \E a \in dead : Has(inbox[Balancer], a) /\ r = Orphan(a)
    BY <1>1, <2>2, LeaveHas
  <2>5. ASSUME NEW r \in Orphans, r[3] = "requestService"
        PROVE  ~Has(inbox'[Balancer], r) /\ current'[Balancer] # r
    BY <1>2, <2>1, <2>3, <2>4, <2>5
  <2> QED BY <2>5 DEF NoOrphan
<1>13. CASE UNCHANGED vars \/ (\E f \in Fronts : RefreshEnd(f)) \/ (\E p \in Providers : Accept(p))
  BY <1>3, <1>13 DEF vars, RefreshEnd, Accept
<1> QED
  BY <1>5, <1>6, <1>7, <1>8, <1>10, <1>11, <1>12, <1>13 DEF Next, Handler, Balancing

LEMMA DirectStep ==
  ASSUME Direct, SystemInv, Unasked, [Next]_vars
  PROVE  Unasked'
BY DirectClients, DirectOrphans DEF Unasked, NoClient, NoOrphan

LEMMA DirectFree ==
  ASSUME SystemInv, Unasked
  PROVE  DeadlockFree
<1> SUFFICES ASSUME NEW S \in Deadlocks PROVE FALSE
  BY DEF DeadlockFree
<1>1. None \in S /\ S \subseteq Processes \cup Refreshers
  BY InvDeadlocksKnown DEF DeadlocksKnown, Unasked, Deadlocks
<1> QED BY <1>1, ActorFacts

\* When nobody calls in SERVER mode, the balancer only answers from its table, and
\* there is no deadlock: not while providers register, whatever services they call
\* from their handlers, and not when they die (baseBalancer.cpp:37 is the only
\* call that the balancer makes).
THEOREM DirectNeverDeadlocks == Direct => (Spec => []DeadlockFree)
<1> SUFFICES ASSUME Direct PROVE Spec => []DeadlockFree
  OBVIOUS
<1>1. Init => Unasked
  <2>1. Init => \A r : ~Has(inbox[Balancer], r)
    BY ActorFacts DEF Init, Has
  <2> QED BY <2>1, ActorFacts, RequestFacts DEF Init, Unasked
<1>2. SystemInv /\ Unasked /\ [Next]_vars => Unasked'
  BY DirectStep
<1>3. SystemInv /\ Unasked => DeadlockFree
  BY DirectFree
<1> QED BY <1>1, <1>2, <1>3, SystemAlways, PTL DEF Spec

-----------------------------------------------------------------------------
(***************************************************************************)
(* Nobody waits without a reason: the safety part of EveryCallEnds.        *)
(***************************************************************************)
\* When the threads that serve calls can take a step: the guards of Begin, of
\* NestedCall and Finish, of the balancer's steps, of Accept and of RefreshEnd.
Begins(p) ==
  /\ p = Balancer \/ (p \in Providers /\ status[p] = "serving")
  /\ current[p] = None /\ inbox[p] # <<>>

Continues(p) ==
  /\ p \in Providers /\ current[p] # None
  /\ IF step[p] = "called" THEN asked[p] = None
     ELSE p \in Fronts /\ Mode[p] # "none" => rpcMutex[p] = None

Balances ==
  /\ current[Balancer] # None
  /\ step[Balancer] = "start" \/ asked[Balancer] = None

Accepts(p) == p \in Providers /\ status[p] = "registering" /\ asked[p] = None

Releases(r) == \E f \in Fronts : r = Refresher(f) /\ rpcMutex[f] = r /\ asked[r] = None

GoesOn(a) ==
  \/ a \in Processes /\ (Begins(a) \/ Continues(a) \/ Accepts(a))
  \/ a = Balancer /\ Balances
  \/ Releases(a)

\* Those that a waits for, the ones they wait for, and so on, are in S.
HasAllAwaited(S) == \A b \in S : WaitsFor(b) \in S \cup {None, Gone}

\* Whoever waits depends on one that can take a step, on a deadlock, or on one
\* that reads for ever what is left of the answer of a process that died: an
\* answer is never missing because everybody waits for requests to come.
WaitsHaveReason ==
  \A S \in SUBSET Actors, a \in Actors :
    a \in S /\ asked[a] # None /\ HasAllAwaited(S)
      => \/ \E b \in S : GoesOn(b)
         \/ \E D \in Deadlocks : D \subseteq S
         \/ \E b \in S : asked[b] = Gone

-----------------------------------------------------------------------------
\* Nobody awaits a provider that does not run.
DownUnasked ==
  \A p \in Providers : status[p] = "down" => \A a \in Actors : asked[a] # p

LEMMA DownUnaskedStep ==
  ASSUME SystemInv, DownUnasked, [Next]_vars
  PROVE  DownUnasked'
<1> USE ActorFacts DEF DownUnasked
<1>1. /\ asked \in [Actors -> Processes \cup {None, Gone}]
      /\ status \in [Providers -> {"down", "registering", "serving"}]
  BY DEF SystemInv, Kinds
<1>2. ASSUME NEW a \in Actors, NEW p \in Up \cup {Balancer}, Ask(a, p), status' = status PROVE DownUnasked'
  BY <1>1, <1>2 DEF Ask, Up
<1>3. ASSUME \A a \in Actors : asked'[a] \in {None, asked[a]},
             \A p \in Providers : status'[p] = "down" => status[p] = "down"
      PROVE  DownUnasked'
  BY <1>3
<1>4. ASSUME NEW a \in Clients \cup Fronts, Call(a) \/ NestedCall(a) PROVE DownUnasked'
  <2>1. PICK p \in Targets(a) : Ask(a, p)
    BY <1>4 DEF Call, NestedCall
  <2>2. p \in Up \cup {Balancer} /\ status' = status /\ a \in Actors
    BY <1>4, <2>1 DEF Targets, Call, NestedCall
  <2> QED BY <1>2, <2>1, <2>2
<1>5. ASSUME NEW f \in Fronts, Refresh(f) PROVE DownUnasked'
  <2>1. Ask(Refresher(f), Balancer) /\ Refresher(f) \in Actors /\ status' = status
    BY <1>5 DEF Refresh
  <2> QED BY <1>2, <2>1
<1>6. ASSUME Forward PROVE DownUnasked'
  <2>1. PICK p \in table \cap Service(Sender(current[Balancer])) :
          IF p \in Up THEN Ask(Balancer, p) ELSE UNCHANGED asked
    BY <1>6 DEF Forward
  <2>2. status' = status
    BY <1>6 DEF Forward
  <2>3. CASE p \in Up
    BY <1>2, <2>1, <2>2, <2>3
  <2>4. CASE p \notin Up
    BY <2>1, <2>2, <2>4
  <2> QED BY <2>3, <2>4
<1>7. ASSUME NEW p \in Providers, Start(p) PROVE DownUnasked'
  <2>1. asked'[p] = Balancer /\ \A a \in Actors : a # p => asked'[a] = asked[a]
    BY <1>1, <1>7 DEF Start, Ask
  <2>2. \A q \in Providers : status'[q] = "down" => status[q] = "down"
    BY <1>1, <1>7 DEF Start
  <2> QED BY <2>1, <2>2
<1>8. ASSUME NEW p \in Processes, Handler(p) \/ Answer \/ ForwardEnd PROVE DownUnasked'
  <2>1. \A a \in Actors : asked'[a] \in {None, asked[a]}
    BY <1>1, <1>8 DEF Handler, Begin, Finish, Answer, ForwardEnd, Reply
  <2>2. status' = status
    BY <1>8 DEF Handler, Begin, Finish, Answer, ForwardEnd
  <2> QED BY <1>3, <2>1, <2>2
<1>9. ASSUME NEW p \in Providers, Accept(p) PROVE DownUnasked'
  BY <1>1, <1>9 DEF Accept
<1>10. ASSUME NEW p \in Providers, Crash(p) PROVE DownUnasked'
  <2>1. \A a \in Actors : asked'[a] \in {None, Gone, asked[a]} /\ asked'[a] # p
    BY <1>1, <1>10 DEF Crash
  <2>2. \A q \in Providers : q # p => status'[q] = status[q]
    BY <1>1, <1>10 DEF Crash
  <2>3. Gone \notin Providers
    OBVIOUS
  <2> QED BY <2>1, <2>2, <2>3
<1>11. CASE UNCHANGED vars \/ \E f \in Fronts : RefreshEnd(f)
  BY <1>11 DEF vars, RefreshEnd
<1> QED BY <1>4, <1>5, <1>6, <1>7, <1>8, <1>9, <1>10, <1>11 DEF Next, Balancing

\* One that is awaited and waits for nobody can take a step.
LEMMA AwaitedGoesOn ==
  ASSUME SystemInv, DownUnasked, NEW b \in Actors, asked[b] \notin {None, Gone}, WaitsFor(asked[b]) = None
  PROVE  GoesOn(asked[b])
<1> USE ActorFacts, RequestFacts
<1> DEFINE p == asked[b]
<1>1. /\ p \in Processes
      /\ Has(inbox[p], b) \/ current[p] = b
      /\ inbox[p] \in Seq(Requests)
      /\ step[p] \in {"start", "called"}
  BY DEF SystemInv, Kinds, Once
<1>2. inbox[p] # <<>> \/ current[p] # None
  BY <1>1 DEF Has
<1> HIDE DEF p
<1>3. asked[p] = None
  BY DEF WaitsFor, p
<1>4. p \in Fronts /\ current[p] # None /\ step[p] = "start" /\ Mode[p] # "none" => rpcMutex[p] = None
  BY <1>3 DEF WaitsFor, p
<1>5. CASE p = Balancer
  BY <1>1, <1>2, <1>3, <1>5 DEF GoesOn, Begins, Balances, p
<1>6. CASE p \in Providers
  <2>1. status[p] \in {"registering", "serving"}
    BY <1>6 DEF DownUnasked, SystemInv, Kinds, p
  <2>2. CASE status[p] = "registering"
    BY <1>3, <1>6, <2>2 DEF GoesOn, Accepts, p
  <2>3. CASE status[p] = "serving" /\ current[p] = None
    BY <1>2, <1>6, <2>3 DEF GoesOn, Begins, p
  <2>4. CASE current[p] # None
    <3>1. Continues(p)
      BY <1>1, <1>3, <1>4, <1>6, <2>4 DEF Continues
    <3> QED BY <1>1, <3>1 DEF GoesOn, p
  <2> QED BY <2>1, <2>2, <2>3, <2>4
<1> QED BY <1>1, <1>5, <1>6 DEF Processes

LEMMA InvWaitsHaveReason ==
  ASSUME SystemInv, DownUnasked
  PROVE  WaitsHaveReason
<1> SUFFICES ASSUME NEW S \in SUBSET Actors, NEW a \in S, asked[a] # None, HasAllAwaited(S),
                    \A b \in S : ~GoesOn(b), \A b \in S : asked[b] # Gone
             PROVE  \E D \in Deadlocks : D \subseteq S
  BY DEF WaitsHaveReason
<1> USE ActorFacts
<1> DEFINE Waiting == {b \in S \cap (Processes \cup Refreshers) : WaitsFor(b) # None}
\* The one whom a waiting actor waits for waits itself.
<1>1. ASSUME NEW b \in S, WaitsFor(b) # None
      PROVE  WaitsFor(b) \in Waiting
  <2>0. WaitsFor(b) # Gone
    <3>1. b \in Fronts => rpcMutex[b] # Gone
      BY DEF SystemInv, MutexOwner
    <3> QED BY <3>1 DEF WaitsFor
  <2>1. WaitsFor(b) \in S
    BY <1>1, <2>0 DEF HasAllAwaited
  <2>2. CASE asked[b] # None
    <3>1. WaitsFor(b) = asked[b] /\ asked[b] \in Processes
      BY <2>2 DEF WaitsFor, SystemInv, Kinds
    <3>2. WaitsFor(asked[b]) # None
      BY <2>1, <2>2, <3>1, AwaitedGoesOn
    <3> QED BY <2>1, <3>1, <3>2
  <2>3. CASE asked[b] = None
    <3>1. b \in Fronts /\ WaitsFor(b) = rpcMutex[b] /\ step[b] = "start"
      BY <1>1, <2>3 DEF WaitsFor
    <3>2. rpcMutex[b] = Refresher(b) /\ Refresher(b) \in Refreshers
      BY <1>1, <3>1 DEF SystemInv, MutexOwner
    <3>3. ~Releases(Refresher(b))
      BY <2>1, <3>1, <3>2 DEF GoesOn
    <3>4. asked[Refresher(b)] # None
      BY <3>1, <3>2, <3>3 DEF Releases
    <3> QED BY <2>1, <3>1, <3>2, <3>4 DEF WaitsFor
  <2> QED BY <2>2, <2>3
<1>2. WaitsFor(a) \in Waiting
  <2>1. WaitsFor(a) # None
    BY DEF WaitsFor
  <2> QED BY <1>1, <2>1
<1>3. Waiting \in Deadlocks
  <2>1. \A b \in Waiting : WaitsFor(b) \in Waiting
    BY <1>1
  <2>2. Waiting \subseteq Processes \cup Refreshers /\ Waiting # {}
    BY <1>2
  <2> HIDE DEF Waiting
  <2> QED BY <2>1, <2>2 DEF Deadlocks
<1>4. Waiting \subseteq S
  OBVIOUS
<1> QED BY <1>3, <1>4

\* Whoever awaits an answer depends, directly or through others, on a thread that
\* can take a step, on one of the deadlocks of DeadlocksKnown, or on one that has
\* read a part of the answer of a process that died (rpcClient.cpp:119): what can
\* keep a call from ending is one of these or that a thread is not scheduled,
\* never a request, an answer or a mutex that got lost on the way through calls
\* of handlers, registrations and crashes.
THEOREM NobodyWaitsInVain == Spec => []WaitsHaveReason
<1>1. Init => DownUnasked
  BY ActorFacts DEF Init, DownUnasked
<1>2. SystemInv /\ DownUnasked /\ [Next]_vars => DownUnasked'
  BY DownUnaskedStep
<1>3. SystemInv /\ DownUnasked => WaitsHaveReason
  BY InvWaitsHaveReason
<1> QED BY <1>1, <1>2, <1>3, SystemAlways, PTL DEF Spec
-----------------------------------------------------------------------------
(***************************************************************************)
(* Deadlocks do not end by themselves.                                     *)
(***************************************************************************)
\* p's process dies.
Dies(p) == status[p] # "down" /\ status'[p] = "down"

\* Those who wait for each other go on waiting, until the process of one of them
\* dies.
DeadlocksStay ==
  [][\A S \in Deadlocks :
       S \in Deadlocks' \/ \E p \in Providers : Dies(p) /\ {p, Refresher(p)} \cap S # {}]_vars

\* What a step has to leave alone for a to wait for the same one.
SameWait(a) ==
  /\ asked'[a] = asked[a]
  /\ \/ asked[a] # None
     \/ a \notin Fronts
     \/ /\ current'[a] = None <=> current[a] = None
        /\ step'[a] = step[a] /\ rpcMutex'[a] = rpcMutex[a]

LEMMA SameWaits ==
  ASSUME NEW S \in Deadlocks, \A a \in S : SameWait(a)
  PROVE  S \in Deadlocks'
<1>1. S \in SUBSET (Processes \cup Refreshers) /\ S # {} /\ \A a \in S : WaitsFor(a) \in S
  BY DEF Deadlocks
<1>2. \A a \in S : WaitsFor(a)' = WaitsFor(a)
  BY DEF SameWait, WaitsFor
<1> QED BY <1>1, <1>2 DEF Deadlocks

\* The members of a deadlock, and what their handlers cannot do.
LEMMA MembersStuck ==
  ASSUME SystemInv, NEW S \in Deadlocks
  PROVE  /\ S \subseteq (Processes \cup Refreshers) /\ None \notin S
         /\ \A a \in S : asked[a] \in S \/ asked[a] = None
         /\ \A a \in S : asked[a] = None =>
              /\ a \in Fronts /\ current[a] # None /\ step[a] = "start" /\ Mode[a] # "none"
              /\ rpcMutex[a] = Refresher(a) /\ Refresher(a) \in S /\ asked[Refresher(a)] # None
         /\ \A p \in S \cap Providers : ~Finish(p)
         /\ Balancer \in S => ~Answer /\ ~Forward /\ ~ForwardEnd
<1> USE ActorFacts
<1>1. /\ S \subseteq (Processes \cup Refreshers) /\ None \notin S
      /\ \A a \in S : WaitsFor(a) \in S
  BY DEF Deadlocks
<1>2. \A a \in S : asked[a] \in S \/ asked[a] = None
  BY <1>1 DEF WaitsFor
<1>3. ASSUME NEW a \in S, asked[a] = None
      PROVE  /\ a \in Fronts /\ current[a] # None /\ step[a] = "start" /\ Mode[a] # "none"
             /\ rpcMutex[a] = Refresher(a) /\ Refresher(a) \in S /\ asked[Refresher(a)] # None
  <2>1. /\ a \in Fronts /\ current[a] # None /\ step[a] = "start" /\ Mode[a] # "none"
        /\ rpcMutex[a] \in S /\ rpcMutex[a] # None
    BY <1>1, <1>3 DEF WaitsFor
  <2>2. rpcMutex[a] = Refresher(a)
    BY <2>1 DEF SystemInv, MutexOwner
  <2>3. asked[Refresher(a)] # None
    BY <1>1, <2>1, <2>2 DEF WaitsFor
  <2> QED BY <2>1, <2>2, <2>3
<1>4. ASSUME NEW p \in S \cap Providers, Finish(p) PROVE FALSE
  <2>1. current[p] # None
    BY <1>4 DEF Finish, Returns
  <2>2. CASE asked[p] = None
    BY <1>3, <1>4, <2>2 DEF Finish, Returns
  <2>3. CASE asked[p] # None
    BY <1>4, <2>1, <2>3 DEF Finish, Returns, SystemInv, Why, Kinds
  <2> QED BY <2>2, <2>3
<1>5. ASSUME Balancer \in S, Answer \/ Forward \/ ForwardEnd PROVE FALSE
  <2>1. asked[Balancer] # None
    BY <1>3, <1>5
  <2>2. step[Balancer] = "called"
    BY <2>1 DEF SystemInv, Why
  <2> QED BY <1>5, <2>1, <2>2 DEF Answer, Forward, ForwardEnd
<1> QED BY <1>1, <1>2, <1>3, <1>4, <1>5

\* A handler that returns answers none of them.
LEMMA ReplyToOthers ==
  ASSUME SystemInv, NEW S \in Deadlocks, NEW p \in Processes \ S, Reply(p), current[p] # None
  PROVE  /\ \A a \in S : asked'[a] = asked[a]
         /\ \A q \in Processes : q # p => current'[q] = current[q]
<1> USE ActorFacts
<1>1. S \subseteq Actors /\ \A a \in S : asked[a] # p
  BY MembersStuck
<1>2. \A a \in S : a # current[p]
  BY <1>1 DEF SystemInv, Once
<1> QED BY <1>1, <1>2 DEF Reply, SystemInv, Kinds

LEMMA DeadlockStep ==
  ASSUME SystemInv, Next, NEW S \in Deadlocks,
         \A p \in Providers : Dies(p) => {p, Refresher(p)} \cap S = {}
  PROVE  S \in Deadlocks'
<1> USE ActorFacts
<1> SUFFICES \A a \in S : SameWait(a)
  BY SameWaits
<1>1. /\ S \subseteq (Processes \cup Refreshers) /\ S \subseteq Actors
      /\ \A a \in S : asked[a] \in S \/ asked[a] = None
      /\ \A a \in S : asked[a] = None =>
           /\ a \in Fronts /\ current[a] # None /\ step[a] = "start" /\ Mode[a] # "none"
           /\ rpcMutex[a] = Refresher(a) /\ Refresher(a) \in S /\ asked[Refresher(a)] # None
      /\ \A p \in S \cap Providers : ~Finish(p)
      /\ Balancer \in S => ~Answer /\ ~Forward /\ ~ForwardEnd
  BY MembersStuck
<1>2. /\ asked \in [Actors -> Processes \cup {None, Gone}]
      /\ current \in [Processes -> Requests \cup {None}]
      /\ step \in [Processes -> {"start", "called"}]
      /\ DOMAIN rpcMutex = Fronts
  BY DEF SystemInv, Kinds
<1>3. ASSUME NEW b \in Actors \ S, NEW p, Ask(b, p),
             \A a \in S \cap Fronts : current'[a] = current[a] /\ step'[a] = step[a] /\ rpcMutex'[a] = rpcMutex[a]
      PROVE  \A a \in S : SameWait(a)
  BY <1>1, <1>2, <1>3 DEF Ask, SameWait
<1>4. ASSUME NEW c \in Clients, Call(c) PROVE \A a \in S : SameWait(a)
  <2>1. PICK p \in Targets(c) : Ask(c, p)
    BY <1>4 DEF Call
  <2>2. c \in Actors \ S
    BY <1>1
  <2> QED BY <1>3, <1>4, <2>1, <2>2 DEF Call
<1>5. ASSUME NEW f \in Fronts, Refresh(f) PROVE \A a \in S : SameWait(a)
  <2>1. rpcMutex[f] = None /\ Refresher(f) \in Refreshers
    BY <1>5 DEF Refresh
  <2>2. Refresher(f) \in Actors \ S
    <3>1. asked[Refresher(f)] = None
      BY <2>1 DEF SystemInv, Why
    <3> QED BY <1>1, <2>1, <3>1
  <2>3. ASSUME NEW a \in S PROVE SameWait(a)
    <3>1. asked'[a] = asked[a] /\ current' = current /\ step' = step
      BY <1>1, <1>2, <1>5, <2>2 DEF Refresh, Ask
    <3>2. a = f => asked[a] # None
      BY <1>1, <2>1
    <3>3. a \in Fronts /\ a # f => rpcMutex'[a] = rpcMutex[a]
      BY <1>2, <1>5 DEF Refresh
    <3> QED BY <3>1, <3>2, <3>3 DEF SameWait
  <2> QED BY <2>3
<1>6. ASSUME NEW f \in Fronts, RefreshEnd(f) PROVE \A a \in S : SameWait(a)
  <2>1. f \in S => asked[f] # None
    BY <1>1, <1>6 DEF RefreshEnd
  <2>2. \A g \in Fronts : g # f => rpcMutex'[g] = rpcMutex[g]
    BY <1>2, <1>6 DEF RefreshEnd
  <2> QED BY <1>6, <2>1, <2>2 DEF RefreshEnd, SameWait
<1>7. ASSUME NEW f \in Fronts, NestedCall(f) PROVE \A a \in S : SameWait(a)
  <2>1. PICK p \in Targets(f) : Ask(f, p)
    BY <1>7 DEF NestedCall
  <2>2. asked[f] = None
    BY <1>7 DEF NestedCall, SystemInv, Why
  <2>3. f \in Actors \ S
    BY <1>1, <1>7, <2>2 DEF NestedCall
  <2>4. \A a \in S \cap Fronts : current'[a] = current[a] /\ step'[a] = step[a] /\ rpcMutex'[a] = rpcMutex[a]
    BY <1>2, <1>7, <2>3 DEF NestedCall
  <2> QED BY <1>3, <2>1, <2>3, <2>4
<1>8. ASSUME NEW p \in Processes, Begin(p) PROVE \A a \in S : SameWait(a)
  <2>1. p \in S => asked[p] # None
    BY <1>1, <1>8 DEF Begin
  <2>2. /\ asked' = asked /\ rpcMutex' = rpcMutex
        /\ \A q \in Processes : q # p => current'[q] = current[q] /\ step'[q] = step[q]
    BY <1>2, <1>8 DEF Begin
  <2> QED BY <1>1, <2>1, <2>2 DEF SameWait
<1>9. ASSUME NEW p \in Providers, Finish(p) PROVE \A a \in S : SameWait(a)
  <2>1. p \in Processes \ S /\ Reply(p) /\ current[p] # None /\ step' = step
    BY <1>1, <1>9 DEF Finish, Returns
  <2>2. /\ \A a \in S : asked'[a] = asked[a]
        /\ \A q \in Processes : q # p => current'[q] = current[q]
    BY <2>1, ReplyToOthers
  <2>3. \A f \in Fronts : f # p => rpcMutex'[f] = rpcMutex[f]
    BY <1>2, <1>9 DEF Finish
  <2> QED BY <1>1, <2>1, <2>2, <2>3 DEF SameWait
<1>10. ASSUME Answer \/ ForwardEnd PROVE \A a \in S : SameWait(a)
  <2>1. Balancer \in Processes \ S /\ Reply(Balancer) /\ current[Balancer] # None /\ step' = step /\ rpcMutex' = rpcMutex
    BY <1>1, <1>10 DEF Answer, ForwardEnd
  <2>2. /\ \A a \in S : asked'[a] = asked[a]
        /\ \A q \in Processes : q # Balancer => current'[q] = current[q]
    BY <2>1, ReplyToOthers
  <2> QED BY <1>1, <2>1, <2>2 DEF SameWait
<1>11. ASSUME Forward PROVE \A a \in S : SameWait(a)
  <2>1. Balancer \in Actors \ S /\ current' = current /\ rpcMutex' = rpcMutex
    BY <1>1, <1>11 DEF Forward
  <2>2. PICK p \in table \cap Service(Sender(current[Balancer])) :
          IF p \in Up THEN Ask(Balancer, p) /\ step' = [step EXCEPT ![Balancer] = "called"]
          ELSE UNCHANGED <<asked, step>>
    BY <1>11 DEF Forward
  <2>3. \A f \in Fronts : step'[f] = step[f]
    BY <1>2, <2>2
  <2>4. CASE p \in Up
    BY <1>3, <2>1, <2>2, <2>3, <2>4
  <2>5. CASE p \notin Up
    BY <2>1, <2>2, <2>5 DEF SameWait
  <2> QED BY <2>4, <2>5
<1>12. ASSUME NEW p \in Providers, Start(p) PROVE \A a \in S : SameWait(a)
  <2>1. asked[p] = None /\ current[p] = None
    BY <1>12 DEF Start, SystemInv, Why
  <2>2. p \in Actors \ S
    BY <1>1, <2>1
  <2> QED BY <1>3, <1>12, <2>2 DEF Start
<1>13. ASSUME NEW p \in Providers, Accept(p) PROVE \A a \in S : SameWait(a)
  BY <1>13 DEF Accept, SameWait
<1>14. ASSUME NEW p \in Providers, Crash(p) PROVE \A a \in S : SameWait(a)
  <2>1. p \notin S /\ Refresher(p) \notin S
    <3>1. Dies(p)
      BY <1>14 DEF Crash, Up, Dies, SystemInv, Kinds
    <3> QED BY <3>1
  <2>2. \A a \in S : asked'[a] = asked[a]
    BY <1>1, <1>2, <1>14, <2>1 DEF Crash
  <2>3. \A f \in Fronts \cap S :
          /\ current'[f] = None <=> current[f] = None
          /\ step'[f] = step[f] /\ rpcMutex'[f] = rpcMutex[f]
    <3>1. \A a \in {p} \cup (Refreshers \cap {Refresher(p)}) : a # None /\ Orphan(a) # None
      BY OrphanFacts, RequestFacts
    <3>2. \A f \in Fronts \cap S : f # p /\ (current'[f] = None <=> current[f] = None)
      BY <1>2, <1>14, <2>1, <3>1 DEF Crash
    <3>3. \A f \in Fronts : step'[f] = step[f]
      BY <1>2, <1>14 DEF Crash
    <3>4. \A f \in Fronts : f # p => rpcMutex'[f] = rpcMutex[f]
      BY <1>14 DEF Crash
    <3> QED BY <3>2, <3>3, <3>4
  <2> QED BY <2>2, <2>3 DEF SameWait
<1> QED
  BY <1>4, <1>5, <1>6, <1>7, <1>8, <1>9, <1>10, <1>11, <1>12, <1>13, <1>14
  DEF Next, Handler, Balancing

\* A deadlock is for good: no step of a client, a handler, the balancer or another
\* provider frees one who is in it, as no call has a timeout (rpcClient.cpp:112);
\* only the death of a process in it closes the connections on which the others
\* wait.
THEOREM DeadlocksAreForGood == Spec => DeadlocksStay
<1>1. ASSUME SystemInv, [Next]_vars
      PROVE  [\A S \in Deadlocks :
                S \in Deadlocks' \/ \E p \in Providers : Dies(p) /\ {p, Refresher(p)} \cap S # {}]_vars
  <2>1. CASE UNCHANGED vars
    BY <2>1
  <2>2. CASE Next
    BY <1>1, <2>2, DeadlockStep
  <2> QED BY <1>1, <2>1, <2>2
<1>2. SystemInv /\ [Next]_vars
        => [\A S \in Deadlocks :
              S \in Deadlocks' \/ \E p \in Providers : Dies(p) /\ {p, Refresher(p)} \cap S # {}]_vars
  BY <1>1
<1> QED BY <1>2, SystemAlways, PTL DEF Spec, DeadlocksStay
=============================================================================
