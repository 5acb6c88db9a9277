---------------------------- MODULE ServiceCache ----------------------------
(***************************************************************************)
(* The balancer's registry of services: cache (cache/cache.cpp) over an    *)
(* LRUSetCache (what requests see), an rwSetCache (insertions and removals *)
(* that redis has not been told of) and a redisSet (one redis connection). *)
(*                                                                         *)
(* Two threads use it.  The worker runs one of the four handlers of        *)
(* balancer.cpp at a time, because the pool is serial.  The thread of      *)
(* cache::syncThread takes everything that is pending every syncTime and   *)
(* sends it to redis.  Each lock of rwSetCache is held for one step; the   *)
(* LRU cache belongs to the worker alone.                                  *)
(*                                                                         *)
(* Both threads send commands on the one redisContext without a lock: the  *)
(* replies come back in the order of the commands, and a thread takes      *)
(* whatever reply is first.                                                *)
(***************************************************************************)
EXTENDS Integers, Sequences, FiniteSets, SequencesExt

CONSTANTS
  Keys,        \* names of services
  Values,      \* addresses of their providers
  CacheSize,   \* LRUCache::cacheSize
  Kinds,       \* the operations requested, of "get", "insert", "erase", "set"
  MaxOps,      \* how many are requested: bounds the model
  RedisFails,  \* whether the connection to redis may be lost
  Shutdown     \* whether the cache may be destroyed

ASSUME CacheAssumption ==
  /\ IsFiniteSet(Keys) /\ Keys \cap Values = {}
  /\ CacheSize \in Nat \ {0}
  /\ Kinds \subseteq {"get", "insert", "erase", "set"}
  /\ MaxOps \in Nat
  /\ RedisFails \in BOOLEAN /\ Shutdown \in BOOLEAN

Pairs == Keys \X Values
OfKey(pairs, k) == {p \in pairs : p[1] = k}
ValuesOf(pairs, k) == {p[2] : p \in OfKey(pairs, k)}

VARIABLES
  data,        \* LRUCache::data: the cached services and their addresses
  recentGets,  \* LRUCache::recentGets; iterMap holds the place of each key in it
  staged,      \* rwSetCache::data: the pairs to insert into redis
  removed,     \* rwSetCache::removed: the pairs to erase from redis
  pc, op,      \* the worker's place in an operation, and the operation
  syncPc,      \* the place of syncThread
  toAdd, toRemove,   \* what syncThread took with reset and has not sent yet
  stop,        \* the flag of that name: true until the cache is destroyed
  dtor,        \* where ~cache stands
  redis,       \* external: the pairs that redis holds
  connected,   \* external: whether the connection is alive
  wire,        \* external: replies on the connection that nobody has read
  overlapped,  \* history: a command was sent while the other thread waited
  status,      \* "up", or "undefined" after the two threads collided or a reply
               \* was read that is not there
  count,       \* operations so far
  known,       \* history: pairs that redis held at first or that were registered
  last,        \* history: the kind of the last operation requested for each pair
  recent,      \* history: the pairs operated on since the last reset, or during it
  asked,       \* history: the kinds requested for each pair from when it became recent
  fresh,       \* history: the pairs that redis did not have, and would not be sent,
               \* when they became recent
  crossed      \* history: syncThread held a batch with op's service during op

lruVars == <<data, recentGets>>
rwVars == <<staged, removed>>
syncVars == <<syncPc, toAdd, toRemove>>
redisVars == <<redis, connected, wire, overlapped>>
endVars == <<stop, dtor, status>>
askVars == <<last, recent, asked, fresh>>
histVars == <<count, known, askVars, crossed>>
vars == <<lruVars, rwVars, pc, op, syncVars, redisVars, endVars, histVars>>

NoOp == [kind |-> "none"]

Init ==
  /\ data = <<>>
  /\ recentGets = <<>>
  /\ staged = {} /\ removed = {}
  /\ pc = "idle" /\ op = NoOp
  /\ syncPc = "test" /\ toAdd = {} /\ toRemove = {}
  /\ stop = TRUE /\ dtor = "alive" /\ status = "up"
  /\ redis \in SUBSET Pairs
  /\ connected = TRUE
  /\ wire = <<>>
  /\ overlapped = FALSE
  /\ count = 0
  /\ known = redis
  /\ last = [p \in Pairs |-> "none"]
  /\ asked = [p \in Pairs |-> {}]
  /\ recent = {} /\ fresh = {}
  /\ crossed = FALSE

-----------------------------------------------------------------------------
(***************************************************************************)
(* LRUCache and LRUSetCache.                                               *)
(***************************************************************************)

\* Mistake: the key's old place is kept.
UsedTwice(k) == Append(recentGets, k)

\* recentGets when key k is used: it moves to the end.
Used(k) == Append(RemoveFirst(recentGets, k), k)

\* The data after the entries of "gone" are dropped and k is set to vals.
With(k, vals, gone) ==
  [x \in (DOMAIN data \ gone) \cup {k} |-> IF x = k THEN vals ELSE data[x]]

\* LRUCache::set.  The name of the service to evict is read after the list node
\* that holds it was freed: a short name is still there, a long one is not, and
\* then nothing is evicted.
LruSet(k, vals) ==
  \/ /\ k \in DOMAIN data
     /\ data' = With(k, vals, {})
     /\ UNCHANGED recentGets
  \/ /\ k \notin DOMAIN data
     /\ Cardinality(DOMAIN data) # CacheSize
     /\ data' = With(k, vals, {})
     /\ recentGets' = Append(recentGets, k)
  \/ /\ k \notin DOMAIN data
     /\ Cardinality(DOMAIN data) = CacheSize
     /\ \E gone \in {{Head(recentGets)}, {}} : data' = With(k, vals, gone)
     /\ recentGets' = Append(Tail(recentGets), k)

-----------------------------------------------------------------------------
(***************************************************************************)
(* redisSet over its redisContext.  A command is executed when it is sent, *)
(* and its sender then waits for a reply.                                  *)
(***************************************************************************)

Number == [type |-> "integer", members |-> {}]
Null == [type |-> "null", members |-> {}]

WorkerWaits == pc \in {"fetched", "deleted", "added"}
SyncWaits == syncPc = "reply"

Send(redisAfter, reply) ==
  /\ redis' = IF connected THEN redisAfter ELSE redis
  /\ wire' = IF connected THEN Append(wire, reply) ELSE wire
  /\ overlapped' = (overlapped \/ WorkerWaits \/ SyncWaits)
  /\ UNCHANGED connected

\* What redisCommand gives: NULL on a dead connection.
Reply == IF connected THEN Head(wire) ELSE Null

\* Mistake: the reply stays on the connection.
LeaveReply == (connected => wire # <<>>) /\ UNCHANGED redisVars

TakeReply ==
  /\ connected => wire # <<>>
  /\ wire' = IF connected THEN Tail(wire) ELSE wire
  /\ UNCHANGED <<redis, connected, overlapped>>

\* redisSet::insert and erase call redisGetReply, which leaves their pointer alone
\* when the connection is dead; nobody set it before.  By chance it is NULL.
TestReply ==
  /\ TakeReply
  /\ status' = status \/ (~connected /\ status' = "undefined")
  /\ UNCHANGED <<stop, dtor>>

-----------------------------------------------------------------------------
(***************************************************************************)
(* The worker: the handlers of balancer.cpp, which call cache::get,        *)
(* insert, erase and set.                                                  *)
(***************************************************************************)
OpPairs == {op.key} \X op.vals

Step(from, to) == pc = from /\ pc' = to
Return == pc' = "idle"

\* The pairs that an operation is about, and those of the one under way.
Touched(o) == {p \in OfKey(Pairs, o.key) : o.kind = "set" \/ p[2] \in o.vals}
Underway == IF pc = "idle" THEN {} ELSE Touched(op)

\* The history of an operation: one on a pair that is not recent begins a period.
Ask(o) ==
  /\ last' = [p \in Pairs |-> IF p \in Touched(o) THEN o.kind ELSE last[p]]
  /\ asked' = [p \in Pairs |->
       IF p \notin Touched(o) THEN asked[p]
       ELSE IF p \in recent /\ o.kind # "set" THEN asked[p] \cup {o.kind}
       ELSE {o.kind}]
  /\ fresh' = {p \in Pairs :
       IF p \in Touched(o)
         THEN o.kind # "set" /\ (IF p \in recent THEN p \in fresh ELSE p \notin redis \cup toAdd)
         ELSE p \in fresh}
  /\ recent' = recent \cup Touched(o)

\* A request arrives.
Begin(kind, k, vals) ==
  /\ pc = "idle" /\ dtor = "alive"
  /\ kind \in Kinds
  /\ count < MaxOps
  /\ count' = count + 1
  /\ op' = [kind |-> kind, key |-> k, vals |-> vals]
  /\ Ask([kind |-> kind, key |-> k, vals |-> vals])
  /\ known' = IF kind = "erase" THEN known ELSE known \cup ({k} \X vals)
  /\ crossed' = (OfKey(toAdd \cup toRemove, k) # {})
  /\ UNCHANGED <<rwVars, syncVars, redisVars, endVars>>

\* cache::get: a hit is answered from the LRU cache.
Get(k) ==
  /\ Begin("get", k, {})
  /\ \/ /\ k \in DOMAIN data
        /\ recentGets' = Used(k)
        /\ UNCHANGED <<data, pc>>
     \/ /\ k \notin DOMAIN data
        /\ pc' = "fetch"
        /\ UNCHANGED lruVars

\* cache::insert and cache::erase: a service that is not cached is read first.
Change(kind, k, v) ==
  /\ Begin(kind, k, {v})
  /\ pc' = IF k \in DOMAIN data THEN "apply" ELSE "fetch"
  /\ UNCHANGED lruVars

\* cache::set starts with setCache::set.
Set(k, vals) ==
  /\ Begin("set", k, vals)
  /\ LruSet(k, vals)
  /\ pc' = "dropRemoved"

\* redis->get: SMEMBERS
Fetch ==
  /\ Step("fetch", "fetched")
  /\ Send(redis, [type |-> "array", members |-> ValuesOf(redis, op.key)])
  /\ UNCHANGED <<lruVars, rwVars, op, syncVars, endVars, histVars>>

\* Anything but a non-empty array is taken for the empty set, and cached.
Fetched ==
  /\ pc = "fetched"
  /\ TakeReply
  /\ LruSet(op.key, Reply.members)
  /\ pc' = IF op.kind = "get" THEN "idle" ELSE "apply"
  /\ UNCHANGED <<rwVars, op, syncVars, endVars, histVars>>

\* setCache::insert, then the test of rwSetCache::insert.
ApplyInsert ==
  /\ op.kind = "insert"
  /\ Step("apply", IF OpPairs \subseteq removed THEN "cancelRemoval" ELSE "stage")
  /\ data' = With(op.key, data[op.key] \cup op.vals, {})
  /\ UNCHANGED <<recentGets, rwVars, op, syncVars, redisVars, endVars, histVars>>

\* removed[key].erase(key): the key, where the value is meant.
CancelRemoval ==
  /\ Step("cancelRemoval", "stage")
  /\ removed' = removed \ {<<op.key, op.key>>}
  /\ UNCHANGED <<lruVars, staged, op, syncVars, redisVars, endVars, histVars>>

\* data[key].insert(value)
Stage ==
  /\ Step("stage", "idle")
  /\ staged' = staged \cup OpPairs
  /\ UNCHANGED <<lruVars, removed, op, syncVars, redisVars, endVars, histVars>>

\* setCache::erase, then the test of rwSetCache::erase.
ApplyErase ==
  /\ op.kind = "erase"
  /\ Step("apply", IF OpPairs \subseteq staged THEN "unstage" ELSE "remove")
  /\ data' = With(op.key, data[op.key] \ op.vals, {})
  /\ UNCHANGED <<recentGets, rwVars, op, syncVars, redisVars, endVars, histVars>>

\* data[key].erase(value)
Unstage ==
  /\ Step("unstage", "idle")
  /\ staged' = staged \ OpPairs
  /\ UNCHANGED <<lruVars, removed, op, syncVars, redisVars, endVars, histVars>>

\* Mistake: removed[key].insert(key)
StageRemovalOfKey ==
  /\ Step("remove", "idle")
  /\ removed' = removed \cup {<<op.key, op.key>>}
  /\ UNCHANGED <<lruVars, staged, op, syncVars, redisVars, endVars, histVars>>

\* removed[key].insert(value)
StageRemoval ==
  /\ Step("remove", "idle")
  /\ removed' = removed \cup OpPairs
  /\ UNCHANGED <<lruVars, staged, op, syncVars, redisVars, endVars, histVars>>

\* rwSetCache::set forgets what is pending for the service, in two steps.
DropRemoved ==
  /\ Step("dropRemoved", "dropStaged")
  /\ removed' = removed \ OfKey(removed, op.key)
  /\ UNCHANGED <<lruVars, staged, op, syncVars, redisVars, endVars, histVars>>

\* Mistake: the insertions that are pending for the service are kept.
KeepStaged == Step("dropStaged", "delete") /\
  UNCHANGED <<lruVars, rwVars, op, syncVars, redisVars, endVars, histVars>>

DropStaged ==
  /\ Step("dropStaged", "delete")
  /\ staged' = staged \ OfKey(staged, op.key)
  /\ UNCHANGED <<lruVars, removed, op, syncVars, redisVars, endVars, histVars>>

\* redisSet::set: DEL, and SADD unless there is nothing to add.
Delete ==
  /\ Step("delete", "deleted")
  /\ Send(redis \ OfKey(redis, op.key), Number)
  /\ UNCHANGED <<lruVars, rwVars, op, syncVars, endVars, histVars>>

Deleted ==
  /\ Step("deleted", IF Reply = Null \/ op.vals = {} THEN "idle" ELSE "add")
  /\ TakeReply
  /\ UNCHANGED <<lruVars, rwVars, op, syncVars, endVars, histVars>>

Add ==
  /\ Step("add", "added")
  /\ Send(redis \cup OpPairs, Number)
  /\ UNCHANGED <<lruVars, rwVars, op, syncVars, endVars, histVars>>

Added ==
  /\ Step("added", "idle")
  /\ TestReply
  /\ UNCHANGED <<lruVars, rwVars, op, syncVars, histVars>>

\* The steps of an operation that has begun.
Worker ==
  \/ Fetch \/ Fetched
  \/ ApplyInsert \/ CancelRemoval \/ Stage
  \/ ApplyErase \/ Unstage \/ StageRemoval
  \/ DropRemoved \/ DropStaged \/ Delete \/ Deleted \/ Add \/ Added

Request ==
  \E k \in Keys :
    \/ Get(k)
    \/ \E v \in Values, kind \in {"insert", "erase"} : Change(kind, k, v)
    \/ \E vals \in SUBSET Values : Set(k, vals)

-----------------------------------------------------------------------------
(***************************************************************************)
(* cache::syncThread.                                                      *)
(***************************************************************************)
SyncStep(from, to) == syncPc = from /\ syncPc' = to

\* Mistake: the flag is taken to mean what its name says.
SyncTestNot ==
  /\ SyncStep("test", IF stop THEN "exited" ELSE "sleep")
  /\ UNCHANGED <<lruVars, rwVars, pc, op, toAdd, toRemove, redisVars, endVars, histVars>>

\* while (stop), and promise.set_value when it ends.
SyncTest ==
  /\ SyncStep("test", IF stop THEN "sleep" ELSE "exited")
  /\ UNCHANGED <<lruVars, rwVars, pc, op, toAdd, toRemove, redisVars, endVars, histVars>>

\* Mistake: the removals are emptied and not taken.
ResetInsertionsOnly ==
  /\ SyncStep("sleep", "flush")
  /\ toAdd' = staged /\ toRemove' = {}
  /\ staged' = {} /\ removed' = {}
  /\ UNCHANGED <<lruVars, pc, op, redisVars, endVars, histVars>>

\* The thread wakes up: rwSetCache::reset takes both maps and empties them.
Reset ==
  /\ SyncStep("sleep", "flush")
  /\ toAdd' = staged /\ toRemove' = removed
  /\ staged' = {} /\ removed' = {}
  /\ crossed' = (crossed \/ (pc # "idle" /\ OfKey(staged \cup removed, op.key) # {}))
  /\ recent' = Underway
  /\ fresh' = fresh \ (Underway \cap (redis \cup staged))
  /\ UNCHANGED <<lruVars, pc, op, redisVars, endVars, count, known, last, asked>>

\* One SADD for each service of the first map, then one SREM for each of the
\* second.  Whether they succeed is not looked at.
Flush ==
  \E k \in Keys :
    /\ SyncStep("flush", "reply")
    /\ \/ /\ OfKey(toAdd, k) # {}
          /\ Send(redis \cup OfKey(toAdd, k), Number)
          /\ toAdd' = toAdd \ OfKey(toAdd, k)
          /\ UNCHANGED toRemove
       \/ /\ toAdd = {} /\ OfKey(toRemove, k) # {}
          /\ Send(redis \ OfKey(toRemove, k), Number)
          /\ toRemove' = toRemove \ OfKey(toRemove, k)
          /\ UNCHANGED toAdd
    /\ UNCHANGED <<lruVars, rwVars, pc, op, endVars, histVars>>

\* Mistake: the thread does not read the reply.
FlushReplyUnread ==
  /\ SyncStep("reply", "flush")
  /\ UNCHANGED <<lruVars, rwVars, pc, op, toAdd, toRemove, redisVars, endVars, histVars>>

FlushReply ==
  /\ SyncStep("reply", "flush")
  /\ TestReply
  /\ UNCHANGED <<lruVars, rwVars, pc, op, toAdd, toRemove, histVars>>

FlushEnd ==
  /\ toAdd \cup toRemove = {}
  /\ SyncStep("flush", "test")
  /\ UNCHANGED <<lruVars, rwVars, pc, op, toAdd, toRemove, redisVars, endVars, histVars>>

Sync == SyncTest \/ Reset \/ Flush \/ FlushReply \/ FlushEnd

-----------------------------------------------------------------------------
\* ~cache: clear stop, then wait for the promise.
Destroy ==
  /\ Shutdown
  /\ dtor = "alive" /\ pc = "idle"
  /\ dtor' = "waiting"
  /\ stop' = FALSE
  /\ UNCHANGED <<lruVars, rwVars, pc, op, syncVars, redisVars, status, histVars>>

Destroyed ==
  /\ dtor = "waiting" /\ syncPc = "exited"
  /\ dtor' = "destroyed"
  /\ UNCHANGED <<lruVars, rwVars, pc, op, syncVars, redisVars, stop, status, histVars>>

\* External: the connection breaks, and hiredis does not restore it.
LoseRedis ==
  /\ RedisFails /\ connected
  /\ connected' = FALSE
  /\ wire' = <<>>
  /\ UNCHANGED <<lruVars, rwVars, pc, op, syncVars, redis, overlapped, endVars, histVars>>

\* Both threads are inside hiredis with the same context.  Swapped replies are
\* one outcome; memory corruption and a thread that waits for ever are others.
Collide ==
  /\ WorkerWaits /\ SyncWaits
  /\ status' = "undefined"
  /\ UNCHANGED <<lruVars, rwVars, pc, op, syncVars, redisVars, stop, dtor, histVars>>

Up == status = "up"

Next ==
  /\ Up
  /\ Request \/ Worker \/ Sync \/ Destroy \/ Destroyed \/ LoseRedis \/ Collide

Spec == Init /\ [][Next]_vars

\* Both threads run and redis answers; requests need not come.
FairSpec ==
  Spec /\ WF_vars(Up /\ Worker) /\ WF_vars(Up /\ Sync) /\ WF_vars(Up /\ Destroyed)

-----------------------------------------------------------------------------
(***************************************************************************)
(* Properties.                                                             *)
(***************************************************************************)

TypeOK ==
  /\ DOMAIN data \subseteq Keys /\ \A k \in DOMAIN data : data[k] \subseteq Values
  /\ recentGets \in Seq(Keys)
  /\ \A pairs \in {staged, removed, toAdd, toRemove, redis, known} : pairs \subseteq Pairs
  /\ pc \in {"idle", "fetch", "fetched", "apply", "cancelRemoval", "stage", "unstage",
             "remove", "dropRemoved", "dropStaged", "delete", "deleted", "add", "added"}
  /\ op = NoOp \/ op \in [kind : Kinds, key : Keys, vals : SUBSET Values]
  /\ syncPc \in {"test", "sleep", "flush", "reply", "exited"}
  /\ dtor \in {"alive", "waiting", "destroyed"}
  /\ {stop, connected, crossed, overlapped} \subseteq BOOLEAN
  /\ status \in {"up", "undefined"}

\* recentGets lists no service twice, lists cached ones only, and until an
\* eviction has failed lists all of them: when LRUCache::set evicts, the list is
\* never empty and its first element is cached.
LruTracked ==
  /\ IsInjective(recentGets)
  /\ ToSet(recentGets) \subseteq DOMAIN data
  /\ Cardinality(DOMAIN data) <= CacheSize => ToSet(recentGets) = DOMAIN data

\* There is one unread reply for each thread that waits for one: although the
\* threads may read each other's, none is left over once both are served.
RepliesBalanced ==
  connected =>
    Len(wire) = (IF WorkerWaits THEN 1 ELSE 0) + (IF SyncWaits THEN 1 ELSE 0)

\* As long as the threads' commands have not overlapped, addresses listed for a
\* service were registered for that service, or were in redis for it from the
\* start: evictions and a lost connection may shorten a list, no more.  (After an
\* overlap the worker may read the reply to its own previous question, and list
\* the addresses of another service.)
NothingInvented ==
  ~overlapped => \A k \in DOMAIN data : {k} \X data[k] \subseteq known

\* The last operation on p is of this kind and done, and the period of syncThread
\* in which it began has none against it: no withdrawal before a registration, and
\* before a withdrawal no registration, unless redis neither had p nor was about to
\* be told of it.
Settled(p, kind) ==
  /\ last[p] = kind /\ p \notin Underway
  /\ kind = "insert" => "erase" \notin asked[p]
  /\ kind = "erase" => "insert" \notin asked[p] \/ p \in fresh

\* An address that was registered last is in redis or on its way there, and no
\* removal of it follows; one withdrawn last is not pending, and is out of redis or
\* will be.  This holds whatever was done to the address in earlier periods, whatever
\* a replacement left, between all steps of syncThread, and for an address registered
\* and withdrawn within one period, if it was new.  It does not for one that is
\* registered again and withdrawn in a period (rwSetCache::erase cancels the pending
\* insertion and stages no removal: redis keeps it), nor for one that syncThread takes
\* between the test and the cancellation, nor for one withdrawn and registered in a
\* period (rwSetCache::insert does not cancel the removal, which is sent second).
ChangesKept ==
  \A p \in Pairs :
    /\ Settled(p, "insert") => /\ p \in staged \/ p \in (redis \cup toAdd) \ toRemove
                               /\ p \notin removed
    /\ Settled(p, "erase") => /\ p \notin redis \cup toAdd \/ p \in removed \cup toRemove
                              /\ p \notin staged

\* A replacement of a service's addresses that the sync thread did not cross
\* leaves redis with exactly those addresses, and nothing pending for it.
SetReplaces ==
  op.kind = "set" /\ pc = "idle" /\ ~crossed =>
    /\ ValuesOf(redis, op.key) = op.vals
    /\ OfKey(staged \cup removed, op.key) = {}

\* Redis eventually agrees: what was asked for an address takes effect, unless
\* something else is asked for it before, the cache is destroyed, or the threads
\* collide.
RedisConverges ==
  \A p \in Pairs :
    /\ Settled(p, "insert") ~> (p \in redis \/ ~Settled(p, "insert") \/ ~Up \/ ~stop)
    /\ Settled(p, "erase") ~> (p \notin redis \/ ~Settled(p, "erase") \/ ~Up \/ ~stop)
=============================================================================
