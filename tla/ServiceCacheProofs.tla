-------------------------- MODULE ServiceCacheProofs --------------------------
(***************************************************************************)
(* The safety properties of ServiceCache, for any services, addresses,     *)
(* sizes and numbers of operations.                                        *)
(***************************************************************************)
EXTENDS ServiceCache, FiniteSetTheorems, SequenceTheorems, NaturalsInduction, WellFoundedInduction, TLAPS

-----------------------------------------------------------------------------
(***************************************************************************)
(* The list of an LRU cache.                                               *)
(***************************************************************************)
LEMMA LeastNumber ==
  ASSUME NEW S, S \subseteq Nat, S # {}
  PROVE  \E m \in S : \A n \in S : m <= n
<1> DEFINE Below == {x \in Nat \X Nat : x[1] < x[2]}
<1>1. IsWellFoundedOn(Below, Nat)
  BY NatLessThanWellFounded DEF OpToRel
<1>2. \A m, n \in Nat : n < m => <<n, m>> \in Below
  OBVIOUS
<1> HIDE DEF Below
<1>3. PICK m \in S : \A n \in S : <<n, m>> \notin Below
  BY <1>1, WFMin
<1>4. \A n \in S : ~(n < m)
  BY <1>2, <1>3
<1>5. \A n \in S : m <= n
  BY <1>4
<1> QED BY <1>5


LEMMA AppendSet ==
  ASSUME NEW T, NEW s \in Seq(T), NEW e \in T
  PROVE  /\ Append(s, e) \in Seq(T) /\ Len(Append(s, e)) = Len(s) + 1
         /\ ToSet(Append(s, e)) = ToSet(s) \cup {e}
         /\ IsInjective(s) /\ e \notin ToSet(s) => IsInjective(Append(s, e))
<1>1. /\ Append(s, e) \in Seq(T) /\ Len(Append(s, e)) = Len(s) + 1 /\ Len(s) \in Nat
      /\ DOMAIN Append(s, e) = 1..(Len(s) + 1) /\ DOMAIN s = 1..Len(s)
      /\ \A i \in 1..Len(s) : Append(s, e)[i] = s[i]
      /\ Append(s, e)[Len(s) + 1] = e
  BY AppendProperties, LenProperties
<1>2. 1..(Len(s) + 1) = 1..Len(s) \cup {Len(s) + 1}
  BY <1>1
<1>3. ToSet(Append(s, e)) = ToSet(s) \cup {e}
  BY <1>1, <1>2 DEF ToSet
<1>4. ASSUME IsInjective(s), e \notin ToSet(s) PROVE IsInjective(Append(s, e))
  BY <1>1, <1>2, <1>4 DEF ToSet, IsInjective
<1> QED BY <1>1, <1>3, <1>4

LEMMA TailSet ==
  ASSUME NEW T, NEW s \in Seq(T), s # <<>>
  PROVE  /\ Head(s) \in T /\ Tail(s) \in Seq(T) /\ Len(Tail(s)) = Len(s) - 1
         /\ ToSet(s) = ToSet(Tail(s)) \cup {Head(s)}
         /\ IsInjective(s) => IsInjective(Tail(s)) /\ Head(s) \notin ToSet(Tail(s))
<1>1. /\ Head(s) \in T /\ Tail(s) \in Seq(T) /\ Len(Tail(s)) = Len(s) - 1 /\ Len(s) \in Nat \ {0}
      /\ \A i \in 1..Len(Tail(s)) : Tail(s)[i] = s[i + 1]
      /\ DOMAIN s = 1..Len(s) /\ DOMAIN Tail(s) = 1..(Len(s) - 1)
  BY HeadTailProperties, EmptySeq, LenProperties
<1>2. Head(s) = s[1]
  OBVIOUS
<1>3. ASSUME NEW x PROVE x \in ToSet(s) <=> x \in ToSet(Tail(s)) \/ x = Head(s)
  <2>1. ASSUME NEW i \in 1..Len(s), s[i] = x, x # Head(s) PROVE x \in ToSet(Tail(s))
    <3>1. i - 1 \in 1..Len(Tail(s)) /\ (i - 1) + 1 = i
      BY <1>1, <1>2, <2>1
    <3>2. i - 1 \in DOMAIN Tail(s) /\ Tail(s)[i - 1] = x
      BY <1>1, <2>1, <3>1
    <3> QED BY <3>2 DEF ToSet
  <2>2. ASSUME NEW i \in 1..Len(Tail(s)), Tail(s)[i] = x PROVE x \in ToSet(s)
    <3>1. i + 1 \in 1..Len(s) /\ s[i + 1] = x
      BY <1>1, <2>2
    <3> QED BY <1>1, <3>1 DEF ToSet
  <2>3. Head(s) \in ToSet(s)
    BY <1>1, <1>2 DEF ToSet
  <2> QED BY <1>1, <2>1, <2>2, <2>3 DEF ToSet
<1>4. ASSUME IsInjective(s) PROVE IsInjective(Tail(s)) /\ Head(s) \notin ToSet(Tail(s))
  <2>1. \A i \in 1..Len(Tail(s)) : i + 1 \in 1..Len(s) /\ i + 1 # 1 /\ 1 \in 1..Len(s)
    BY <1>1
  <2>2. Head(s) \notin ToSet(Tail(s))
    BY <1>1, <1>2, <1>4, <2>1 DEF ToSet, IsInjective
  <2>3. ASSUME NEW i \in 1..Len(Tail(s)), NEW j \in 1..Len(Tail(s)), Tail(s)[i] = Tail(s)[j]
        PROVE  i = j
    <3>1. i + 1 = j + 1
      BY <1>1, <1>4, <2>1, <2>3 DEF IsInjective
    <3> QED BY <3>1
  <2> QED BY <1>1, <2>2, <2>3 DEF IsInjective
<1> QED BY <1>1, <1>3, <1>4

\* A list without the place of one of its elements.
LEMMA RemoveAtSet ==
  ASSUME NEW T, NEW s \in Seq(T), NEW i \in 1..Len(s), IsInjective(s)
  PROVE  /\ RemoveAt(s, i) \in Seq(T)
         /\ ToSet(RemoveAt(s, i)) = ToSet(s) \ {s[i]}
         /\ IsInjective(RemoveAt(s, i))
<1> DEFINE front == SubSeq(s, 1, i - 1)
           rest  == SubSeq(s, i + 1, Len(s))
           t     == RemoveAt(s, i)
<1>1. Len(s) \in Nat /\ DOMAIN s = 1..Len(s) /\ \A j \in 1..Len(s) : s[j] \in T
  BY LenProperties, ElementOfSeq
<1>2. front \in Seq(T) /\ Len(front) = i - 1 /\ \A j \in 1..(i - 1) : front[j] = s[j]
  <2>1. \A j \in 1..(i - 1) : s[j] \in T
    BY <1>1
  <2>2. /\ SubSeq(s, 1, i - 1) \in Seq(T)
        /\ Len(SubSeq(s, 1, i - 1)) = IF 1 <= i - 1 THEN (i - 1) - 1 + 1 ELSE 0
        /\ \A j \in 1..((i - 1) - 1 + 1) : SubSeq(s, 1, i - 1)[j] = s[1 + j - 1]
    BY <2>1, SubSeqProperties
  <2> QED BY <2>2
<1>3. rest \in Seq(T) /\ Len(rest) = Len(s) - i /\ \A j \in 1..(Len(s) - i) : rest[j] = s[i + j]
  <2>1. \A j \in (i + 1)..Len(s) : s[j] \in T
    BY <1>1
  <2>2. /\ SubSeq(s, i + 1, Len(s)) \in Seq(T)
        /\ Len(SubSeq(s, i + 1, Len(s))) = IF i + 1 <= Len(s) THEN Len(s) - (i + 1) + 1 ELSE 0
        /\ \A j \in 1..(Len(s) - (i + 1) + 1) : SubSeq(s, i + 1, Len(s))[j] = s[(i + 1) + j - 1]
    BY <1>1, <2>1, SubSeqProperties
  <2>3. /\ Len(s) - (i + 1) + 1 = Len(s) - i
        /\ \A j \in 1..(Len(s) - i) : (i + 1) + j - 1 = i + j
    BY <1>1
  <2>4. CASE i + 1 <= Len(s)
    BY <2>2, <2>3, <2>4
  <2>5. CASE ~(i + 1 <= Len(s))
    <3>1. Len(s) \in Nat /\ i \in Nat /\ i <= Len(s)
      BY <1>1
    <3>2. Len(s) - i = 0
      BY <2>5, <3>1
    <3> QED BY <2>2, <2>3, <2>5, <3>2
  <2> QED BY <2>4, <2>5
<1>4. /\ t \in Seq(T) /\ Len(t) = Len(s) - 1
      /\ \A j \in 1..(Len(s) - 1) : t[j] = s[IF j < i THEN j ELSE j + 1]
  <2> HIDE DEF front, rest
  <2>1. /\ front \o rest \in Seq(T) /\ Len(front \o rest) = Len(front) + Len(rest)
        /\ \A j \in 1..(Len(front) + Len(rest)) :
             (front \o rest)[j] = IF j <= Len(front) THEN front[j] ELSE rest[j - Len(front)]
    BY <1>2, <1>3, ConcatProperties
  <2>2. t = front \o rest
    BY DEF front, rest, RemoveAt
  <2>3. ASSUME NEW j \in 1..(Len(s) - 1) PROVE t[j] = s[IF j < i THEN j ELSE j + 1]
    <3>1. CASE j < i
      BY <1>1, <1>2, <1>3, <2>1, <2>2, <3>1
    <3>2. CASE ~(j < i)
      <4>1. j - (i - 1) \in 1..(Len(s) - i) /\ ~(j <= i - 1) /\ i + (j - (i - 1)) = j + 1
        BY <1>1, <3>2
      <4>2. rest[j - (i - 1)] = s[i + (j - (i - 1))]
        BY <1>3, <4>1
      <4>3. t[j] = rest[j - (i - 1)]
        BY <1>1, <1>2, <1>3, <2>1, <2>2, <4>1
      <4> QED BY <3>2, <4>1, <4>2, <4>3
    <3> QED BY <3>1, <3>2
  <2>4. t \in Seq(T) /\ Len(t) = Len(s) - 1
    <3>1. Len(t) = Len(front) + Len(rest)
      BY <2>1, <2>2
    <3>2. Len(front) + Len(rest) = Len(s) - 1
      BY <1>1, <1>2, <1>3
    <3> QED BY <2>1, <2>2, <3>1, <3>2
  <2> QED BY <2>3, <2>4
<1> HIDE DEF t
<1>5. DOMAIN t = 1..(Len(s) - 1)
  BY <1>4, LenProperties
<1>6. ToSet(t) = ToSet(s) \ {s[i]}
  <2>1. ASSUME NEW j \in 1..(Len(s) - 1) PROVE t[j] \in ToSet(s) \ {s[i]}
    <3>1. (IF j < i THEN j ELSE j + 1) \in 1..Len(s) \ {i}
      BY <1>1
    <3> QED BY <1>1, <1>4, <3>1 DEF ToSet, IsInjective
  <2>2. ASSUME NEW j \in 1..Len(s), j # i PROVE s[j] \in ToSet(t)
    <3>1. CASE j < i
      <4>1. j \in 1..(Len(s) - 1) /\ t[j] = s[j]
        BY <1>1, <1>4, <3>1
      <4> QED BY <1>5, <4>1 DEF ToSet
    <3>2. CASE ~(j < i)
      <4>1. j - 1 \in 1..(Len(s) - 1) /\ ~(j - 1 < i) /\ (j - 1) + 1 = j
        BY <1>1, <2>2, <3>2
      <4>2. t[j - 1] = s[j]
        BY <1>4, <4>1
      <4> QED BY <1>5, <4>1, <4>2 DEF ToSet
    <3> QED BY <3>1, <3>2
  <2> QED BY <1>1, <1>5, <2>1, <2>2 DEF ToSet
<1>7. IsInjective(t)
  <2>1. ASSUME NEW j \in 1..(Len(s) - 1), NEW k \in 1..(Len(s) - 1), t[j] = t[k] PROVE j = k
    <3>1. /\ (IF j < i THEN j ELSE j + 1) \in 1..Len(s)
          /\ (IF k < i THEN k ELSE k + 1) \in 1..Len(s)
      BY <1>1
    <3>2. (IF j < i THEN j ELSE j + 1) = (IF k < i THEN k ELSE k + 1)
      BY <1>1, <1>4, <2>1, <3>1 DEF IsInjective
    <3> QED BY <3>2
  <2> QED BY <1>5, <2>1 DEF IsInjective
<1> QED BY <1>4, <1>6, <1>7 DEF t

LEMMA RemoveFirstSet ==
  ASSUME NEW T, NEW s \in Seq(T), NEW e, IsInjective(s)
  PROVE  /\ RemoveFirst(s, e) \in Seq(T)
         /\ ToSet(RemoveFirst(s, e)) = ToSet(s) \ {e}
         /\ IsInjective(RemoveFirst(s, e))
<1>1. Len(s) \in Nat /\ DOMAIN s = 1..Len(s)
  BY LenProperties
<1>2. CASE \E i \in 1..Len(s) : s[i] = e
  <2> DEFINE places == {i \in 1..Len(s) : s[i] = e}
             place == IF places # {} THEN Min(places) ELSE 0
  <2>1. place \in 1..Len(s) /\ s[place] = e
    <3>1. places # {} /\ places \subseteq 1..Len(s) /\ places \subseteq Nat
      BY <1>1, <1>2
    <3>2. \A i \in places : i \in 1..Len(s) /\ s[i] = e
      OBVIOUS
    <3> HIDE DEF places
    <3>3. \E m \in places : \A n \in places : m <= n
      BY <3>1, LeastNumber
    <3>4. Min(places) \in places
      BY <3>3 DEF Min
    <3> QED BY <3>1, <3>2, <3>4
  <2>2. RemoveFirst(s, e) = RemoveAt(s, place)
    BY <1>2 DEF RemoveFirst, SelectInSeq
  <2> HIDE DEF place
  <2> QED BY <2>1, <2>2, RemoveAtSet
<1>3. CASE ~ \E i \in 1..Len(s) : s[i] = e
  BY <1>1, <1>3 DEF RemoveFirst, ToSet
<1> QED BY <1>2, <1>3
-----------------------------------------------------------------------------
(***************************************************************************)
(* The LRU cache.                                                          *)
(***************************************************************************)
LruTypes ==
  /\ DOMAIN data \subseteq Keys /\ \A k \in DOMAIN data : data[k] \subseteq Values
  /\ recentGets \in Seq(Keys)

LruInv == LruTypes /\ LruTracked

LEMMA WithSets ==
  ASSUME LruTypes, NEW k \in Keys, NEW vals \in SUBSET Values, NEW gone
  PROVE  /\ DOMAIN With(k, vals, gone) = (DOMAIN data \ gone) \cup {k}
         /\ DOMAIN With(k, vals, gone) \subseteq Keys
         /\ With(k, vals, gone)[k] = vals
         /\ \A x \in DOMAIN With(k, vals, gone) :
              /\ With(k, vals, gone)[x] \subseteq Values
              /\ x # k => x \in DOMAIN data /\ With(k, vals, gone)[x] = data[x]
BY DEF LruTypes, With

LEMMA DataFinite ==
  ASSUME LruTypes
  PROVE  IsFiniteSet(DOMAIN data) /\ Cardinality(DOMAIN data) \in Nat
BY CacheAssumption, FS_Subset, FS_CardinalityType DEF LruTypes

\* LRUCache::set keeps the list in step with the map, whether the eviction
\* succeeds or not.
LEMMA LruSetKeeps ==
  ASSUME LruInv, NEW k \in Keys, NEW vals \in SUBSET Values, LruSet(k, vals)
  PROVE  LruInv' /\ k \in DOMAIN data'
<1> USE DEF LruInv
<1>1. IsFiniteSet(DOMAIN data) /\ Cardinality(DOMAIN data) \in Nat
  BY DataFinite
<1>2. CASE k \in DOMAIN data /\ data' = With(k, vals, {}) /\ UNCHANGED recentGets
  <2>1. DOMAIN data' = DOMAIN data
    <3>1. DOMAIN data' = (DOMAIN data \ {}) \cup {k}
      BY <1>2, WithSets
    <3> QED BY <1>2, <3>1
  <2>2. LruTypes'
    BY <1>2, WithSets DEF LruTypes
  <2> QED BY <1>2, <2>1, <2>2 DEF LruTracked
<1>3. CASE /\ k \notin DOMAIN data /\ Cardinality(DOMAIN data) # CacheSize
           /\ data' = With(k, vals, {}) /\ recentGets' = Append(recentGets, k)
  <2>1. DOMAIN data' = DOMAIN data \cup {k}
    <3>1. DOMAIN data' = (DOMAIN data \ {}) \cup {k}
      BY <1>3, WithSets
    <3> QED BY <3>1
  <2>2. /\ recentGets' \in Seq(Keys) /\ ToSet(recentGets') = ToSet(recentGets) \cup {k}
        /\ IsInjective(recentGets) /\ k \notin ToSet(recentGets) => IsInjective(recentGets')
    BY <1>3, AppendSet DEF LruTypes
  <2>3. LruTypes'
    BY <1>3, <2>2, WithSets DEF LruTypes
  <2>4. Cardinality(DOMAIN data') = Cardinality(DOMAIN data) + 1
    BY <1>1, <1>3, <2>1, FS_AddElement
  <2>5. Cardinality(DOMAIN data') <= CacheSize => Cardinality(DOMAIN data) <= CacheSize
    BY <1>1, <2>4, CacheAssumption
  <2> QED BY <1>3, <2>1, <2>2, <2>3, <2>5 DEF LruTracked
<1>4. CASE /\ k \notin DOMAIN data /\ Cardinality(DOMAIN data) = CacheSize
           /\ \E gone \in {{Head(recentGets)}, {}} : data' = With(k, vals, gone)
           /\ recentGets' = Append(Tail(recentGets), k)
  <2> DEFINE h == Head(recentGets)
  <2>1. ToSet(recentGets) = DOMAIN data /\ DOMAIN data # {}
    <3>1. CacheSize \in Nat /\ CacheSize # 0
      BY CacheAssumption
    <3> QED BY <1>1, <1>4, <3>1, FS_EmptySet DEF LruTracked
  <2>2. recentGets # <<>>
    BY <2>1 DEF ToSet
  <2>3. /\ h \in Keys /\ Tail(recentGets) \in Seq(Keys)
        /\ ToSet(recentGets) = ToSet(Tail(recentGets)) \cup {h}
        /\ IsInjective(Tail(recentGets)) /\ h \notin ToSet(Tail(recentGets))
    BY <2>2, TailSet DEF LruTypes, LruTracked
  <2>4. k \notin ToSet(Tail(recentGets))
    BY <1>4, <2>1, <2>3
  <2>5. /\ recentGets' \in Seq(Keys) /\ ToSet(recentGets') = ToSet(Tail(recentGets)) \cup {k}
        /\ IsInjective(recentGets')
    <3> DEFINE t == Tail(recentGets)
    <3>1. t \in Seq(Keys) /\ IsInjective(t) /\ k \notin ToSet(t) /\ recentGets' = Append(t, k)
      BY <1>4, <2>3, <2>4
    <3>2. ToSet(recentGets') = ToSet(t) \cup {k}
      <4> HIDE DEF t
      <4> QED BY <3>1, AppendSet
    <3>3. recentGets' \in Seq(Keys) /\ IsInjective(recentGets')
      <4> HIDE DEF t
      <4> QED BY <3>1, AppendSet
    <3> QED BY <3>2, <3>3
  <2>6. CASE data' = With(k, vals, {h})
    <3>1. DOMAIN data' = (DOMAIN data \ {h}) \cup {k}
      BY <2>6, WithSets
    <3>2. LruTypes'
      BY <2>5, <2>6, WithSets DEF LruTypes
    <3>3. ToSet(recentGets') = DOMAIN data'
      BY <2>1, <2>3, <2>5, <3>1
    <3> QED BY <2>5, <3>1, <3>2, <3>3 DEF LruTracked
  <2>7. CASE data' = With(k, vals, {})
    <3>1. DOMAIN data' = DOMAIN data \cup {k}
      <4>1. DOMAIN data' = (DOMAIN data \ {}) \cup {k}
        BY <2>7, WithSets
      <4> QED BY <4>1
    <3>2. LruTypes'
      BY <2>5, <2>7, WithSets DEF LruTypes
    <3>3. Cardinality(DOMAIN data') = CacheSize + 1
      BY <1>1, <1>4, <3>1, FS_AddElement
    <3>4. ~(Cardinality(DOMAIN data') <= CacheSize)
      BY <3>3, CacheAssumption
    <3> QED BY <2>1, <2>3, <2>5, <3>1, <3>2, <3>4 DEF LruTracked
  <2> QED BY <1>4, <2>6, <2>7
<1> QED BY <1>2, <1>3, <1>4 DEF LruSet

\* A hit moves the service to the end of the list, or puts it back there.
LEMMA UsedKeeps ==
  ASSUME LruInv, NEW k \in DOMAIN data, recentGets' = Used(k), data' = data
  PROVE  LruInv'
<1> USE DEF LruInv, LruTypes
<1>1. /\ RemoveFirst(recentGets, k) \in Seq(Keys)
      /\ ToSet(RemoveFirst(recentGets, k)) = ToSet(recentGets) \ {k}
      /\ IsInjective(RemoveFirst(recentGets, k))
  BY RemoveFirstSet DEF LruTracked
<1>2. /\ recentGets' \in Seq(Keys) /\ ToSet(recentGets') = (ToSet(recentGets) \ {k}) \cup {k}
      /\ IsInjective(recentGets')
  BY <1>1, AppendSet DEF Used
<1> QED BY <1>2 DEF LruTracked

-----------------------------------------------------------------------------
(***************************************************************************)
(* The two threads and the connection.                                     *)
(***************************************************************************)
Replies == [type : {"integer", "array"}, members : SUBSET Values]
Ops == [kind : Kinds, key : Keys, vals : SUBSET Values]

PairSets ==
  /\ staged \subseteq Pairs /\ removed \subseteq Pairs
  /\ toAdd \subseteq Pairs /\ toRemove \subseteq Pairs
  /\ redis \subseteq Pairs /\ known \subseteq Pairs

Flags == stop \in BOOLEAN /\ connected \in BOOLEAN /\ crossed \in BOOLEAN /\ overlapped \in BOOLEAN

Places ==
  /\ pc \in {"idle", "fetch", "fetched", "apply", "cancelRemoval", "stage", "unstage",
             "remove", "dropRemoved", "dropStaged", "delete", "deleted", "add", "added"}
  /\ syncPc \in {"test", "sleep", "flush", "reply", "exited"}
  /\ dtor \in {"alive", "waiting", "destroyed"}
  /\ status \in {"up", "undefined"}

\* Which operation is where.
OpPlaces ==
  /\ (op = NoOp /\ pc = "idle") \/ op \in Ops
  /\ op.kind = "get" => op.vals = {}
  /\ pc \in {"fetch", "fetched"} => op.kind \in {"get", "insert", "erase"}
  /\ pc = "apply" => op.kind \in {"insert", "erase"} /\ op.key \in DOMAIN data
  /\ pc \in {"cancelRemoval", "stage"} => op.kind = "insert"
  /\ pc \in {"unstage", "remove"} => op.kind = "erase"
  /\ pc \in {"dropRemoved", "dropStaged", "delete", "deleted", "add", "added"} => op.kind = "set"

Wire == wire \in Seq(Replies) /\ RepliesBalanced

CacheInv == LruInv /\ PairSets /\ Flags /\ Places /\ OpPlaces /\ Wire

LEMMA CacheInit == Init => CacheInv
<1> SUFFICES ASSUME Init PROVE CacheInv
  OBVIOUS
<1> USE DEF Init
<1>1. LruInv
  <2>1. DOMAIN data = {} /\ ToSet(recentGets) = {}
    BY DEF ToSet
  <2> QED BY <2>1 DEF LruInv, LruTypes, LruTracked, IsInjective
<1>2. PairSets /\ Places /\ OpPlaces
  BY DEF PairSets, Places, OpPlaces, NoOp
<1>3. Flags
  BY DEF Flags
<1>4. Wire
  BY DEF Wire, RepliesBalanced, WorkerWaits, SyncWaits
<1> QED BY <1>1, <1>2, <1>3, <1>4 DEF CacheInv
LEMMA SendWire ==
  ASSUME Wire, Flags, NEW after, NEW reply \in Replies, Send(after, reply)
  PROVE  /\ wire' \in Seq(Replies) /\ connected' = connected
         /\ connected => Len(wire') = Len(wire) + 1 /\ wire' = Append(wire, reply) /\ redis' = after
         /\ ~connected => wire' = wire /\ redis' = redis
         /\ overlapped' \in BOOLEAN
         /\ overlapped' <=> overlapped \/ WorkerWaits \/ SyncWaits
<1>1. overlapped' \in BOOLEAN /\ (overlapped' <=> overlapped \/ WorkerWaits \/ SyncWaits)
  BY DEF Send, Flags
<1>2. Append(wire, reply) \in Seq(Replies) /\ Len(Append(wire, reply)) = Len(wire) + 1
  BY AppendSet DEF Wire
<1> QED BY <1>1, <1>2 DEF Send, Wire, Flags

LEMMA TakeWire ==
  ASSUME Wire, Flags, TakeReply
  PROVE  /\ wire' \in Seq(Replies) /\ redis' = redis /\ connected' = connected /\ overlapped' = overlapped
         /\ connected => Len(wire') = Len(wire) - 1 /\ Head(wire) \in Replies
         /\ Reply.members \subseteq Values
         /\ connected => Reply.type # "null"
<1>1. wire # <<>> => Head(wire) \in Replies /\ Tail(wire) \in Seq(Replies) /\ Len(Tail(wire)) = Len(wire) - 1
  BY TailSet DEF Wire
<1>2. CASE connected
  BY <1>1, <1>2 DEF TakeReply, Reply, Replies
<1>3. CASE ~connected
  BY <1>3 DEF TakeReply, Reply, Null, Wire
<1> QED BY <1>2, <1>3

\* No reply is expected and none is there, or one for each thread that waits.
LEMMA WireLength ==
  ASSUME Wire, connected
  PROVE  /\ Len(wire) \in Nat
         /\ WorkerWaits /\ SyncWaits => Len(wire) = 2
         /\ (WorkerWaits /\ ~SyncWaits) \/ (~WorkerWaits /\ SyncWaits) => Len(wire) = 1
         /\ ~WorkerWaits /\ ~SyncWaits => Len(wire) = 0
<1>1. Len(wire) \in Nat
  BY LenProperties DEF Wire
<1> QED BY <1>1 DEF Wire, RepliesBalanced

\* A thread that sends begins to wait; one that takes a reply has waited.
LEMMA WireSent ==
  ASSUME Wire, wire' \in Seq(Replies), connected' = connected, connected => Len(wire') = Len(wire) + 1,
         \/ ~WorkerWaits /\ WorkerWaits' /\ (SyncWaits' <=> SyncWaits)
         \/ ~SyncWaits /\ SyncWaits' /\ (WorkerWaits' <=> WorkerWaits)
  PROVE  Wire'
BY WireLength DEF Wire, RepliesBalanced

LEMMA WireTaken ==
  ASSUME Wire, wire' \in Seq(Replies), connected' = connected, connected => Len(wire') = Len(wire) - 1,
         \/ WorkerWaits /\ ~WorkerWaits' /\ (SyncWaits' <=> SyncWaits)
         \/ SyncWaits /\ ~SyncWaits' /\ (WorkerWaits' <=> WorkerWaits)
  PROVE  Wire'
BY WireLength DEF Wire, RepliesBalanced

-----------------------------------------------------------------------------
(***************************************************************************)
(* The worker's steps keep the invariant.                                  *)
(***************************************************************************)
LEMMA RequestKeeps ==
  ASSUME CacheInv, Request
  PROVE  CacheInv'
<1> USE DEF CacheInv
<1>1. ASSUME NEW kind \in {"get", "insert", "erase", "set"}, NEW k \in Keys, NEW vals \in SUBSET Values,
             Begin(kind, k, vals), kind = "get" => vals = {}
      PROVE  /\ PairSets' /\ Flags' /\ pc = "idle" /\ wire' = wire /\ connected' = connected
             /\ op' = [kind |-> kind, key |-> k, vals |-> vals] /\ op' \in Ops
             /\ syncPc' = syncPc /\ dtor' = dtor /\ status' = status
             /\ op'.kind = kind /\ op'.key = k /\ op'.vals = vals
  <2>1. PairSets'
    BY <1>1 DEF Begin, PairSets, Pairs, rwVars, syncVars, redisVars
  <2>2. Flags'
    BY <1>1 DEF Begin, Flags, redisVars, endVars
  <2>3. /\ pc = "idle" /\ op' = [kind |-> kind, key |-> k, vals |-> vals] /\ kind \in Kinds
        /\ wire' = wire /\ connected' = connected
        /\ syncPc' = syncPc /\ dtor' = dtor /\ status' = status
    BY <1>1 DEF Begin, syncVars, redisVars, endVars
  <2>4. op' \in Ops
    BY <2>3 DEF Ops
  <2> QED BY <2>1, <2>2, <2>3, <2>4
<1>2. ASSUME NEW k \in Keys, Get(k) PROVE CacheInv'
  <2>1. Begin("get", k, {})
    BY <1>2 DEF Get
  <2>2. /\ PairSets' /\ Flags' /\ pc = "idle" /\ wire' = wire /\ connected' = connected
        /\ op' \in Ops /\ syncPc' = syncPc /\ dtor' = dtor /\ status' = status
        /\ op'.kind = "get" /\ op'.key = k /\ op'.vals = {}
    BY <1>1, <2>1
  <2>3. CASE k \in DOMAIN data /\ recentGets' = Used(k) /\ UNCHANGED <<data, pc>>
    <3>1. LruInv'
      BY <2>3, UsedKeeps
    <3>2. Places' /\ OpPlaces' /\ Wire'
      BY <2>2, <2>3 DEF Places, OpPlaces, Wire, RepliesBalanced, WorkerWaits, SyncWaits
    <3> QED BY <2>2, <3>1, <3>2
  <2>4. CASE k \notin DOMAIN data /\ pc' = "fetch" /\ UNCHANGED lruVars
    <3>1. LruInv'
      BY <2>4 DEF LruInv, LruTypes, LruTracked, lruVars
    <3>2. Places' /\ OpPlaces' /\ Wire'
      BY <2>2, <2>4 DEF Places, OpPlaces, Wire, RepliesBalanced, WorkerWaits, SyncWaits
    <3> QED BY <2>2, <3>1, <3>2
  <2> QED BY <1>2, <2>3, <2>4 DEF Get
<1>3. ASSUME NEW k \in Keys, NEW v \in Values, NEW kind \in {"insert", "erase"}, Change(kind, k, v)
      PROVE  CacheInv'
  <2>1. Begin(kind, k, {v})
    BY <1>3 DEF Change
  <2>2. /\ PairSets' /\ Flags' /\ pc = "idle" /\ wire' = wire /\ connected' = connected
        /\ op' \in Ops /\ syncPc' = syncPc /\ dtor' = dtor /\ status' = status
        /\ op'.kind = kind /\ op'.key = k
    BY <1>1, <2>1
  <2>3. pc' = (IF k \in DOMAIN data THEN "apply" ELSE "fetch") /\ UNCHANGED <<data, recentGets>>
    BY <1>3 DEF Change, lruVars
  <2>4. LruInv'
    BY <2>3 DEF LruInv, LruTypes, LruTracked
  <2>5. Places' /\ OpPlaces' /\ Wire'
    BY <2>2, <2>3 DEF Places, OpPlaces, Wire, RepliesBalanced, WorkerWaits, SyncWaits
  <2> QED BY <2>2, <2>4, <2>5
<1>4. ASSUME NEW k \in Keys, NEW vals \in SUBSET Values, Set(k, vals)
      PROVE  CacheInv'
  <2>1. Begin("set", k, vals) /\ LruSet(k, vals) /\ pc' = "dropRemoved"
    BY <1>4 DEF Set
  <2>2. /\ PairSets' /\ Flags' /\ pc = "idle" /\ wire' = wire /\ connected' = connected
        /\ op' \in Ops /\ syncPc' = syncPc /\ dtor' = dtor /\ status' = status
        /\ op'.kind = "set" /\ op'.key = k
    BY <1>1, <2>1
  <2>3. LruInv'
    BY <2>1, LruSetKeeps
  <2>4. Places' /\ OpPlaces' /\ Wire'
    BY <2>1, <2>2 DEF Places, OpPlaces, Wire, RepliesBalanced, WorkerWaits, SyncWaits
  <2> QED BY <2>2, <2>3, <2>4
<1> QED BY <1>2, <1>3, <1>4 DEF Request

LEMMA WorkerKeeps ==
  ASSUME CacheInv, Worker
  PROVE  CacheInv'
<1> USE DEF CacheInv
<1>1. CASE Fetch
  <2> DEFINE reply == [type |-> "array", members |-> ValuesOf(redis, op.key)]
  <2>1. reply \in Replies
    BY DEF Replies, ValuesOf, OfKey, PairSets, Pairs
  <2>2. Send(redis, reply) /\ pc = "fetch" /\ pc' = "fetched"
    BY <1>1 DEF Fetch, Step
  <2>3. /\ wire' \in Seq(Replies) /\ connected' = connected
        /\ connected => Len(wire') = Len(wire) + 1 /\ redis' = redis
        /\ ~connected => redis' = redis
        /\ overlapped' \in BOOLEAN
    <3> HIDE DEF reply
    <3> QED BY <2>1, <2>2, SendWire
  <2>4. Wire'
    <3>1. ~WorkerWaits /\ WorkerWaits' /\ (SyncWaits' <=> SyncWaits)
      BY <1>1, <2>2 DEF Fetch, syncVars, WorkerWaits, SyncWaits
    <3> QED BY <2>3, <3>1, WireSent
  <2>5. LruInv' /\ PairSets' /\ Flags'
    BY <1>1, <2>3 DEF Fetch, lruVars, rwVars, syncVars, endVars, histVars, LruInv, LruTypes, LruTracked,
       PairSets, Flags
  <2>6. Places' /\ OpPlaces'
    BY <1>1, <2>2 DEF Fetch, lruVars, syncVars, endVars, Places, OpPlaces
  <2> QED BY <2>4, <2>5, <2>6
<1>2. CASE Fetched
  <2>1. /\ pc = "fetched" /\ TakeReply /\ LruSet(op.key, Reply.members)
        /\ pc' = IF op.kind = "get" THEN "idle" ELSE "apply"
        /\ UNCHANGED <<rwVars, op, syncVars, endVars, histVars>>
    BY <1>2 DEF Fetched
  <2>2. op.key \in Keys /\ op \in Ops
    BY <2>1 DEF OpPlaces, Ops
  <2>3. /\ wire' \in Seq(Replies) /\ redis' = redis /\ connected' = connected /\ overlapped' = overlapped
        /\ connected => Len(wire') = Len(wire) - 1
        /\ Reply.members \subseteq Values
    BY <2>1, TakeWire
  <2>4. LruInv' /\ op.key \in DOMAIN data'
    BY <2>1, <2>2, <2>3, LruSetKeeps
  <2>5. Wire'
    <3>1. WorkerWaits /\ ~WorkerWaits' /\ (SyncWaits' <=> SyncWaits)
      BY <2>1 DEF syncVars, WorkerWaits, SyncWaits
    <3> QED BY <2>3, <3>1, WireTaken
  <2>6. PairSets' /\ Flags'
    BY <2>1, <2>3 DEF rwVars, syncVars, endVars, histVars, PairSets, Flags
  <2>7. Places' /\ OpPlaces'
    BY <2>1, <2>2, <2>4 DEF syncVars, endVars, Places, OpPlaces
  <2> QED BY <2>4, <2>5, <2>6, <2>7
\* A step that touches neither the connection nor the LRU cache.
<1>3. ASSUME Places', OpPlaces', PairSets', pc \notin {"fetched", "deleted", "added"},
             pc' \notin {"fetched", "deleted", "added"},
             UNCHANGED <<lruVars, op, syncVars, redisVars, endVars, histVars>>
      PROVE  CacheInv'
  <2>1. LruInv' /\ Flags'
    BY <1>3 DEF lruVars, redisVars, endVars, histVars, LruInv, LruTypes, LruTracked, Flags
  <2>2. Wire'
    BY <1>3 DEF syncVars, redisVars, Wire, RepliesBalanced, WorkerWaits, SyncWaits
  <2> QED BY <1>3, <2>1, <2>2
<1>4. ASSUME NEW vals \in SUBSET Values, op.key \in DOMAIN data, data' = With(op.key, vals, {}),
             pc = "apply",
             (pc' \in {"cancelRemoval", "stage"} /\ op.kind = "insert")
               \/ (pc' \in {"unstage", "remove"} /\ op.kind = "erase"),
             UNCHANGED <<recentGets, rwVars, op, syncVars, redisVars, endVars, histVars>>
      PROVE  CacheInv'
  <2>1. op.key \in Keys
    BY <1>4 DEF LruInv, LruTypes
  <2>2. LruTypes'
    BY <1>4, <2>1, WithSets DEF LruInv, LruTypes
  <2>3. DOMAIN data' = DOMAIN data
    <3>1. DOMAIN data' = (DOMAIN data \ {}) \cup {op.key}
      BY <1>4, <2>1, WithSets DEF LruInv
    <3> QED BY <1>4, <3>1
  <2>4. LruInv'
    BY <1>4, <2>2, <2>3 DEF LruInv, LruTracked
  <2>5. PairSets' /\ Flags' /\ Places'
    BY <1>4 DEF rwVars, syncVars, redisVars, endVars, histVars, PairSets, Flags, Places
  <2>6. OpPlaces' /\ Wire'
    BY <1>4 DEF syncVars, redisVars, OpPlaces, Wire, RepliesBalanced, WorkerWaits, SyncWaits
  <2> QED BY <2>4, <2>5, <2>6
<1>5. pc # "idle" => op \in Ops /\ op.vals \subseteq Values /\ OpPairs \subseteq Pairs
  BY DEF OpPlaces, Ops, OpPairs, Pairs
<1>6. CASE ApplyInsert
  <2>1. op.key \in DOMAIN data /\ data[op.key] \cup op.vals \in SUBSET Values
    BY <1>5, <1>6 DEF ApplyInsert, Step, OpPlaces, LruInv, LruTypes
  <2>2. /\ pc = "apply" /\ op.kind = "insert" /\ pc' \in {"cancelRemoval", "stage"}
        /\ data' = With(op.key, data[op.key] \cup op.vals, {})
        /\ UNCHANGED <<recentGets, rwVars, op, syncVars, redisVars, endVars, histVars>>
    BY <1>6 DEF ApplyInsert, Step
  <2>3. (pc' \in {"cancelRemoval", "stage"} /\ op.kind = "insert")
          \/ (pc' \in {"unstage", "remove"} /\ op.kind = "erase")
    BY <2>2
  <2> HIDE DEF CacheInv
  <2> QED BY ONLY <1>4, <2>1, <2>2, <2>3
<1>7. CASE ApplyErase
  <2>1. op.key \in DOMAIN data /\ data[op.key] \ op.vals \in SUBSET Values
    BY <1>5, <1>7 DEF ApplyErase, Step, OpPlaces, LruInv, LruTypes
  <2> QED BY <1>4, <1>7, <2>1 DEF ApplyErase, Step
<1>8. CASE CancelRemoval \/ Stage \/ Unstage \/ StageRemoval \/ DropRemoved \/ DropStaged
  <2>1. /\ pc \notin {"idle", "fetched", "deleted", "added"} /\ pc' \notin {"fetched", "deleted", "added"}
        /\ UNCHANGED <<lruVars, op, syncVars, redisVars, endVars, histVars>>
    BY <1>8 DEF CancelRemoval, Stage, Unstage, StageRemoval, DropRemoved, DropStaged, Step
  <2>2. /\ staged' \in {staged, staged \cup OpPairs, staged \ OpPairs, staged \ OfKey(staged, op.key)}
        /\ removed' \in {removed, removed \cup OpPairs, removed \ OfKey(removed, op.key),
                         removed \ {<<op.key, op.key>>}}
    BY <1>8 DEF CancelRemoval, Stage, Unstage, StageRemoval, DropRemoved, DropStaged
  <2>3. PairSets'
    BY <1>5, <2>1, <2>2 DEF PairSets, syncVars, redisVars, histVars
  <2>4. Places' /\ OpPlaces'
    BY <1>8, <2>1 DEF CancelRemoval, Stage, Unstage, StageRemoval, DropRemoved, DropStaged, Step, Places,
       OpPlaces, lruVars, syncVars, endVars
  <2> QED BY <1>3, <2>1, <2>3, <2>4
<1>9. CASE Delete \/ Add
  <2>1. PICK after \in {redis \ OfKey(redis, op.key), redis \cup OpPairs} : Send(after, Number)
    BY <1>9 DEF Delete, Add
  <2>2. /\ (pc = "delete" /\ pc' = "deleted") \/ (pc = "add" /\ pc' = "added")
        /\ UNCHANGED <<lruVars, rwVars, op, syncVars, endVars, histVars>>
    <3>1. CASE Delete
      BY <3>1 DEF Delete, Step
    <3>2. CASE Add
      BY <3>2 DEF Add, Step
    <3> QED BY <1>9, <3>1, <3>2
  <2>3. /\ wire' \in Seq(Replies) /\ connected' = connected
        /\ connected => Len(wire') = Len(wire) + 1 /\ redis' = after
        /\ ~connected => redis' = redis
        /\ overlapped' \in BOOLEAN
    <3>1. Number \in Replies
      BY DEF Number, Replies
    <3> QED BY <2>1, <3>1, SendWire
  <2>4. Wire'
    <3>1. ~WorkerWaits /\ WorkerWaits' /\ (SyncWaits' <=> SyncWaits)
      BY <2>2 DEF syncVars, WorkerWaits, SyncWaits
    <3> QED BY <2>3, <3>1, WireSent
  <2>5. after \subseteq Pairs
    BY <1>5, <2>1, <2>2 DEF PairSets
  <2>6. LruInv' /\ PairSets' /\ Flags'
    BY <2>2, <2>3, <2>5 DEF lruVars, rwVars, syncVars, endVars, histVars, LruInv, LruTypes, LruTracked,
       PairSets, Flags
  <2>7. Places' /\ OpPlaces'
    BY <2>2 DEF lruVars, syncVars, endVars, Places, OpPlaces
  <2> QED BY <2>4, <2>6, <2>7
<1>10. CASE Deleted \/ Added
  <2>1. /\ TakeReply
        /\ (pc = "deleted" /\ pc' \in {"idle", "add"}) \/ (pc = "added" /\ pc' = "idle")
        /\ UNCHANGED <<lruVars, rwVars, op, syncVars, stop, dtor, histVars>>
        /\ status' \in {status, "undefined"}
    <3>1. CASE Deleted
      BY <3>1 DEF Deleted, Step, endVars
    <3>2. CASE Added
      BY <3>2 DEF Added, Step, TestReply
    <3> QED BY <1>10, <3>1, <3>2
  <2>2. /\ wire' \in Seq(Replies) /\ redis' = redis /\ connected' = connected /\ overlapped' = overlapped
        /\ connected => Len(wire') = Len(wire) - 1
    BY <2>1, TakeWire
  <2>3. Wire'
    <3>1. WorkerWaits /\ ~WorkerWaits' /\ (SyncWaits' <=> SyncWaits)
      BY <2>1 DEF syncVars, WorkerWaits, SyncWaits
    <3> QED BY <2>2, <3>1, WireTaken
  <2>4. LruInv' /\ PairSets' /\ Flags'
    BY <2>1, <2>2 DEF lruVars, rwVars, syncVars, endVars, histVars, LruInv, LruTypes, LruTracked,
       PairSets, Flags
  <2>5. Places' /\ OpPlaces'
    BY <2>1 DEF lruVars, syncVars, endVars, Places, OpPlaces
  <2> QED BY <2>3, <2>4, <2>5
<1> QED BY <1>1, <1>2, <1>6, <1>7, <1>8, <1>9, <1>10 DEF Worker
-----------------------------------------------------------------------------
(***************************************************************************)
(* So do those of syncThread, of the destructor and of the connection.     *)
(***************************************************************************)
LEMMA SyncKeeps ==
  ASSUME CacheInv, Sync
  PROVE  CacheInv'
<1> USE DEF CacheInv
<1>1. CASE SyncTest \/ FlushEnd
  <2>1. /\ syncPc \in {"test", "flush"} /\ syncPc' \in {"test", "sleep", "exited"}
        /\ UNCHANGED <<lruVars, rwVars, pc, op, toAdd, toRemove, redisVars, endVars, count, known, crossed>>
    <3>1. CASE SyncTest
      BY <3>1 DEF SyncTest, SyncStep, histVars
    <3>2. CASE FlushEnd
      BY <3>2 DEF FlushEnd, SyncStep, histVars
    <3> QED BY <1>1, <3>1, <3>2
  <2>2. LruInv' /\ PairSets' /\ Flags'
    BY <2>1 DEF lruVars, rwVars, redisVars, endVars, LruInv, LruTypes, LruTracked, PairSets, Flags
  <2>3. Places' /\ OpPlaces'
    BY <2>1 DEF lruVars, endVars, Places, OpPlaces
  <2>4. Wire'
    BY <2>1 DEF redisVars, Wire, RepliesBalanced, WorkerWaits, SyncWaits
  <2> QED BY <2>2, <2>3, <2>4
<1>2. CASE Reset
  <2>1. /\ syncPc = "sleep" /\ syncPc' = "flush" /\ toAdd' = staged /\ toRemove' = removed
        /\ staged' = {} /\ removed' = {}
        /\ UNCHANGED <<lruVars, pc, op, redisVars, endVars, known>>
    BY <1>2 DEF Reset, SyncStep
  <2>2. crossed' \in BOOLEAN
    BY <1>2 DEF Reset
  <2>3. LruInv' /\ PairSets' /\ Flags'
    BY <2>1, <2>2 DEF lruVars, redisVars, endVars, LruInv, LruTypes, LruTracked, PairSets, Flags
  <2>4. Places' /\ OpPlaces'
    BY <2>1 DEF lruVars, endVars, Places, OpPlaces
  <2>5. Wire'
    BY <2>1 DEF redisVars, Wire, RepliesBalanced, WorkerWaits, SyncWaits
  <2> QED BY <2>3, <2>4, <2>5
<1>3. CASE Flush
  <2>1. PICK k \in Keys :
          \E after \in {redis \cup OfKey(toAdd, k), redis \ OfKey(toRemove, k)} : Send(after, Number)
    BY <1>3 DEF Flush
  <2>2. PICK after \in {redis \cup OfKey(toAdd, k), redis \ OfKey(toRemove, k)} : Send(after, Number)
    BY <2>1
  <2>3. /\ syncPc = "flush" /\ syncPc' = "reply"
        /\ toAdd' \subseteq toAdd /\ toRemove' \subseteq toRemove
        /\ UNCHANGED <<lruVars, rwVars, pc, op, endVars, histVars>>
    BY <1>3 DEF Flush, SyncStep
  <2>4. /\ wire' \in Seq(Replies) /\ connected' = connected
        /\ connected => Len(wire') = Len(wire) + 1 /\ redis' = after
        /\ ~connected => redis' = redis
        /\ overlapped' \in BOOLEAN
    <3>1. Number \in Replies
      BY DEF Number, Replies
    <3> QED BY <2>2, <3>1, SendWire
  <2>5. after \subseteq Pairs
    BY <2>2 DEF PairSets, OfKey
  <2>6. Wire'
    <3>1. ~SyncWaits /\ SyncWaits' /\ (WorkerWaits' <=> WorkerWaits)
      BY <2>3 DEF WorkerWaits, SyncWaits
    <3> QED BY <2>4, <3>1, WireSent
  <2>7. LruInv' /\ PairSets' /\ Flags'
    BY <2>3, <2>4, <2>5 DEF lruVars, rwVars, endVars, histVars, LruInv, LruTypes, LruTracked, PairSets, Flags
  <2>8. Places' /\ OpPlaces'
    BY <2>3 DEF lruVars, endVars, Places, OpPlaces
  <2> QED BY <2>6, <2>7, <2>8
<1>4. CASE FlushReply
  <2>1. /\ TakeReply /\ syncPc = "reply" /\ syncPc' = "flush"
        /\ UNCHANGED <<lruVars, rwVars, pc, op, toAdd, toRemove, stop, dtor, histVars>>
        /\ status' \in {status, "undefined"}
    BY <1>4 DEF FlushReply, SyncStep, TestReply
  <2>2. /\ wire' \in Seq(Replies) /\ redis' = redis /\ connected' = connected /\ overlapped' = overlapped
        /\ connected => Len(wire') = Len(wire) - 1
    BY <2>1, TakeWire
  <2>3. Wire'
    <3>1. SyncWaits /\ ~SyncWaits' /\ (WorkerWaits' <=> WorkerWaits)
      BY <2>1 DEF WorkerWaits, SyncWaits
    <3> QED BY <2>2, <3>1, WireTaken
  <2>4. LruInv' /\ PairSets' /\ Flags'
    BY <2>1, <2>2 DEF lruVars, rwVars, endVars, histVars, LruInv, LruTypes, LruTracked, PairSets, Flags
  <2>5. Places' /\ OpPlaces'
    BY <2>1 DEF lruVars, endVars, Places, OpPlaces
  <2> QED BY <2>3, <2>4, <2>5
<1> QED BY <1>1, <1>2, <1>3, <1>4 DEF Sync

LEMMA CacheStep == CacheInv /\ [Next]_vars => CacheInv'
<1> SUFFICES ASSUME CacheInv, [Next]_vars PROVE CacheInv'
  OBVIOUS
<1>1. ASSUME UNCHANGED <<lruVars, rwVars, pc, op, syncVars, redis, overlapped, histVars>>,
             dtor' \in {"alive", "waiting", "destroyed"}, status' \in {"up", "undefined"},
             stop' \in BOOLEAN, UNCHANGED <<connected, wire>> \/ (connected' = FALSE /\ wire' = <<>>)
      PROVE  CacheInv'
  <2> USE DEF CacheInv
  <2>1. LruInv' /\ PairSets'
    BY <1>1 DEF lruVars, rwVars, syncVars, histVars, LruInv, LruTypes, LruTracked, PairSets
  <2>2. Flags'
    <3>1. connected' \in BOOLEAN
      <4>1. CASE UNCHANGED <<connected, wire>>
        BY <4>1 DEF Flags
      <4>2. CASE connected' = FALSE /\ wire' = <<>>
        BY <4>2
      <4> QED BY <1>1, <4>1, <4>2
    <3>2. crossed' \in BOOLEAN /\ overlapped' \in BOOLEAN
      BY <1>1 DEF histVars, Flags
    <3> QED BY <1>1, <3>1, <3>2 DEF Flags
  <2>3. Places' /\ OpPlaces'
    BY <1>1 DEF lruVars, syncVars, Places, OpPlaces
  <2>4. Wire'
    <3>1. pc' = pc /\ syncPc' = syncPc
      BY <1>1 DEF syncVars
    <3>2. CASE UNCHANGED <<connected, wire>>
      BY <3>1, <3>2 DEF Wire, RepliesBalanced, WorkerWaits, SyncWaits
    <3>3. CASE connected' = FALSE /\ wire' = <<>>
      BY <3>3 DEF Wire, RepliesBalanced
    <3> QED BY <1>1, <3>2, <3>3
  <2> QED BY <2>1, <2>2, <2>3, <2>4
<1>2. CASE Destroy \/ Destroyed \/ LoseRedis \/ Collide \/ UNCHANGED vars
  <2>1. /\ dtor \in {"alive", "waiting", "destroyed"} /\ status \in {"up", "undefined"}
        /\ stop \in BOOLEAN
    BY DEF CacheInv, Places, Flags
  <2>2. CASE Destroy
    <3>1. /\ dtor' = "waiting" /\ stop' = FALSE /\ UNCHANGED <<status, connected, wire>>
          /\ UNCHANGED <<lruVars, rwVars, pc, op, syncVars, redis, overlapped, histVars>>
      BY <2>2 DEF Destroy, redisVars
    <3>2. stop' \in BOOLEAN
      BY <3>1
    <3> QED BY <1>1, <2>1, <3>1, <3>2
  <2>3. CASE Destroyed
    <3>1. /\ dtor' = "destroyed" /\ UNCHANGED <<stop, status, connected, wire>>
          /\ UNCHANGED <<lruVars, rwVars, pc, op, syncVars, redis, overlapped, histVars>>
      BY <2>3 DEF Destroyed, redisVars
    <3> QED BY <1>1, <2>1, <3>1
  <2>4. CASE LoseRedis
    BY <1>1, <2>1, <2>4 DEF LoseRedis, endVars
  <2>5. CASE Collide
    <3>1. /\ status' = "undefined" /\ UNCHANGED <<stop, dtor, connected, wire>>
          /\ UNCHANGED <<lruVars, rwVars, pc, op, syncVars, redis, overlapped, histVars>>
      BY <2>5 DEF Collide, redisVars
    <3> QED BY <1>1, <2>1, <3>1
  <2>6. CASE UNCHANGED vars
    <3>1. /\ UNCHANGED <<stop, dtor, status, connected, wire>>
          /\ UNCHANGED <<lruVars, rwVars, pc, op, syncVars, redis, overlapped, histVars>>
      BY <2>6 DEF vars, redisVars, endVars
    <3> QED BY <1>1, <2>1, <3>1
  <2> QED BY <1>2, <2>2, <2>3, <2>4, <2>5, <2>6
<1> QED BY <1>2, RequestKeeps, WorkerKeeps, SyncKeeps DEF Next

LEMMA CacheAlways == Spec => []CacheInv
BY CacheInit, CacheStep, PTL DEF Spec

LEMMA InvTypeOK == CacheInv => TypeOK
<1> SUFFICES ASSUME CacheInv PROVE TypeOK
  OBVIOUS
<1> USE DEF CacheInv
<1>1. {stop, connected, crossed, overlapped} \subseteq BOOLEAN
  BY DEF Flags
<1>2. \A pairs \in {staged, removed, toAdd, toRemove, redis, known} : pairs \subseteq Pairs
  BY DEF PairSets
<1>3. op = NoOp \/ op \in [kind : Kinds, key : Keys, vals : SUBSET Values]
  BY DEF OpPlaces, Ops
<1> QED BY <1>1, <1>2, <1>3 DEF LruInv, LruTypes, Places, TypeOK

\* Every variable keeps its type; in particular only services and addresses that
\* were asked for reach the cache, whatever replies the threads swap.
THEOREM CacheTypes == Spec => []TypeOK
BY CacheAlways, InvTypeOK, PTL

\* When LRUCache::set evicts, its list is not empty and names a cached service,
\* although the eviction itself may fail (LRUCache.h:31-46).
THEOREM LruListed == Spec => []LruTracked
<1>1. CacheInv => LruTracked
  BY DEF CacheInv, LruInv
<1> QED BY <1>1, CacheAlways, PTL

\* The connection holds one unread reply for each thread that waits for one.
THEOREM RepliesMatch == Spec => []RepliesBalanced
<1>1. CacheInv => RepliesBalanced
  BY DEF CacheInv, Wire
<1> QED BY <1>1, CacheAlways, PTL
-----------------------------------------------------------------------------
(***************************************************************************)
(* Where addresses come from.                                              *)
(***************************************************************************)

\* What is in redis or on its way there was registered.
Registered ==
  /\ redis \cup staged \cup toAdd \subseteq known
  /\ op.kind \in {"insert", "set"} => OpPairs \subseteq known

\* Until commands overlap, the reply the worker reads is to its own question.
OwnReply ==
  ~overlapped =>
    /\ ~(WorkerWaits /\ SyncWaits)
    /\ connected /\ pc = "fetched" => {op.key} \X Head(wire).members \subseteq known

OriginInv == Registered /\ OwnReply /\ NothingInvented

LEMMA LruSetData ==
  ASSUME LruTypes, NEW k \in Keys, NEW vals \in SUBSET Values, LruSet(k, vals)
  PROVE  \A x \in DOMAIN data' :
           \/ x = k /\ data'[x] = vals
           \/ x \in DOMAIN data /\ data'[x] = data[x]
<1>1. PICK gone : data' = With(k, vals, gone)
  BY DEF LruSet
<1>2. /\ With(k, vals, gone)[k] = vals
      /\ \A x \in DOMAIN With(k, vals, gone) :
           x # k => x \in DOMAIN data /\ With(k, vals, gone)[x] = data[x]
  BY DEF With
<1> QED BY <1>1, <1>2

LEMMA OriginInit == Init => OriginInv
<1> SUFFICES ASSUME Init PROVE OriginInv
  OBVIOUS
<1>1. DOMAIN data = {}
  BY DEF Init
<1>2. Registered
  BY DEF Init, Registered, NoOp
<1>3. OwnReply /\ NothingInvented
  BY <1>1 DEF Init, OwnReply, NothingInvented, WorkerWaits, SyncWaits
<1> QED BY <1>2, <1>3 DEF OriginInv

LEMMA OriginRequest ==
  ASSUME CacheInv, OriginInv, Request
  PROVE  OriginInv'
<1> USE DEF CacheInv, OriginInv
<1>1. ASSUME NEW kind \in {"get", "insert", "erase", "set"}, NEW k \in Keys, NEW vals \in SUBSET Values,
             Begin(kind, k, vals), pc' \notin {"fetched", "deleted", "added"}
      PROVE  Registered' /\ OwnReply' /\ known \subseteq known' /\ (kind # "erase" => {k} \X vals \subseteq known')
             /\ overlapped' = overlapped
  <2>1. /\ known \subseteq known' /\ (kind # "erase" => {k} \X vals \subseteq known')
        /\ op'.kind = kind /\ op'.key = k /\ op'.vals = vals
        /\ UNCHANGED <<staged, toAdd, syncPc, redis, wire, connected, overlapped>>
    BY <1>1 DEF Begin, rwVars, syncVars, redisVars
  <2>2. Registered'
    BY <2>1 DEF Registered, OpPairs
  <2>3. OwnReply'
    BY <1>1, <2>1 DEF OwnReply, WorkerWaits, SyncWaits
  <2> QED BY <2>1, <2>2, <2>3
<1>2. ASSUME NEW k \in Keys, Get(k) PROVE OriginInv'
  <2>1. Begin("get", k, {}) /\ pc' \in {"idle", "fetch"} /\ data' = data
    BY <1>2 DEF Get, Begin, lruVars
  <2>2. Registered' /\ OwnReply' /\ known \subseteq known' /\ overlapped' = overlapped
    BY <1>1, <2>1
  <2> QED BY <2>1, <2>2 DEF NothingInvented
<1>3. ASSUME NEW k \in Keys, NEW v \in Values, NEW kind \in {"insert", "erase"}, Change(kind, k, v)
      PROVE  OriginInv'
  <2>1. Begin(kind, k, {v}) /\ pc' \in {"apply", "fetch"} /\ data' = data
    BY <1>3 DEF Change, lruVars
  <2>2. Registered' /\ OwnReply' /\ known \subseteq known' /\ overlapped' = overlapped
    BY <1>1, <2>1
  <2> QED BY <2>1, <2>2 DEF NothingInvented
<1>4. ASSUME NEW k \in Keys, NEW vals \in SUBSET Values, Set(k, vals)
      PROVE  OriginInv'
  <2>1. Begin("set", k, vals) /\ pc' = "dropRemoved" /\ LruSet(k, vals)
    BY <1>4 DEF Set
  <2>2. Registered' /\ OwnReply' /\ known \subseteq known' /\ {k} \X vals \subseteq known' /\ overlapped' = overlapped
    BY <1>1, <2>1
  <2>3. \A x \in DOMAIN data' : \/ x = k /\ data'[x] = vals
                                \/ x \in DOMAIN data /\ data'[x] = data[x]
    BY <2>1, LruSetData DEF LruInv
  <2>4. NothingInvented'
    BY <2>2, <2>3 DEF NothingInvented
  <2> QED BY <2>2, <2>4
<1> QED BY <1>2, <1>3, <1>4 DEF Request

LEMMA OriginWorker ==
  ASSUME CacheInv, OriginInv, Worker
  PROVE  OriginInv'
<1> USE DEF CacheInv, OriginInv
<1>1. CASE Fetch
  <2> DEFINE reply == [type |-> "array", members |-> ValuesOf(redis, op.key)]
  <2>1. reply \in Replies
    BY DEF Replies, ValuesOf, OfKey, PairSets, Pairs
  <2>2. /\ Send(redis, reply) /\ pc = "fetch" /\ pc' = "fetched"
        /\ UNCHANGED <<data, staged, op, syncPc, toAdd, known>>
    BY <1>1 DEF Fetch, Step, lruVars, rwVars, syncVars, histVars
  <2>3. /\ connected' = connected /\ redis' = redis
        /\ connected => wire' = Append(wire, reply)
        /\ overlapped' <=> overlapped \/ WorkerWaits \/ SyncWaits
    <3> HIDE DEF reply
    <3> QED BY <2>1, <2>2, SendWire
  <2>4. connected /\ ~overlapped' => Head(wire') = reply
    <3> HIDE DEF reply
    <3>1. connected /\ ~overlapped' => Len(wire) = 0
      BY <2>3, WireLength
    <3>2. Len(wire) = 0 => wire = <<>>
      BY EmptySeq DEF Wire
    <3> QED BY <2>3, <3>1, <3>2
  <2>5. {op.key} \X reply.members \subseteq known
    BY DEF ValuesOf, OfKey, Registered, PairSets, Pairs
  <2>6. OwnReply'
    <3> HIDE DEF reply
    <3> QED BY <2>2, <2>3, <2>4, <2>5 DEF OwnReply, WorkerWaits, SyncWaits
  <2>7. Registered' /\ NothingInvented'
    BY <2>2, <2>3 DEF Registered, OpPairs, NothingInvented
  <2> QED BY <2>6, <2>7
<1>2. CASE Fetched
  <2>1. /\ pc = "fetched" /\ TakeReply /\ LruSet(op.key, Reply.members)
        /\ pc' \in {"idle", "apply"}
        /\ UNCHANGED <<staged, op, toAdd, syncPc, known>>
    BY <1>2 DEF Fetched, rwVars, syncVars, histVars
  <2>2. op.key \in Keys
    BY <2>1 DEF OpPlaces, Ops
  <2>3. /\ redis' = redis /\ connected' = connected /\ overlapped' = overlapped
        /\ Reply.members \subseteq Values
    BY <2>1, TakeWire
  <2>4. ~overlapped => {op.key} \X Reply.members \subseteq known
    BY <2>1 DEF OwnReply, Reply, Null
  <2>5. \A x \in DOMAIN data' : \/ x = op.key /\ data'[x] = Reply.members
                                \/ x \in DOMAIN data /\ data'[x] = data[x]
    BY <2>1, <2>2, <2>3, LruSetData DEF LruInv
  <2>6. NothingInvented'
    BY <2>1, <2>3, <2>4, <2>5 DEF NothingInvented
  <2>7. Registered' /\ OwnReply'
    BY <2>1, <2>3 DEF Registered, OpPairs, OwnReply, WorkerWaits, SyncWaits
  <2> QED BY <2>6, <2>7
<1>3. CASE ApplyInsert \/ ApplyErase
  <2>1. /\ pc = "apply" /\ pc' \notin {"fetched", "deleted", "added"}
        /\ \E vals : /\ data' = With(op.key, vals, {})
                     /\ \/ op.kind = "insert" /\ vals = data[op.key] \cup op.vals
                        \/ vals = data[op.key] \ op.vals
        /\ UNCHANGED <<staged, op, toAdd, syncPc, redis, wire, connected, overlapped, known>>
    <3>1. CASE ApplyInsert
      BY <3>1 DEF ApplyInsert, Step, rwVars, syncVars, redisVars, histVars
    <3>2. CASE ApplyErase
      BY <3>2 DEF ApplyErase, Step, rwVars, syncVars, redisVars, histVars
    <3> QED BY <1>3, <3>1, <3>2
  <2>2. op.key \in DOMAIN data
    BY <2>1 DEF OpPlaces
  <2>3. /\ DOMAIN data' \subseteq DOMAIN data
        /\ \A x \in DOMAIN data' : data'[x] \subseteq data[x] \/ (op.kind = "insert" /\ x = op.key /\ data'[x] = data[x] \cup op.vals)
    BY <2>1, <2>2 DEF With
  <2>4. NothingInvented'
    BY <2>1, <2>3 DEF NothingInvented, Registered, OpPairs
  <2>5. Registered' /\ OwnReply'
    BY <2>1 DEF Registered, OpPairs, OwnReply, WorkerWaits, SyncWaits
  <2> QED BY <2>4, <2>5
<1>4. CASE CancelRemoval \/ Stage \/ Unstage \/ StageRemoval \/ DropRemoved \/ DropStaged
  <2>1. /\ pc' \notin {"fetched", "deleted", "added"}
        /\ UNCHANGED <<data, op, toAdd, syncPc, redis, wire, connected, overlapped, known>>
        /\ staged' \subseteq staged \/ (pc = "stage" /\ staged' = staged \cup OpPairs)
    BY <1>4 DEF CancelRemoval, Stage, Unstage, StageRemoval, DropRemoved, DropStaged, Step,
       lruVars, syncVars, redisVars, histVars
  <2>2. Registered'
    BY <2>1 DEF Registered, OpPlaces, OpPairs
  <2>3. OwnReply' /\ NothingInvented'
    BY <2>1 DEF OwnReply, NothingInvented, WorkerWaits, SyncWaits
  <2> QED BY <2>2, <2>3
<1>5. CASE Delete \/ Add
  <2>1. /\ pc' \in {"deleted", "added"} /\ pc \in {"delete", "add"}
        /\ \E after : Send(after, Number) /\ after \subseteq redis \cup OpPairs
        /\ UNCHANGED <<data, staged, op, syncPc, toAdd, known>>
    BY <1>5 DEF Delete, Add, Step, lruVars, rwVars, syncVars, histVars
  <2>2. PICK after : Send(after, Number) /\ after \subseteq redis \cup OpPairs
    BY <2>1
  <2>3. /\ connected' = connected
        /\ redis' = after \/ redis' = redis
        /\ overlapped' <=> overlapped \/ WorkerWaits \/ SyncWaits
    <3>1. Number \in Replies
      BY DEF Number, Replies
    <3> QED BY <2>2, <3>1, SendWire DEF Flags
  <2>4. op.kind = "set"
    BY <2>1 DEF OpPlaces
  <2>5. Registered'
    BY <2>1, <2>2, <2>3, <2>4 DEF Registered, OpPairs
  <2>6. OwnReply' /\ NothingInvented'
    BY <2>1, <2>3 DEF OwnReply, NothingInvented, WorkerWaits, SyncWaits
  <2> QED BY <2>5, <2>6
<1>6. CASE Deleted \/ Added
  <2>1. /\ TakeReply /\ pc' \notin {"fetched", "deleted", "added"}
        /\ UNCHANGED <<data, staged, op, syncPc, toAdd, known>>
    BY <1>6 DEF Deleted, Added, Step, TestReply, lruVars, rwVars, syncVars, histVars
  <2>2. redis' = redis /\ connected' = connected /\ overlapped' = overlapped
    BY <2>1, TakeWire
  <2> QED BY <2>1, <2>2 DEF Registered, OpPairs, OwnReply, NothingInvented, WorkerWaits, SyncWaits
<1> QED BY <1>1, <1>2, <1>3, <1>4, <1>5, <1>6 DEF Worker

LEMMA OriginSync ==
  ASSUME CacheInv, OriginInv, Sync
  PROVE  OriginInv'
<1> USE DEF CacheInv, OriginInv
<1>1. CASE SyncTest \/ FlushEnd \/ Reset
  <2>1. /\ ~SyncWaits' /\ UNCHANGED <<data, pc, op, redis, wire, connected, overlapped, known>>
        /\ staged' \cup toAdd' \subseteq staged \cup toAdd
    BY <1>1 DEF SyncTest, FlushEnd, Reset, SyncStep, SyncWaits, lruVars, rwVars, redisVars, histVars
  <2> QED BY <2>1 DEF Registered, OpPairs, OwnReply, NothingInvented, WorkerWaits
<1>2. CASE Flush
  <2>1. /\ syncPc = "flush" /\ UNCHANGED <<data, staged, pc, op, known>> /\ toAdd' \subseteq toAdd
        /\ \E after : Send(after, Number) /\ after \subseteq redis \cup toAdd
    BY <1>2 DEF Flush, SyncStep, OfKey, lruVars, rwVars, histVars
  <2>2. PICK after : Send(after, Number) /\ after \subseteq redis \cup toAdd
    BY <2>1
  <2>3. /\ connected' = connected
        /\ redis' = after \/ redis' = redis
        /\ overlapped' <=> overlapped \/ WorkerWaits \/ SyncWaits
    <3>1. Number \in Replies
      BY DEF Number, Replies
    <3> QED BY <2>2, <3>1, SendWire DEF Flags
  <2>4. Registered'
    BY <2>1, <2>2, <2>3 DEF Registered, OpPairs
  <2>5. OwnReply' /\ NothingInvented'
    BY <2>1, <2>3 DEF OwnReply, NothingInvented, WorkerWaits, SyncWaits
  <2> QED BY <2>4, <2>5
<1>3. CASE FlushReply
  <2>1. /\ TakeReply /\ SyncWaits /\ ~SyncWaits' /\ UNCHANGED <<data, staged, toAdd, pc, op, known>>
    BY <1>3 DEF FlushReply, SyncStep, SyncWaits, TestReply, lruVars, rwVars, histVars
  <2>2. redis' = redis /\ connected' = connected /\ overlapped' = overlapped
    BY <2>1, TakeWire
  <2> QED BY <2>1, <2>2 DEF Registered, OpPairs, OwnReply, NothingInvented, WorkerWaits
<1> QED BY <1>1, <1>2, <1>3 DEF Sync

LEMMA OriginStep == CacheInv /\ OriginInv /\ [Next]_vars => OriginInv'
<1> SUFFICES ASSUME CacheInv, OriginInv, [Next]_vars PROVE OriginInv'
  OBVIOUS
<1>1. CASE Destroy \/ Destroyed \/ LoseRedis \/ Collide \/ UNCHANGED vars
  <2>1. /\ UNCHANGED <<data, staged, pc, op, syncPc, toAdd, redis, overlapped, known>>
        /\ UNCHANGED <<connected, wire>> \/ connected' = FALSE
    BY <1>1 DEF Destroy, Destroyed, LoseRedis, Collide, vars, lruVars, rwVars, syncVars, redisVars,
       endVars, histVars
  <2> QED BY <2>1 DEF OriginInv, Registered, OpPairs, OwnReply, NothingInvented, WorkerWaits, SyncWaits
<1> QED BY <1>1, OriginRequest, OriginWorker, OriginSync DEF Next

LEMMA OriginAlways == Spec => [](CacheInv /\ OriginInv)
<1>1. Init => CacheInv /\ OriginInv
  BY CacheInit, OriginInit
<1>2. CacheInv /\ OriginInv /\ [Next]_vars => (CacheInv /\ OriginInv)'
  BY CacheStep, OriginStep
<1> QED BY <1>1, <1>2, PTL DEF Spec

\* As long as the two threads' commands have not overlapped on the connection,
\* every address listed for a service was registered for it or was in redis for
\* it from the start (cache.cpp:22-53).
THEOREM ListsRegistered == Spec => []NothingInvented
<1>1. OriginInv => NothingInvented
  BY DEF OriginInv
<1> QED BY <1>1, OriginAlways, PTL
-----------------------------------------------------------------------------
(***************************************************************************)
(* What becomes of a change.                                               *)
(***************************************************************************)

\* Operations on one address, and what they are about.
Single == op.kind \in {"insert", "erase"} => \E v \in Values : op.vals = {v}

\* The operation under way is the last one asked for on its addresses, and
\* syncThread takes nothing before it has sent what it took.
Asking ==
  /\ Underway \subseteq recent
  /\ \A p \in Underway : last[p] = op.kind /\ op.kind \in asked[p]
  /\ op.kind = "set" => Underway \cap fresh = {}
  /\ syncPc \notin {"flush", "reply"} => toAdd = {} /\ toRemove = {}

\* What is pending was asked for since the last reset, or is about to be dropped
\* by a replacement.
Pending ==
  /\ \A p \in staged : /\ p \in recent
                       /\ \/ "insert" \in asked[p]
                          \/ p \in Underway /\ pc \in {"dropRemoved", "dropStaged"}
  /\ \A p \in removed : /\ p \in recent
                        /\ \/ "erase" \in asked[p]
                           \/ p \in Underway /\ pc = "dropRemoved"

\* A fresh address does not come to redis within its period.
Clean == \A p \in fresh \cap recent : p \notin redis \cup toAdd

\* What the test of rwSetCache::erase has found.
Erasing ==
  /\ pc = "remove" => OpPairs \cap staged = {}
  /\ pc = "unstage" => \A p \in OpPairs : "insert" \in asked[p] /\ (p \in staged \/ p \notin fresh)

\* Where an address is that is to stay in redis, and one that is to go.
Stays(p) == (p \in staged \/ p \in (redis \cup toAdd) \ toRemove) /\ p \notin removed
Goes(p) == (p \notin redis \cup toAdd \/ p \in removed \cup toRemove) /\ p \notin staged

\* ChangesKept.
Kept ==
  connected => \A p \in Pairs : p \notin Underway =>
    /\ last[p] = "insert" /\ "erase" \notin asked[p] => Stays(p)
    /\ last[p] = "erase" /\ ("insert" \notin asked[p] \/ p \in fresh) => Goes(p)

ChangeInv == Single /\ Asking /\ Pending /\ Clean /\ Erasing /\ Kept

\* How far a replacement that syncThread does not cross has come.
Replacing ==
  connected /\ op.kind = "set" /\ ~crossed =>
    /\ OfKey(toAdd \cup toRemove, op.key) = {}
    /\ pc # "dropRemoved" => OfKey(removed, op.key) = {}
    /\ pc \notin {"dropRemoved", "dropStaged"} => OfKey(staged, op.key) = {}
    /\ pc \in {"deleted", "add"} => OfKey(redis, op.key) = {}
    /\ pc \in {"added", "idle"} => OfKey(redis, op.key) = OpPairs

LEMMA ChangeInit == Init => ChangeInv /\ Replacing
<1> SUFFICES ASSUME Init PROVE ChangeInv /\ Replacing
  OBVIOUS
<1> USE DEF Init
<1>1. Single /\ Asking /\ Pending /\ Clean /\ Erasing
  BY DEF Single, Asking, Pending, Clean, Erasing, Underway, NoOp
<1>2. Kept
  BY DEF Kept
<1>3. Replacing
  BY DEF Replacing, NoOp
<1> QED BY <1>1, <1>2, <1>3 DEF ChangeInv

\* The addresses of an operation.
LEMMA TouchedPairs ==
  ASSUME CacheInv, op \in Ops
  PROVE  /\ Touched(op) \subseteq Pairs /\ OpPairs \subseteq Pairs
         /\ \A p \in Pairs : p \in Touched(op) => p[1] = op.key
         /\ op.kind # "set" => Touched(op) = OpPairs
         /\ op.kind = "set" => Touched(op) = OfKey(Pairs, op.key)
         /\ OpPairs \subseteq Touched(op)
         /\ op.kind = "get" => Touched(op) = {}
<1>1. op.key \in Keys /\ op.vals \subseteq Values
  BY DEF Ops
<1>2. op.kind = "get" => op.vals = {}
  BY DEF CacheInv, OpPlaces
<1>3. OpPairs = {p \in Pairs : p[1] = op.key /\ p[2] \in op.vals}
  BY <1>1 DEF OpPairs, Pairs
<1> QED BY <1>2, <1>3 DEF Touched, OfKey

LEMMA ChangeRequest ==
  ASSUME CacheInv, ChangeInv, Request
  PROVE  ChangeInv' /\ Replacing'
<1> USE DEF CacheInv, ChangeInv
<1>1. ASSUME NEW kind \in {"get", "insert", "erase", "set"}, NEW k \in Keys, NEW vals \in SUBSET Values,
             Begin(kind, k, vals), pc' \notin {"unstage", "remove"}, kind = "get" => vals = {},
             kind = "get" \/ pc' # "idle", kind = "set" => pc' = "dropRemoved",
             kind \in {"insert", "erase"} => \E v \in Values : vals = {v}
      PROVE  ChangeInv' /\ Replacing'
  <2> DEFINE o == [kind |-> kind, key |-> k, vals |-> vals]
             T == Touched(o)
  <2>1. /\ op' = o /\ pc = "idle" /\ Underway = {}
        /\ UNCHANGED <<staged, removed, toAdd, toRemove, syncPc, redis, connected>>
        /\ crossed' = (OfKey(toAdd \cup toRemove, k) # {})
        /\ Ask(o)
    BY <1>1 DEF Begin, rwVars, syncVars, redisVars, Underway
  <2>2. /\ o.kind = kind /\ o.key = k /\ o.vals = vals
        /\ T \subseteq Pairs /\ (kind = "get" => T = {})
    BY <1>1 DEF Touched, OfKey
  <2>3. Underway' \subseteq T /\ (kind # "get" => Underway' = T)
    <3>1. Touched(op)' = T
      BY <2>1 DEF Touched
    <3> QED BY <1>1, <2>2, <3>1 DEF Underway
  <2>4. /\ recent' = recent \cup T
        /\ \A p \in Pairs : p \in T => last'[p] = kind /\ kind \in asked'[p]
        /\ \A p \in Pairs : p \in T /\ p \in recent /\ kind # "set" => asked[p] \subseteq asked'[p]
        /\ \A p \in Pairs : p \notin T => last'[p] = last[p] /\ asked'[p] = asked[p]
        /\ \A p \in fresh' : \/ p \notin T /\ p \in fresh
                             \/ p \in T /\ kind # "set" /\ p \in recent /\ p \in fresh
                             \/ p \in T /\ kind # "set" /\ p \notin recent /\ p \notin redis \cup toAdd
    BY <2>1, <2>2 DEF Ask
  <2> HIDE DEF T
  <2>5. Single'
    BY <1>1, <2>1, <2>2 DEF Single
  <2>6. Asking'
    <3>1. op'.kind = kind
      BY <2>1, <2>2
    <3> QED BY <2>1, <2>2, <2>3, <2>4, <3>1 DEF Asking
  <2>7. Pending'
    <3>1. \A p \in staged : p \in Pairs /\ p \in recent /\ "insert" \in asked[p]
      BY <2>1 DEF Pending, PairSets
    <3>2. \A p \in removed : p \in Pairs /\ p \in recent /\ "erase" \in asked[p]
      BY <2>1 DEF Pending, PairSets
    <3>3. ASSUME NEW p \in staged'
          PROVE  /\ p \in recent'
                 /\ \/ "insert" \in asked'[p]
                    \/ p \in Underway' /\ pc' \in {"dropRemoved", "dropStaged"}
      BY <1>1, <2>1, <2>2, <2>3, <2>4, <3>1
    <3>4. ASSUME NEW p \in removed'
          PROVE  /\ p \in recent'
                 /\ \/ "erase" \in asked'[p]
                    \/ p \in Underway' /\ pc' = "dropRemoved"
      BY <1>1, <2>1, <2>2, <2>3, <2>4, <3>2
    <3> QED BY <3>3, <3>4 DEF Pending
  <2>8. Clean'
    BY <2>1, <2>4 DEF Clean
  <2>9. Erasing'
    BY <1>1 DEF Erasing
  <2>10. Kept'
    <3> SUFFICES ASSUME connected', NEW p \in Pairs, p \notin Underway'
                 PROVE  /\ last'[p] = "insert" /\ "erase" \notin asked'[p] => Stays(p)'
                        /\ last'[p] = "erase" /\ ("insert" \notin asked'[p] \/ p \in fresh') => Goes(p)'
      BY DEF Kept
    <3>1. p \notin T /\ p \notin Underway /\ (p \in fresh' => p \in fresh)
      BY <2>1, <2>2, <2>3, <2>4
    <3>2. last'[p] = last[p] /\ asked'[p] = asked[p]
      BY <2>4, <3>1
    <3>3. (Stays(p)' <=> Stays(p)) /\ (Goes(p)' <=> Goes(p))
      BY <2>1 DEF Stays, Goes
    <3> QED BY <2>1, <3>1, <3>2, <3>3 DEF Kept
  <2>11. Replacing'
    <3>1. op'.kind = kind /\ op'.key = k
      BY <2>1, <2>2
    <3> QED BY <1>1, <2>1, <3>1 DEF Replacing
  <2> QED BY <2>5, <2>6, <2>7, <2>8, <2>9, <2>10, <2>11
<1>2. ASSUME NEW k \in Keys, Get(k) PROVE ChangeInv' /\ Replacing'
  <2>1. Begin("get", k, {}) /\ pc' \in {"idle", "fetch"}
    BY <1>2 DEF Get, Begin
  <2> QED BY <1>1, <2>1
<1>3. ASSUME NEW k \in Keys, NEW v \in Values, NEW kind \in {"insert", "erase"}, Change(kind, k, v)
      PROVE  ChangeInv' /\ Replacing'
  <2>1. Begin(kind, k, {v}) /\ pc' \in {"apply", "fetch"}
    BY <1>3 DEF Change
  <2> QED BY <1>1, <2>1
<1>4. ASSUME NEW k \in Keys, NEW vals \in SUBSET Values, Set(k, vals)
      PROVE  ChangeInv' /\ Replacing'
  <2>1. Begin("set", k, vals) /\ pc' = "dropRemoved"
    BY <1>4 DEF Set
  <2> QED BY <1>1, <2>1
<1> QED BY <1>2, <1>3, <1>4 DEF Request

\* A step that ends no change of an address, and leaves what is pending and redis
\* alone.
LEMMA ChangeQuiet ==
  ASSUME CacheInv, ChangeInv, Replacing,
         UNCHANGED <<staged, removed, toAdd, toRemove, redis, askVars, op, connected, crossed>>,
         syncPc' = syncPc \/ (syncPc = "test" /\ syncPc' \in {"sleep", "exited"}) \/ syncPc' = "flush"
           \/ (syncPc' = "test" /\ toAdd = {} /\ toRemove = {}),
         pc' = pc \/ (/\ pc \notin {"idle", "unstage", "remove"} /\ op.kind # "set"
                      /\ pc' \notin {"unstage", "remove"}
                      /\ pc' = "idle" => op.kind = "get")
  PROVE  ChangeInv' /\ Replacing'
<1> USE DEF CacheInv, ChangeInv
<1>1. Underway' = Underway
  <2>1. Touched(op)' = Touched(op)
    BY DEF Touched
  <2>2. CASE pc' = pc
    BY <2>1, <2>2 DEF Underway
  <2>3. CASE pc' # pc
    <3>1. op \in Ops
      BY <2>3 DEF OpPlaces
    <3>2. op.kind = "get" => Touched(op) = {}
      BY <3>1, TouchedPairs
    <3> QED BY <2>1, <2>3, <3>2 DEF Underway
  <2> QED BY <2>2, <2>3
<1>2. UNCHANGED <<last, recent, asked, fresh>>
  BY DEF askVars
<1>3. Single' /\ Asking' /\ Clean'
  BY <1>1, <1>2 DEF Single, Asking, Clean
<1>4. Pending'
  <2>1. pc' = pc \/ pc \notin {"dropRemoved", "dropStaged"}
    BY DEF OpPlaces
  <2> QED BY <1>1, <1>2, <2>1 DEF Pending
<1>5. Erasing'
  <2>1. OpPairs' = OpPairs
    BY DEF OpPairs
  <2> QED BY <1>2, <2>1 DEF Erasing
<1>6. Kept'
  BY <1>1, <1>2 DEF Kept, Stays, Goes
<1>7. Replacing'
  BY DEF Replacing, OpPairs, OfKey
<1> QED BY <1>3, <1>4, <1>5, <1>6, <1>7

\* Steps that change what is pending for the addresses of the operation.  The
\* last hypotheses say what becomes of one when the operation ends.
LEMMA ChangePending ==
  ASSUME CacheInv, ChangeInv,
         UNCHANGED <<toAdd, toRemove, redis, askVars, op, syncPc, connected, crossed>>,
         pc # "idle", pc' \notin {"unstage", "remove"},
         \A p \in Pairs : p \notin Underway =>
           (p \in staged' <=> p \in staged) /\ (p \in removed' <=> p \in removed),
         \A p \in staged' : \/ "insert" \in asked[p] /\ p \in recent
                            \/ p \in staged /\ p \in Underway /\ pc' \in {"dropRemoved", "dropStaged"},
         \A p \in removed' : \/ "erase" \in asked[p] /\ p \in recent
                             \/ p \in removed /\ p \in Underway /\ pc' = "dropRemoved",
         pc' = "idle" => \A p \in Underway :
           /\ op.kind = "insert" /\ "erase" \notin asked[p] => Stays(p)'
           /\ op.kind = "erase" /\ ("insert" \notin asked[p] \/ p \in fresh) => Goes(p)'
  PROVE  ChangeInv'
<1> USE DEF CacheInv, ChangeInv
<1>1. Underway = Touched(op) /\ Underway' = (IF pc' = "idle" THEN {} ELSE Underway)
  BY DEF Underway, Touched
<1>2. UNCHANGED <<last, recent, asked, fresh>>
  BY DEF askVars
<1>3. Single' /\ Asking' /\ Clean'
  BY <1>1, <1>2 DEF Single, Asking, Clean
<1>4. Pending'
  <2>1. \A p \in staged \cup removed : p \in recent
    BY DEF Pending
  <2> QED BY <1>1, <1>2, <2>1 DEF Pending
<1>5. Erasing'
  BY DEF Erasing
<1>6. ASSUME connected', NEW p \in Pairs, p \notin Underway'
      PROVE  /\ last'[p] = "insert" /\ "erase" \notin asked'[p] => Stays(p)'
             /\ last'[p] = "erase" /\ ("insert" \notin asked'[p] \/ p \in fresh') => Goes(p)'
  <2>1. CASE p \in Underway
    <3>1. pc' = "idle" /\ last[p] = op.kind
      BY <1>1, <1>6, <2>1 DEF Asking
    <3> QED BY <1>2, <2>1, <3>1
  <2>2. CASE p \notin Underway
    <3>1. (Stays(p) => Stays(p)') /\ (Goes(p) => Goes(p)')
      BY <2>2 DEF Stays, Goes
    <3> QED BY <1>2, <1>6, <2>2, <3>1 DEF Kept
  <2> QED BY <2>1, <2>2
<1>7. Kept'
  BY <1>6 DEF Kept
<1> QED BY <1>3, <1>4, <1>5, <1>7

\* Steps of a replacement that send to redis or read its answer.
LEMMA ChangeRedis ==
  ASSUME CacheInv, ChangeInv,
         UNCHANGED <<staged, removed, toAdd, toRemove, askVars, op, syncPc, crossed, connected>>,
         pc \in {"delete", "deleted", "add", "added"}, pc' \in {"deleted", "add", "added", "idle"},
         \A p \in Pairs \ OfKey(Pairs, op.key) : p \in redis' <=> p \in redis, redis' \subseteq Pairs
  PROVE  ChangeInv'
<1> USE DEF CacheInv, ChangeInv
<1>1. op.kind = "set" /\ op \in Ops
  BY DEF OpPlaces
<1>2. Underway = OfKey(Pairs, op.key) /\ Underway' = (IF pc' = "idle" THEN {} ELSE Underway)
  <2>1. Touched(op) = OfKey(Pairs, op.key)
    BY <1>1, TouchedPairs
  <2>2. Touched(op)' = Touched(op)
    BY DEF Touched
  <2> QED BY <2>1, <2>2 DEF Underway
<1>3. UNCHANGED <<last, recent, asked, fresh>>
  BY DEF askVars
<1>4. Single' /\ Asking'
  BY <1>2, <1>3 DEF Single, Asking
<1>5. Pending'
  BY <1>2, <1>3 DEF Pending
<1>6. Clean'
  <2>1. \A p \in fresh : p \notin Underway
    BY <1>1 DEF Asking
  <2> QED BY <1>2, <1>3, <2>1 DEF Clean
<1>7. Erasing'
  BY DEF Erasing
<1>8. ASSUME connected', NEW p \in Pairs, p \notin Underway'
      PROVE  /\ last'[p] = "insert" /\ "erase" \notin asked'[p] => Stays(p)'
             /\ last'[p] = "erase" /\ ("insert" \notin asked'[p] \/ p \in fresh') => Goes(p)'
  <2>1. CASE p \in Underway
    <3>1. last[p] = "set"
      BY <1>1, <2>1 DEF Asking
    <3> QED BY <1>3, <3>1
  <2>2. CASE p \notin Underway
    <3>1. (Stays(p) => Stays(p)') /\ (Goes(p) => Goes(p)')
      BY <1>2, <2>2 DEF Stays, Goes
    <3> QED BY <1>3, <1>8, <2>2, <3>1 DEF Kept
  <2> QED BY <2>1, <2>2
<1>9. Kept'
  BY <1>8 DEF Kept
<1> QED BY <1>4, <1>5, <1>6, <1>7, <1>9

LEMMA ChangeWorker ==
  ASSUME CacheInv, ChangeInv, Replacing, Worker
  PROVE  ChangeInv' /\ Replacing'
<1> USE DEF CacheInv, ChangeInv
<1>1. CASE Fetch
  <2> DEFINE reply == [type |-> "array", members |-> ValuesOf(redis, op.key)]
  <2>1. reply \in Replies
    BY DEF Replies, ValuesOf, OfKey, PairSets, Pairs
  <2>2. /\ Send(redis, reply) /\ pc = "fetch" /\ pc' = "fetched"
        /\ UNCHANGED <<staged, removed, toAdd, toRemove, askVars, op, syncPc, crossed>>
    BY <1>1 DEF Fetch, Step, rwVars, syncVars, histVars
  <2>3. connected' = connected /\ redis' = redis
    <3> HIDE DEF reply
    <3> QED BY <2>1, <2>2, SendWire DEF Flags
  <2>4. op.kind # "set"
    BY <2>2 DEF OpPlaces
  <2> QED BY <2>2, <2>3, <2>4, ChangeQuiet
<1>2. CASE Fetched
  <2>1. /\ TakeReply /\ pc = "fetched"
        /\ pc' = (IF op.kind = "get" THEN "idle" ELSE "apply")
        /\ UNCHANGED <<staged, removed, toAdd, toRemove, askVars, op, syncPc, crossed>>
    BY <1>2 DEF Fetched, rwVars, syncVars, histVars
  <2>2. connected' = connected /\ redis' = redis
    BY <2>1, TakeWire
  <2>3. op.kind # "set"
    BY <2>1 DEF OpPlaces
  <2> QED BY <2>1, <2>2, <2>3, ChangeQuiet
<1>3. CASE ApplyInsert
  <2>1. /\ pc = "apply" /\ pc' \in {"cancelRemoval", "stage"} /\ op.kind = "insert"
        /\ UNCHANGED <<staged, removed, toAdd, toRemove, redis, askVars, op, syncPc, connected, crossed>>
    BY <1>3 DEF ApplyInsert, Step, rwVars, syncVars, redisVars, histVars
  <2> QED BY <2>1, ChangeQuiet
<1>4. CASE ApplyErase
  <2>1. /\ pc = "apply" /\ op.kind = "erase"
        /\ pc' = (IF OpPairs \subseteq staged THEN "unstage" ELSE "remove")
        /\ UNCHANGED <<staged, removed, toAdd, toRemove, redis, last, recent, asked, fresh, op, syncPc,
                       connected, crossed>>
    BY <1>4 DEF ApplyErase, Step, rwVars, syncVars, redisVars, histVars, askVars
  <2>2. Underway' = Underway
    BY <2>1 DEF Underway, Touched
  <2>3. Single' /\ Asking' /\ Clean' /\ Replacing'
    BY <2>1, <2>2 DEF Single, Asking, Clean, Replacing
  <2>4. Pending' /\ Kept'
    BY <2>1, <2>2 DEF Pending, Kept, Stays, Goes
  <2>5. OpPairs' = OpPairs
    BY <2>1 DEF OpPairs
  <2>6. Erasing'
    <3>1. CASE OpPairs \subseteq staged
      <4>1. pc' = "unstage" /\ \A p \in OpPairs : "insert" \in asked[p]
        BY <2>1, <3>1 DEF Pending
      <4> QED BY <2>1, <2>5, <3>1, <4>1 DEF Erasing
    <3>2. CASE ~(OpPairs \subseteq staged)
      <4>1. PICK v \in Values : op.vals = {v}
        BY <2>1 DEF Single
      <4>2. \A p, q \in OpPairs : p = q
        BY <4>1 DEF OpPairs
      <4>3. OpPairs \cap staged = {}
        BY <3>2, <4>2
      <4> QED BY <2>1, <2>5, <3>2, <4>3 DEF Erasing
    <3> QED BY <3>1, <3>2
  <2> QED BY <2>3, <2>4, <2>6
<1>5. CASE CancelRemoval \/ Stage \/ Unstage \/ StageRemoval
  <2>1. /\ pc \in {"cancelRemoval", "stage", "unstage", "remove"} /\ pc' \in {"stage", "idle"}
        /\ UNCHANGED <<toAdd, toRemove, redis, askVars, op, syncPc, connected, crossed>>
    BY <1>5 DEF CancelRemoval, Stage, Unstage, StageRemoval, Step, syncVars, redisVars, histVars
  <2>2. op.kind \in {"insert", "erase"} /\ op \in Ops
    BY <2>1 DEF OpPlaces
  <2>3. <<op.key, op.key>> \notin Pairs
    BY <2>2, CacheAssumption DEF Ops, Pairs
  <2>4. OpPairs \subseteq Pairs /\ Underway = OpPairs
    BY <2>1, <2>2, TouchedPairs DEF Underway
  <2>5. Replacing'
    BY <2>1, <2>2 DEF Replacing
  <2>6. /\ \A p \in staged : p \in Pairs /\ "insert" \in asked[p] /\ p \in recent
        /\ \A p \in removed : p \in Pairs /\ "erase" \in asked[p] /\ p \in recent
        /\ \A p \in OpPairs : op.kind \in asked[p] /\ p \in recent
    BY <2>1, <2>4 DEF Pending, PairSets, Asking
  <2>7. CASE CancelRemoval
    <3>1. pc' = "stage" /\ staged' = staged /\ removed' = removed \ {<<op.key, op.key>>}
      BY <2>7 DEF CancelRemoval, Step
    <3>2. removed' = removed
      BY <2>3, <2>6, <3>1
    <3> QED BY <2>1, <2>5, <2>6, <3>1, <3>2, ChangePending
  <2>8. CASE Stage
    <3>1. pc = "stage" /\ pc' = "idle" /\ staged' = staged \cup OpPairs /\ removed' = removed
      BY <2>8 DEF Stage, Step
    <3>2. op.kind = "insert"
      BY <3>1 DEF OpPlaces
    <3>3. \A p \in OpPairs : "erase" \notin asked[p] => Stays(p)'
      BY <2>6, <3>1 DEF Stays
    <3> QED BY <2>1, <2>4, <2>5, <2>6, <3>1, <3>2, <3>3, ChangePending
  <2>9. CASE Unstage
    <3>1. pc = "unstage" /\ pc' = "idle" /\ staged' = staged \ OpPairs /\ removed' = removed
      BY <2>9 DEF Unstage, Step
    <3>2. op.kind = "erase" /\ \A p \in OpPairs : "insert" \in asked[p] /\ (p \in staged \/ p \notin fresh)
      BY <3>1 DEF OpPlaces, Erasing
    <3>3. \A p \in OpPairs : p \in fresh => Goes(p)'
      BY <2>1, <2>6, <3>1 DEF Goes, Clean
    <3> QED BY <2>1, <2>4, <2>5, <2>6, <3>1, <3>2, <3>3, ChangePending
  <2>10. CASE StageRemoval
    <3>1. pc = "remove" /\ pc' = "idle" /\ staged' = staged /\ removed' = removed \cup OpPairs
      BY <2>10 DEF StageRemoval, Step
    <3>2. op.kind = "erase" /\ OpPairs \cap staged = {}
      BY <3>1 DEF OpPlaces, Erasing
    <3>3. \A p \in OpPairs : Goes(p)'
      BY <3>1, <3>2 DEF Goes
    <3> QED BY <2>1, <2>4, <2>5, <2>6, <3>1, <3>2, <3>3, ChangePending
  <2> QED BY <1>5, <2>7, <2>8, <2>9, <2>10
<1>6. CASE DropRemoved \/ DropStaged
  <2>1. /\ pc \in {"dropRemoved", "dropStaged"}
        /\ UNCHANGED <<toAdd, toRemove, redis, askVars, op, syncPc, connected, crossed>>
    BY <1>6 DEF DropRemoved, DropStaged, Step, syncVars, redisVars, histVars
  <2>2. op.kind = "set" /\ op \in Ops
    BY <2>1 DEF OpPlaces
  <2>3. \/ pc = "dropRemoved" /\ pc' = "dropStaged" /\ staged' = staged /\ removed' = removed \ OfKey(removed, op.key)
        \/ pc = "dropStaged" /\ pc' = "delete" /\ staged' = staged \ OfKey(staged, op.key) /\ removed' = removed
    BY <1>6 DEF DropRemoved, DropStaged, Step
  <2>4. Replacing'
    BY <2>1, <2>2, <2>3 DEF Replacing, OfKey
  <2>5. \A p \in Pairs : p \in Underway <=> p[1] = op.key
    BY <2>1, <2>2, TouchedPairs DEF Underway, OfKey
  <2>6. /\ \A p \in Pairs : p \notin Underway =>
             (p \in staged' <=> p \in staged) /\ (p \in removed' <=> p \in removed)
        /\ \A p \in removed' : p \in removed /\ (p \notin Underway \/ pc = "dropStaged")
        /\ \A p \in staged' : p \in staged /\ (p \notin Underway \/ pc' = "dropStaged")
    BY <2>3, <2>5 DEF OfKey, PairSets
  <2>7. \A p \in removed' : "erase" \in asked[p] /\ p \in recent
    BY <2>6 DEF Pending
  <2>8. \A p \in staged' : \/ "insert" \in asked[p] /\ p \in recent
                           \/ p \in staged /\ p \in Underway /\ pc' \in {"dropRemoved", "dropStaged"}
    BY <2>6 DEF Pending
  <2> QED BY <2>1, <2>3, <2>4, <2>6, <2>7, <2>8, ChangePending
<1>7. CASE Delete \/ Add
  <2>1. PICK after : /\ Send(after, Number)
                     /\ \/ pc = "delete" /\ pc' = "deleted" /\ after = redis \ OfKey(redis, op.key)
                        \/ pc = "add" /\ pc' = "added" /\ after = redis \cup OpPairs
    BY <1>7 DEF Delete, Add, Step
  <2>2. UNCHANGED <<staged, removed, toAdd, toRemove, askVars, op, syncPc, crossed>>
    BY <1>7 DEF Delete, Add, rwVars, syncVars, histVars
  <2>3. connected' = connected /\ redis' = (IF connected THEN after ELSE redis)
    BY <2>1 DEF Send
  <2>4. OpPairs \subseteq Pairs /\ \A p \in OpPairs : p[1] = op.key
    <3>1. op \in Ops
      BY <2>1 DEF OpPlaces
    <3> QED BY <3>1, TouchedPairs DEF OpPairs
  <2>5. after \subseteq Pairs /\ \A p \in Pairs \ OfKey(Pairs, op.key) : p \in after <=> p \in redis
    BY <2>1, <2>4 DEF OfKey, PairSets
  <2>6. ChangeInv'
    BY <2>1, <2>2, <2>3, <2>5, ChangeRedis DEF PairSets
  <2>7. OpPairs' = OpPairs
    BY <2>2 DEF OpPairs
  <2>8. Replacing'
    BY <2>1, <2>2, <2>3, <2>4, <2>7 DEF Replacing, OfKey
  <2> QED BY <2>6, <2>8
<1>8. CASE Deleted \/ Added
  <2>1. /\ TakeReply
        /\ \/ pc = "deleted" /\ pc' = IF Reply = Null \/ op.vals = {} THEN "idle" ELSE "add"
           \/ pc = "added" /\ pc' = "idle"
        /\ UNCHANGED <<staged, removed, toAdd, toRemove, askVars, op, syncPc, crossed>>
    BY <1>8 DEF Deleted, Added, Step, TestReply, rwVars, syncVars, histVars
  <2>2. connected' = connected /\ redis' = redis /\ (connected => Reply.type # "null")
    BY <2>1, TakeWire
  <2>3. connected => Reply # Null
    BY <2>2 DEF Null
  <2>4. op.vals = {} => OpPairs = {}
    BY DEF OpPairs
  <2>5. OpPairs' = OpPairs
    BY <2>1 DEF OpPairs
  <2>6. Replacing'
    BY <2>1, <2>2, <2>3, <2>4, <2>5 DEF Replacing
  <2>7. ChangeInv'
    BY <2>1, <2>2, ChangeRedis DEF PairSets
  <2> QED BY <2>6, <2>7
<1> QED BY <1>1, <1>2, <1>3, <1>4, <1>5, <1>6, <1>7, <1>8 DEF Worker

LEMMA ChangeSync ==
  ASSUME CacheInv, ChangeInv, Replacing, Sync
  PROVE  ChangeInv' /\ Replacing'
<1> USE DEF CacheInv, ChangeInv
<1>1. CASE SyncTest \/ FlushEnd
  <2>1. /\ \/ syncPc = "test" /\ syncPc' \in {"sleep", "exited"}
           \/ syncPc' = "test" /\ toAdd = {} /\ toRemove = {}
        /\ pc' = pc
        /\ UNCHANGED <<staged, removed, toAdd, toRemove, redis, askVars, op, connected, crossed>>
    BY <1>1 DEF SyncTest, FlushEnd, SyncStep, rwVars, redisVars, histVars
  <2> QED BY <2>1, ChangeQuiet
<1>2. CASE FlushReply
  <2>1. /\ TakeReply /\ syncPc' = "flush" /\ pc' = pc
        /\ UNCHANGED <<staged, removed, toAdd, toRemove, askVars, op, crossed>>
    BY <1>2 DEF FlushReply, SyncStep, TestReply, rwVars, histVars
  <2>2. connected' = connected /\ redis' = redis
    BY <2>1, TakeWire
  <2> QED BY <2>1, <2>2, ChangeQuiet
<1>3. CASE Reset
  <2>1. /\ syncPc = "sleep" /\ syncPc' = "flush" /\ toAdd' = staged /\ toRemove' = removed
        /\ staged' = {} /\ removed' = {}
        /\ crossed' = (crossed \/ (pc # "idle" /\ OfKey(staged \cup removed, op.key) # {}))
        /\ UNCHANGED <<pc, op, redis, connected, last, asked>>
        /\ recent' = Underway /\ fresh' = fresh \ (Underway \cap (redis \cup staged))
    BY <1>3 DEF Reset, SyncStep, redisVars
  <2>2. toAdd = {} /\ toRemove = {}
    BY <2>1 DEF Asking
  <2>3. OpPairs' = OpPairs /\ Underway' = Underway
    BY <2>1 DEF OpPairs, Underway, Touched
  <2>4. Single' /\ Asking' /\ Pending'
    BY <2>1, <2>3 DEF Single, Asking, Pending
  <2>5. Clean'
    BY <2>1 DEF Clean
  <2>6. Erasing'
    <3>1. pc = "unstage" => OpPairs \subseteq Underway
      BY TouchedPairs DEF OpPlaces, Underway
    <3> QED BY <2>1, <2>3, <3>1 DEF Erasing
  <2>7. ASSUME NEW p \in Pairs PROVE (Stays(p) => Stays(p)') /\ (Goes(p) => Goes(p)')
    BY <2>1, <2>2 DEF Stays, Goes
  <2>8. Kept'
    BY <2>1, <2>3, <2>7 DEF Kept
  <2>9. Replacing'
    BY <2>1, <2>3 DEF Replacing, OfKey
  <2> QED BY <2>4, <2>5, <2>6, <2>8, <2>9
<1>4. CASE Flush
  <2>1. PICK k \in Keys :
          \/ /\ Send(redis \cup OfKey(toAdd, k), Number)
             /\ toAdd' = toAdd \ OfKey(toAdd, k) /\ toRemove' = toRemove
          \/ /\ Send(redis \ OfKey(toRemove, k), Number)
             /\ toAdd = {} /\ toAdd' = toAdd /\ toRemove' = toRemove \ OfKey(toRemove, k)
    BY <1>4 DEF Flush
  <2>2. /\ syncPc' = "reply"
        /\ UNCHANGED <<staged, removed, pc, op, last, recent, asked, fresh, crossed>>
    BY <1>4 DEF Flush, SyncStep, rwVars, histVars, askVars
  <2>3. connected' = connected /\ (~connected => redis' = redis)
    BY <2>1 DEF Send
  <2>4. connected =>
          \/ /\ redis' = redis \cup OfKey(toAdd, k)
             /\ toAdd' = toAdd \ OfKey(toAdd, k) /\ toRemove' = toRemove
          \/ /\ redis' = redis \ OfKey(toRemove, k)
             /\ toAdd = {} /\ toAdd' = toAdd /\ toRemove' = toRemove \ OfKey(toRemove, k)
    BY <2>1 DEF Send
  <2>5. toAdd' \subseteq toAdd /\ toRemove' \subseteq toRemove
    BY <2>1
  <2>6. OpPairs' = OpPairs /\ Underway' = Underway
    BY <2>2 DEF OpPairs, Underway, Touched
  <2>7. Single' /\ Asking' /\ Pending' /\ Erasing'
    BY <2>2, <2>6 DEF Single, Asking, Pending, Erasing
  <2>8. redis' \cup toAdd' \subseteq redis \cup toAdd
    <3>1. OfKey(toAdd, k) \subseteq toAdd
      BY DEF OfKey
    <3> QED BY <2>3, <2>4, <2>5, <3>1
  <2>9. Clean'
    BY <2>2, <2>8 DEF Clean
  <2>10. Kept'
    <3> SUFFICES ASSUME connected', NEW p \in Pairs
                 PROVE  (Stays(p) => Stays(p)') /\ (Goes(p) => Goes(p)')
      BY <2>2, <2>3, <2>6 DEF Kept
    <3>1. CASE /\ redis' = redis \cup OfKey(toAdd, k)
               /\ toAdd' = toAdd \ OfKey(toAdd, k) /\ toRemove' = toRemove
      BY <2>2, <3>1 DEF Stays, Goes, OfKey
    <3>2. CASE /\ redis' = redis \ OfKey(toRemove, k)
               /\ toAdd = {} /\ toAdd' = toAdd /\ toRemove' = toRemove \ OfKey(toRemove, k)
      BY <2>2, <3>2 DEF Stays, Goes, OfKey
    <3> QED BY <2>3, <2>4, <3>1, <3>2
  <2>11. Replacing'
    <3> SUFFICES ASSUME connected', op.kind = "set", ~crossed PROVE Replacing'
      BY <2>2 DEF Replacing
    <3>1. connected /\ OfKey(toAdd \cup toRemove, op.key) = {}
      BY <2>3 DEF Replacing
    <3>2. OfKey(redis', op.key) = OfKey(redis, op.key)
      BY <2>4, <3>1 DEF OfKey
    <3>3. OfKey(toAdd' \cup toRemove', op.key) = {}
      BY <2>5, <3>1 DEF OfKey
    <3> QED BY <2>2, <2>6, <3>1, <3>2, <3>3 DEF Replacing
  <2> QED BY <2>7, <2>9, <2>10, <2>11
<1> QED BY <1>1, <1>2, <1>3, <1>4 DEF Sync

LEMMA ChangeStep == CacheInv /\ ChangeInv /\ Replacing /\ [Next]_vars => ChangeInv' /\ Replacing'
<1> SUFFICES ASSUME CacheInv, ChangeInv, Replacing, [Next]_vars PROVE ChangeInv' /\ Replacing'
  OBVIOUS
<1>1. CASE Destroy \/ Destroyed \/ LoseRedis \/ Collide \/ UNCHANGED vars
  <2>1. /\ UNCHANGED <<staged, removed, pc, op, syncPc, toAdd, toRemove, redis, askVars, crossed>>
        /\ UNCHANGED connected \/ ~connected'
    BY <1>1 DEF Destroy, Destroyed, LoseRedis, Collide, vars, lruVars, rwVars, syncVars, redisVars,
       endVars, histVars
  <2>2. CASE UNCHANGED connected
    BY <2>1, <2>2, ChangeQuiet
  <2>3. CASE ~connected'
    <3>1. UNCHANGED <<last, recent, asked, fresh>> /\ OpPairs' = OpPairs /\ Underway' = Underway
      BY <2>1 DEF askVars, OpPairs, Underway, Touched
    <3>2. Single' /\ Asking' /\ Pending' /\ Clean' /\ Erasing'
      BY <2>1, <3>1 DEF ChangeInv, Single, Asking, Pending, Clean, Erasing
    <3> QED BY <2>3, <3>2 DEF ChangeInv, Kept, Replacing
  <2> QED BY <2>1, <2>2, <2>3
<1> QED BY <1>1, ChangeRequest, ChangeWorker, ChangeSync DEF Next

LEMMA ChangeAlways == Spec => [](CacheInv /\ ChangeInv /\ Replacing)
<1>1. Init => CacheInv /\ ChangeInv /\ Replacing
  BY CacheInit, ChangeInit
<1>2. CacheInv /\ ChangeInv /\ Replacing /\ [Next]_vars => (CacheInv /\ ChangeInv /\ Replacing)'
  BY CacheStep, ChangeStep
<1> QED BY <1>1, <1>2, PTL DEF Spec

LEMMA InvChangesKept == ChangeInv => (connected => ChangesKept)
BY DEF ChangeInv, Kept, ChangesKept, Settled, Stays, Goes

LEMMA InvSetReplaces == CacheInv /\ Replacing => (connected => SetReplaces)
<1> SUFFICES ASSUME CacheInv, Replacing, connected, op.kind = "set", pc = "idle", ~crossed
             PROVE  ValuesOf(redis, op.key) = op.vals /\ OfKey(staged \cup removed, op.key) = {}
  BY DEF SetReplaces
<1>1. OfKey(removed, op.key) = {} /\ OfKey(staged, op.key) = {} /\ OfKey(redis, op.key) = OpPairs
  BY DEF Replacing
<1>2. \A v : v \in op.vals <=> \E p \in OpPairs : p[2] = v
  <2>1. ASSUME NEW v \in op.vals PROVE \E p \in OpPairs : p[2] = v
    <3>1. <<op.key, v>> \in OpPairs /\ <<op.key, v>>[2] = v
      BY DEF OpPairs
    <3> QED BY <3>1
  <2>2. ASSUME NEW p \in OpPairs PROVE p[2] \in op.vals
    BY SMT DEF OpPairs
  <2> QED BY <2>1, <2>2
<1>3. ValuesOf(redis, op.key) = op.vals
  BY <1>1, <1>2 DEF ValuesOf
<1> QED BY <1>1, <1>3 DEF OfKey

LEMMA AlwaysConnected == ~RedisFails => (Spec => []connected)
<1> SUFFICES ASSUME ~RedisFails PROVE Spec => []connected
  OBVIOUS
<1>1. Init => connected
  BY DEF Init
<1>2. ASSUME connected, [Next]_vars PROVE connected'
  <2>1. CASE Request
    BY <1>2, <2>1 DEF Request, Get, Change, Set, Begin, redisVars
  <2>2. CASE Worker
    BY <1>2, <2>2 DEF Worker, Fetch, Fetched, ApplyInsert, CancelRemoval, Stage, ApplyErase, Unstage,
       StageRemoval, DropRemoved, DropStaged, Delete, Deleted, Add, Added, Send, TestReply, TakeReply,
       redisVars
  <2>3. CASE Sync
    BY <1>2, <2>3 DEF Sync, SyncTest, Reset, Flush, FlushReply, FlushEnd, Send, TestReply,
       TakeReply, redisVars
  <2>4. CASE Destroy \/ Destroyed \/ LoseRedis \/ Collide \/ UNCHANGED vars
    BY <1>2, <2>4 DEF Destroy, Destroyed, LoseRedis, Collide, vars, redisVars
  <2> QED BY <1>2, <2>1, <2>2, <2>3, <2>4 DEF Next
<1>3. connected /\ [Next]_vars => connected'
  BY <1>2
<1> QED BY <1>1, <1>3, PTL DEF Spec

\* Until the connection to redis is lost, an address that was registered last is in
\* redis or on its way there, and one withdrawn last is out of it or will be: whatever
\* syncThread takes and sends between the steps of the worker, and also if it was
\* registered and withdrawn in one period, when redis did not know it (rwSetCache.h:15-64,
\* cache.cpp:2-54).
THEOREM ChangesSurvive == Spec => [](connected => ChangesKept)
BY ChangeAlways, InvChangesKept, PTL

\* So they do for good if the connection is never lost.
THEOREM ChangesAreKept == ~RedisFails => (Spec => []ChangesKept)
BY ChangesSurvive, AlwaysConnected, PTL

\* A replacement that the sync thread does not cross leaves redis with exactly
\* the addresses it gave, and nothing pending (redisSet.cpp, rwSetCache.cpp).
THEOREM ReplacementExact == Spec => [](connected => SetReplaces)
BY ChangeAlways, InvSetReplaces, PTL

THEOREM SetsReplace == ~RedisFails => (Spec => []SetReplaces)
BY ReplacementExact, AlwaysConnected, PTL
=============================================================================
