------------------------- MODULE KafkaProducerProofs -------------------------
(***************************************************************************)
(* Proofs about KafkaProducer: its types, and LogFollowsOrder, for any     *)
(* requests, any number of refusals and any length of the log.             *)
(*                                                                         *)
(* The invariant, LogInv, adds to them that the pool has one task under    *)
(* way and only that one stands inside produce (Alone), that the instance  *)
(* is made while there is none and the thread starts with it (Made), and   *)
(* that a call is handled once and the one being produced is the last that *)
(* was handled (Ordered).  That the log stays the order when librdkafka    *)
(* refuses a message rests on lemmas about Only, by induction on the       *)
(* length of a sequence.  Started and Notified add that what was pushed is *)
(* seen by the thread: the safety core of EveryCallLogged.                 *)
(***************************************************************************)
EXTENDS KafkaProducer, FiniteSetTheorems, SequenceTheorems, NaturalsInduction,
        WellFoundedInduction, TLAPS

-----------------------------------------------------------------------------
(***************************************************************************)
(* Induction on numbers and on sequences, from the library's theorem that  *)
(* the order of the numbers is well-founded.                               *)
(***************************************************************************)
LEMMA LeastNumber ==
  ASSUME NEW S, S \subseteq Nat, S # {}
  PROVE  \E m \in S : \A n \in S : m <= n
<1> DEFINE Below == {x \in Nat \X Nat : x[1] < x[2]}
<1>1. IsWellFoundedOn(Below, Nat)
  BY NatLessThanWellFounded DEF OpToRel
<1>2. \A m, n \in Nat : n < m => <<n, m>> \in Below
  OBVIOUS
<1> HIDE DEF Below
<1>3. PICK m \in S : \A n \in S : <<n, m>> \notin Below
  BY <1>1, WFMin
<1>4. \A n \in S : ~(n < m)
  BY <1>2, <1>3
<1>5. \A n \in S : m <= n
  BY <1>4
<1> QED BY <1>5

\* A set that has 0 and each successor of its numbers has all numbers.
LEMMA NumberInduction ==
  ASSUME NEW S, 0 \in S, \A n \in Nat : n \in S => n + 1 \in S
  PROVE  \A n \in Nat : n \in S
<1> DEFINE Others == Nat \ S
<1> SUFFICES ASSUME Others # {} PROVE FALSE
  OBVIOUS
<1>1. \A n \in Others : n \in Nat /\ n \notin S
  OBVIOUS
<1>2. Others \subseteq Nat /\ \A n \in Nat : n \notin S => n \in Others
  OBVIOUS
<1> HIDE DEF Others
<1>3. PICK m \in Others : \A n \in Others : m <= n
  BY <1>2, LeastNumber
<1>4. m # 0 /\ m - 1 \in Nat
  BY <1>1, <1>3
<1>5. m - 1 \in S
  BY <1>2, <1>3, <1>4
<1> QED BY <1>1, <1>3, <1>4, <1>5

\* A set that has the empty sequence, and with a sequence each that is longer by
\* one element, has all sequences.
LEMMA SequenceInduction ==
  ASSUME NEW T, NEW G, <<>> \in G,
         \A s \in Seq(T), e \in T : s \in G => Append(s, e) \in G
  PROVE  \A s \in Seq(T) : s \in G
<1> DEFINE N == {n \in Nat : \A s \in Seq(T) : Len(s) = n => s \in G}
<1>1. 0 \in N
  <2>1. \A s \in Seq(T) : Len(s) = 0 => s = <<>>
    BY EmptySeq
  <2> QED BY <2>1
<1>2. ASSUME NEW n \in Nat, n \in N PROVE n + 1 \in N
  <2> SUFFICES ASSUME NEW s \in Seq(T), Len(s) = n + 1 PROVE s \in G
    OBVIOUS
  <2> DEFINE f == SubSeq(s, 1, n)
  <2>1. s[n + 1] \in T
    BY ElementOfSeq
  <2>2. f \in Seq(T) /\ Len(f) = n /\ \A i \in 1..n : f[i] = s[i]
    OBVIOUS
  <2>3. Append(f, s[n + 1]) = s
    OBVIOUS
  <2> HIDE DEF f
  <2>4. f \in G
    BY <1>2, <2>2
  <2> QED BY <2>1, <2>2, <2>3, <2>4
<1>3. \A n \in Nat : n \in N
  <2> HIDE DEF N
  <2> QED BY <1>1, <1>2, NumberInduction
<1> QED BY <1>3, LenProperties

-----------------------------------------------------------------------------
(***************************************************************************)
(* What Only gives.                                                        *)
(***************************************************************************)
Has(s, x) == \E i \in 1..Len(s) : s[i] = x
Distinct(s) == \A i, j \in 1..Len(s) : s[i] = s[j] => i = j

\* One step of the recursive function in Only, and the function.
Step(g, s, S, n) ==
  IF n = 0 THEN <<>> ELSE IF s[n] \in S THEN Append(g[n - 1], s[n]) ELSE g[n - 1]

Follows(g, s, S, m) == g = [n \in 0..m |-> Step(g, s, S, n)]

\* The function exists, and its last value is what Only gives.
LEMMA OnlyFollows ==
  ASSUME NEW T, NEW s \in Seq(T), NEW S
  PROVE  \E g : Follows(g, s, S, Len(s)) /\ Only(s, S) = g[Len(s)]
<1> DEFINE Defined == {m \in Nat : \E g : Follows(g, s, S, m)}
<1>1. 0 \in Defined
  <2> DEFINE g == [n \in 0..0 |-> <<>>]
  <2>1. Follows(g, s, S, 0)
    BY DEF Follows, Step
  <2> QED BY <2>1
<1>2. ASSUME NEW m \in Nat, m \in Defined PROVE m + 1 \in Defined
  <2>1. PICK g : Follows(g, s, S, m)
    BY <1>2
  <2> DEFINE h == [n \in 0..(m + 1) |-> IF n = m + 1 THEN Step(g, s, S, m + 1) ELSE g[n]]
  <2>2. \A n \in 0..m : g[n] = Step(g, s, S, n)
    BY <2>1 DEF Follows
  <2>3. /\ \A n \in 0..m : n \in 0..(m + 1) /\ n # m + 1 /\ h[n] = g[n]
        /\ h[m + 1] = Step(g, s, S, m + 1)
    OBVIOUS
  <2>4. h = [n \in 0..(m + 1) |-> h[n]]
    OBVIOUS
  <2> HIDE DEF h
  <2>5. ASSUME NEW n \in 0..(m + 1) PROVE Step(h, s, S, n) = Step(g, s, S, n)
    <3>1. n # 0 => n - 1 \in 0..m
      OBVIOUS
    <3>2. n # 0 => h[n - 1] = g[n - 1]
      BY <2>3, <3>1
    <3> QED BY <3>2 DEF Step
  <2>6. \A n \in 0..(m + 1) : n \in 0..m \/ n = m + 1
    OBVIOUS
  <2>7. \A n \in 0..(m + 1) : h[n] = Step(h, s, S, n)
    BY <2>2, <2>3, <2>5, <2>6
  <2>8. Follows(h, s, S, m + 1)
    BY <2>4, <2>7 DEF Follows
  <2> QED BY <2>8
<1>3. \A n \in Nat : n \in Defined
  <2> HIDE DEF Defined
  <2> QED BY <1>1, <1>2, NumberInduction
<1>4. \E g : Follows(g, s, S, Len(s))
  BY <1>3, LenProperties
<1> DEFINE kept == CHOOSE g : Follows(g, s, S, Len(s))
<1>5. Follows(kept, s, S, Len(s))
  BY <1>4
<1>6. Only(s, S) = kept[Len(s)]
  BY DEF Only, Follows, Step
<1> QED BY <1>5, <1>6

LEMMA OnlyEmpty == \A S : Only(<<>>, S) = <<>>
<1> SUFFICES ASSUME NEW S PROVE Only(<<>>, S) = <<>>
  OBVIOUS
<1> DEFINE s == <<>>
<1>1. s \in Seq({}) /\ Len(s) = 0
  OBVIOUS
<1> HIDE DEF s
<1>2. PICK g : Follows(g, s, S, Len(s)) /\ Only(s, S) = g[Len(s)]
  BY <1>1, OnlyFollows
<1>3. g[0] = <<>>
  BY <1>1, <1>2 DEF Follows, Step
<1> QED BY <1>1, <1>2, <1>3 DEF s

LEMMA OnlyAppend ==
  ASSUME NEW T, NEW s \in Seq(T), NEW e \in T, NEW S
  PROVE  Only(Append(s, e), S) = IF e \in S THEN Append(Only(s, S), e) ELSE Only(s, S)
<1> DEFINE a == Append(s, e)
<1>1. /\ a \in Seq(T) /\ Len(a) = Len(s) + 1 /\ Len(s) \in Nat
      /\ \A i \in 1..Len(s) : a[i] = s[i]
      /\ a[Len(s) + 1] = e
  BY AppendProperties, LenProperties
<1> HIDE DEF a
<1>2. PICK g : Follows(g, s, S, Len(s)) /\ Only(s, S) = g[Len(s)]
  BY OnlyFollows
<1>3. PICK h : Follows(h, a, S, Len(a)) /\ Only(a, S) = h[Len(a)]
  BY <1>1, OnlyFollows
<1>4. \A n \in 0..Len(s) : g[n] = Step(g, s, S, n)
  BY <1>2 DEF Follows
<1>5. \A n \in 0..Len(s) + 1 : h[n] = Step(h, a, S, n)
  BY <1>1, <1>3 DEF Follows
<1> DEFINE Same == {n \in Nat : n <= Len(s) => g[n] = h[n]}
<1>6. 0 \in Same
  BY <1>1, <1>4, <1>5 DEF Step
<1>7. ASSUME NEW n \in Nat, n \in Same PROVE n + 1 \in Same
  <2> SUFFICES ASSUME n + 1 <= Len(s) PROVE g[n + 1] = h[n + 1]
    OBVIOUS
  <2>1. n + 1 \in 0..Len(s) /\ n + 1 \in 0..Len(s) + 1 /\ n + 1 # 0 /\ (n + 1) - 1 = n
        /\ n + 1 \in 1..Len(s) /\ n <= Len(s)
    BY <1>1
  <2>2. g[n] = h[n] /\ a[n + 1] = s[n + 1]
    BY <1>1, <1>7, <2>1
  <2> QED BY <1>4, <1>5, <2>1, <2>2 DEF Step
<1>8. \A n \in Nat : n \in Same
  <2> HIDE DEF Same
  <2> QED BY <1>6, <1>7, NumberInduction
<1>9. h[Len(s)] = Only(s, S)
  BY <1>1, <1>2, <1>8
<1>10. h[Len(s) + 1] = IF e \in S THEN Append(h[Len(s)], e) ELSE h[Len(s)]
  <2>1. Len(s) + 1 \in 0..Len(s) + 1 /\ Len(s) + 1 # 0 /\ (Len(s) + 1) - 1 = Len(s)
    BY <1>1
  <2> QED BY <1>1, <1>5, <2>1 DEF Step
<1> QED BY <1>1, <1>3, <1>9, <1>10 DEF a

LEMMA AppendHas ==
  ASSUME NEW T, NEW s \in Seq(T), NEW e \in T
  PROVE  /\ Append(s, e) \in Seq(T)
         /\ \A x : Has(Append(s, e), x) <=> Has(s, x) \/ x = e
         /\ Distinct(s) /\ ~Has(s, e) <=> Distinct(Append(s, e))
<1>1. /\ Append(s, e) \in Seq(T) /\ Len(Append(s, e)) = Len(s) + 1 /\ Len(s) \in Nat
      /\ \A i \in 1..Len(s) : Append(s, e)[i] = s[i]
      /\ Append(s, e)[Len(s) + 1] = e
  BY AppendProperties, LenProperties
<1> DEFINE a == Append(s, e)
<1> HIDE DEF a
<1>2. /\ \A i \in 1..(Len(s) + 1) : i \in 1..Len(s) \/ i = Len(s) + 1
      /\ \A i \in 1..Len(s) : i \in 1..Len(a) /\ i # Len(s) + 1
      /\ Len(s) + 1 \in 1..Len(a)
  BY <1>1 DEF a
<1>3. ASSUME NEW x PROVE Has(a, x) <=> Has(s, x) \/ x = e
  BY <1>1, <1>2 DEF Has, a
<1>4. ASSUME Distinct(s), ~Has(s, e) PROVE Distinct(a)
  BY <1>1, <1>2, <1>4 DEF Has, Distinct, a
<1>5. ASSUME Distinct(a) PROVE Distinct(s) /\ ~Has(s, e)
  <2>1. Distinct(s)
    BY <1>1, <1>2, <1>5 DEF Distinct, a
  <2>2. ~Has(s, e)
    BY <1>1, <1>2, <1>5 DEF Distinct, Has, a
  <2> QED BY <2>1, <2>2
<1> QED BY <1>1, <1>3, <1>4, <1>5 DEF a

\* Only has the elements of the sequence that are in the set, each once if they are
\* once in the sequence.
LEMMA OnlyHas ==
  ASSUME NEW T, NEW S
  PROVE  \A s \in Seq(T) : /\ Only(s, S) \in Seq(T)
                           /\ \A x : Has(Only(s, S), x) <=> Has(s, x) /\ x \in S
                           /\ Distinct(s) => Distinct(Only(s, S))
<1> DEFINE Right(s) == /\ Only(s, S) \in Seq(T)
                       /\ \A x : Has(Only(s, S), x) <=> Has(s, x) /\ x \in S
                       /\ Distinct(s) => Distinct(Only(s, S))
           G == {s \in Seq(T) : Right(s)}
<1>1. <<>> \in G
  <2>1. <<>> \in Seq(T) /\ Len(<<>>) = 0
    OBVIOUS
  <2>2. Distinct(<<>>) /\ \A x : ~Has(<<>>, x)
    BY <2>1 DEF Has, Distinct
  <2> QED BY <2>1, <2>2, OnlyEmpty
<1>2. ASSUME NEW s \in Seq(T), NEW e \in T, Right(s) PROVE Right(Append(s, e))
  <2>1. CASE e \in S
    <3>1. Only(Append(s, e), S) = Append(Only(s, S), e)
      BY <2>1, OnlyAppend
    <3>2. /\ Append(Only(s, S), e) \in Seq(T)
          /\ \A x : Has(Append(Only(s, S), e), x) <=> Has(Only(s, S), x) \/ x = e
          /\ Distinct(Only(s, S)) /\ ~Has(Only(s, S), e) => Distinct(Append(Only(s, S), e))
      BY <1>2, AppendHas
    <3>3. /\ \A x : Has(Append(s, e), x) <=> Has(s, x) \/ x = e
          /\ Distinct(Append(s, e)) => Distinct(s) /\ ~Has(s, e)
      BY AppendHas
    <3> QED BY <1>2, <2>1, <3>1, <3>2, <3>3
  <2>2. CASE e \notin S
    <3>1. Only(Append(s, e), S) = Only(s, S)
      BY <2>2, OnlyAppend
    <3>2. /\ \A x : Has(Append(s, e), x) <=> Has(s, x) \/ x = e
          /\ Distinct(Append(s, e)) => Distinct(s) /\ ~Has(s, e)
      BY AppendHas
    <3> QED BY <1>2, <2>2, <3>1, <3>2
  <2> QED BY <2>1, <2>2
<1> HIDE DEF Right
<1>3. \A s \in Seq(T), e \in T : s \in G => Append(s, e) \in G
  BY <1>2, AppendHas
<1>4. \A s \in Seq(T) : s \in G
  <2> HIDE DEF G
  <2> QED BY <1>1, <1>3, SequenceInduction
<1> QED BY <1>4 DEF Right

\* Only keeps a sequence whose elements are all in the set.
LEMMA OnlyAll ==
  ASSUME NEW T, NEW S
  PROVE  \A s \in Seq(T) : (\A x : Has(s, x) => x \in S) => Only(s, S) = s
<1> DEFINE Right(s) == (\A x : Has(s, x) => x \in S) => Only(s, S) = s
           G == {s \in Seq(T) : Right(s)}
<1>1. <<>> \in G
  BY OnlyEmpty
<1>2. ASSUME NEW s \in Seq(T), NEW e \in T, Right(s) PROVE Right(Append(s, e))
  <2> SUFFICES ASSUME \A x : Has(Append(s, e), x) => x \in S
               PROVE  Only(Append(s, e), S) = Append(s, e)
    OBVIOUS
  <2>1. e \in S /\ \A x : Has(s, x) => x \in S
    BY AppendHas
  <2>2. Only(s, S) = s
    BY <1>2, <2>1
  <2> QED BY <2>1, <2>2, OnlyAppend
<1> HIDE DEF Right
<1>3. \A s \in Seq(T), e \in T : s \in G => Append(s, e) \in G
  BY <1>2, AppendHas
<1>4. \A s \in Seq(T) : s \in G
  <2> HIDE DEF G
  <2> QED BY <1>1, <1>3, SequenceInduction
<1> QED BY <1>4 DEF Right

\* And nothing of one that has no element of the set.
LEMMA OnlyNone ==
  ASSUME NEW T, NEW S
  PROVE  \A s \in Seq(T) : (\A x : Has(s, x) => x \notin S) => Only(s, S) = <<>>
<1> DEFINE Right(s) == (\A x : Has(s, x) => x \notin S) => Only(s, S) = <<>>
           G == {s \in Seq(T) : Right(s)}
<1>1. <<>> \in G
  BY OnlyEmpty
<1>2. ASSUME NEW s \in Seq(T), NEW e \in T, Right(s) PROVE Right(Append(s, e))
  <2> SUFFICES ASSUME \A x : Has(Append(s, e), x) => x \notin S
               PROVE  Only(Append(s, e), S) = <<>>
    OBVIOUS
  <2>1. e \notin S /\ \A x : Has(s, x) => x \notin S
    BY AppendHas
  <2>2. Only(s, S) = <<>>
    BY <1>2, <2>1
  <2> QED BY <2>1, <2>2, OnlyAppend
<1> HIDE DEF Right
<1>3. \A s \in Seq(T), e \in T : s \in G => Append(s, e) \in G
  BY <1>2, AppendHas
<1>4. \A s \in Seq(T) : s \in G
  <2> HIDE DEF G
  <2> QED BY <1>1, <1>3, SequenceInduction
<1> QED BY <1>4 DEF Right

LEMMA JoinAppend ==
  ASSUME NEW T, NEW a \in Seq(T), NEW s \in Seq(T), NEW e \in T
  PROVE  a \o Append(s, e) = Append(a \o s, e) /\ a \o s \in Seq(T)
OBVIOUS

\* Only of two sequences in a row.
LEMMA OnlyJoin ==
  ASSUME NEW T, NEW S, NEW a \in Seq(T)
  PROVE  \A s \in Seq(T) : Only(a \o s, S) = Only(a, S) \o Only(s, S)
<1> DEFINE Right(s) == Only(a \o s, S) = Only(a, S) \o Only(s, S)
           G == {s \in Seq(T) : Right(s)}
<1>0. Only(a, S) \in Seq(T)
  BY OnlyHas
<1>1. <<>> \in G
  <2>1. a \o <<>> = a /\ Only(a, S) \o <<>> = Only(a, S) /\ <<>> \in Seq(T)
    BY <1>0
  <2> QED BY <2>1, OnlyEmpty
<1>2. ASSUME NEW s \in Seq(T), NEW e \in T, Right(s) PROVE Right(Append(s, e))
  <2>1. a \o Append(s, e) = Append(a \o s, e) /\ a \o s \in Seq(T)
    BY JoinAppend
  <2>2. Only(Append(a \o s, e), S) = IF e \in S THEN Append(Only(a \o s, S), e) ELSE Only(a \o s, S)
    BY <2>1, OnlyAppend
  <2>3. Only(Append(s, e), S) = IF e \in S THEN Append(Only(s, S), e) ELSE Only(s, S)
    BY OnlyAppend
  <2>4. Only(s, S) \in Seq(T)
    BY OnlyHas
  <2> DEFINE c == Only(a, S)
             d == Only(s, S)
  <2>5. Append(c \o d, e) = c \o Append(d, e)
    <3>1. c \in Seq(T) /\ d \in Seq(T)
      BY <1>0, <2>4
    <3> HIDE DEF c, d
    <3>2. \A x \in Seq(T), y \in Seq(T) : x \o Append(y, e) = Append(x \o y, e)
      BY JoinAppend
    <3> QED BY <3>1, <3>2
  <2> QED BY <1>2, <2>1, <2>2, <2>3, <2>5
<1> HIDE DEF Right
<1>3. \A s \in Seq(T), e \in T : s \in G => Append(s, e) \in G
  BY <1>2, AppendHas
<1>4. \A s \in Seq(T) : s \in G
  <2> HIDE DEF G
  <2> QED BY <1>1, <1>3, SequenceInduction
<1> QED BY <1>4 DEF Right

\* Only twice is Only of what both sets have.
LEMMA OnlyBoth ==
  ASSUME NEW T, NEW A, NEW B
  PROVE  \A s \in Seq(T) : Only(Only(s, A), B) = Only(s, A \cap B)
<1> DEFINE Right(s) == Only(Only(s, A), B) = Only(s, A \cap B)
           G == {s \in Seq(T) : Right(s)}
<1>1. <<>> \in G
  BY OnlyEmpty
<1>2. ASSUME NEW s \in Seq(T), NEW e \in T, Right(s) PROVE Right(Append(s, e))
  <2>1. Only(s, A) \in Seq(T)
    BY OnlyHas
  <2>2. Only(Append(s, e), A) = IF e \in A THEN Append(Only(s, A), e) ELSE Only(s, A)
    BY OnlyAppend
  <2>3. Only(Append(Only(s, A), e), B) =
          IF e \in B THEN Append(Only(Only(s, A), B), e) ELSE Only(Only(s, A), B)
    BY <2>1, OnlyAppend
  <2>4. Only(Append(s, e), A \cap B) =
          IF e \in A \cap B THEN Append(Only(s, A \cap B), e) ELSE Only(s, A \cap B)
    BY OnlyAppend
  <2>5. CASE e \in A
    <3>1. Only(Only(Append(s, e), A), B) = Only(Append(Only(s, A), e), B)
      BY <2>2, <2>5
    <3>2. CASE e \in B
      <4>1. Only(Append(s, e), A \cap B) = Append(Only(s, A \cap B), e)
        BY <2>4, <2>5, <3>2
      <4>2. Only(Append(Only(s, A), e), B) = Append(Only(Only(s, A), B), e)
        BY <2>3, <3>2
      <4> QED BY <1>2, <3>1, <4>1, <4>2
    <3>3. CASE e \notin B
      BY <1>2, <2>3, <2>4, <3>1, <3>3
    <3> QED BY <3>2, <3>3
  <2>6. CASE e \notin A
    BY <1>2, <2>2, <2>4, <2>6
  <2> QED BY <2>5, <2>6
<1> HIDE DEF Right
<1>3. \A s \in Seq(T), e \in T : s \in G => Append(s, e) \in G
  BY <1>2, AppendHas
<1>4. \A s \in Seq(T) : s \in G
  <2> HIDE DEF G
  <2> QED BY <1>1, <1>3, SequenceInduction
<1> QED BY <1>4 DEF Right

LEMMA FrontAndLast ==
  ASSUME NEW T, NEW s \in Seq(T), Len(s) # 0
  PROVE  /\ SubSeq(s, 1, Len(s) - 1) \in Seq(T)
         /\ Append(SubSeq(s, 1, Len(s) - 1), s[Len(s)]) = s
<1> DEFINE n == Len(s) - 1
           f == SubSeq(s, 1, n)
<1>1. n \in Nat /\ Len(s) = n + 1
  BY LenProperties
<1>2. f \in Seq(T)
  BY <1>1
<1>3. Append(f, s[n + 1]) = s
  BY <1>1
<1> QED BY <1>1, <1>2, <1>3

LEMMA OneElement ==
  ASSUME NEW T, NEW s \in Seq(T), Len(s) = 1
  PROVE  s[1] \in T /\ s = <<s[1]>>
<1>1. s[1] \in T
  BY ElementOfSeq
<1>2. s = [i \in 1..1 |-> s[i]]
  OBVIOUS
<1>3. <<s[1]>> = [i \in 1..1 |-> s[1]]
  OBVIOUS
<1>4. [i \in 1..1 |-> s[i]] = [i \in 1..1 |-> s[1]]
  OBVIOUS
<1> QED BY <1>1, <1>2, <1>3, <1>4

LEMMA JoinAssociates ==
  ASSUME NEW T, NEW a \in Seq(T), NEW b \in Seq(T), NEW c \in Seq(T)
  PROVE  (a \o b) \o c = a \o (b \o c) /\ a \o b \in Seq(T)
OBVIOUS

LEMMA JoinHas ==
  ASSUME NEW T, NEW a \in Seq(T), NEW b \in Seq(T)
  PROVE  /\ a \o b \in Seq(T)
         /\ \A x : Has(a \o b, x) <=> Has(a, x) \/ Has(b, x)
         /\ Distinct(a \o b) => \A x : ~(Has(a, x) /\ Has(b, x))
<1> DEFINE j == a \o b
<1>1. /\ j \in Seq(T) /\ Len(j) = Len(a) + Len(b) /\ Len(a) \in Nat /\ Len(b) \in Nat
      /\ \A i \in 1..Len(a) : i \in 1..Len(j) /\ j[i] = a[i]
      /\ \A i \in 1..Len(b) : i + Len(a) \in 1..Len(j) /\ j[i + Len(a)] = b[i]
      /\ \A i \in 1..Len(j) : \/ i \in 1..Len(a) /\ j[i] = a[i]
                              \/ i - Len(a) \in 1..Len(b) /\ j[i] = b[i - Len(a)]
  OBVIOUS
<1> HIDE DEF j
<1>2. \A x : Has(j, x) <=> Has(a, x) \/ Has(b, x)
  BY <1>1 DEF Has
<1>3. ASSUME Distinct(j), NEW x, Has(a, x), Has(b, x) PROVE FALSE
  <2>1. PICK i \in 1..Len(a) : a[i] = x
    BY <1>3 DEF Has
  <2>2. PICK k \in 1..Len(b) : b[k] = x
    BY <1>3 DEF Has
  <2>3. i = k + Len(a)
    BY <1>1, <1>3, <2>1, <2>2 DEF Distinct
  <2> QED BY <1>1, <2>1, <2>2, <2>3
<1> QED BY <1>1, <1>2, <1>3 DEF j

\* Leaving out an element that is in a sequence once.
LEMMA OnlyWithoutOne ==
  ASSUME NEW T, NEW a \in Seq(T), NEW b \in Seq(T), NEW m \in T,
         Distinct((a \o <<m>>) \o b)
  PROVE  Only((a \o <<m>>) \o b, T \ {m}) = a \o b
<1> DEFINE one == <<m>>
           M == T \ {m}
<1>1. one \in Seq(T) /\ Has(one, m) /\ \A x : Has(one, x) => x \notin M
  BY DEF Has
<1>2. a \o one \in Seq(T) /\ Has(a \o one, m)
  BY <1>1, JoinHas
<1>3. ~Has(b, m)
  BY <1>2, JoinHas
<1>4. (a \o one) \o b = a \o (one \o b) /\ one \o b \in Seq(T) /\ Has(one \o b, m)
  <2> HIDE DEF one
  <2>1. (a \o one) \o b = a \o (one \o b)
    BY <1>1, JoinAssociates
  <2>2. one \o b \in Seq(T) /\ Has(one \o b, m)
    BY <1>1, JoinHas
  <2> QED BY <2>1, <2>2
<1>5. ~Has(a, m)
  <2> HIDE DEF one
  <2>1. Distinct(a \o (one \o b))
    BY <1>4 DEF one
  <2> QED BY <1>4, <2>1, JoinHas
<1>6. \A s \in Seq(T) : \A x : Has(s, x) => x \in T
  BY ElementOfSeq DEF Has
<1>11. a \o <<>> = a
  OBVIOUS
<1> HIDE DEF one
<1>7. Only(a, M) = a /\ Only(b, M) = b
  BY <1>3, <1>5, <1>6, OnlyAll
<1>8. Only(one, M) = <<>>
  BY <1>1, OnlyNone
<1>9. Only((a \o one) \o b, M) = Only(a \o one, M) \o Only(b, M)
  BY <1>2, OnlyJoin
<1>10. Only(a \o one, M) = Only(a, M) \o Only(one, M)
  BY <1>1, OnlyJoin
<1> QED BY <1>7, <1>8, <1>9, <1>10, <1>11 DEF one

-----------------------------------------------------------------------------
(***************************************************************************)
(* The invariant.                                                          *)
(***************************************************************************)

\* One task is under way, and nothing outside it is inside produce.
Alone ==
  /\ \A t, u \in active : t = u
  /\ \A t \in Tasks : taskPc[t] \notin {"handle", "end", "thrown"} => t \in active

\* The thread starts with the one instance, which is made while there is none.
Made ==
  /\ instances \in {0, 1}
  /\ instances = 0 => syncPc = "none"
  /\ \A t \in Tasks : taskPc[t] = "make" => instances = 0

\* A call is handled once, and the one being produced is the last one.
Ordered ==
  /\ Distinct(order)
  /\ \A i \in 1..Len(order) : taskPc[order[i]] # "handle"
  /\ \A t \in refused : taskPc[t] # "handle"
  /\ \A t \in Handled : order # <<>> /\ order[Len(order)] = t

LogInv == TypeOK /\ Alone /\ Made /\ Ordered /\ LogFollowsOrder

LEMMA LogInit == Init => LogInv
<1> SUFFICES ASSUME Init PROVE LogInv
  OBVIOUS
<1> USE DEF Init, Pool!ExecInit
<1>1. TypeOK
  BY DEF TypeOK, TaskPcs, SyncPcs
<1>2. Alone /\ Made
  BY DEF Alone, Made
<1>3. Ordered
  BY DEF Ordered, Distinct, Handled
<1>4. LogFollowsOrder
  <2>1. Unpushed = <<>> /\ Only(order, Tasks \ refused) = <<>>
    BY OnlyEmpty DEF Unpushed
  <2>2. topic \o sending \o produceQueue = <<>>
    OBVIOUS
  <2> QED BY <2>1, <2>2 DEF LogFollowsOrder
<1> QED BY <1>1, <1>2, <1>3, <1>4 DEF LogInv

\* What is being produced is the last call that was handled, or nothing.
LEMMA UnpushedForms ==
  ASSUME LogInv
  PROVE  /\ \A t \in Handled : Unpushed = <<t>>
         /\ Handled = {} => Unpushed = <<>>
         /\ Unpushed \in Seq(Tasks)
         /\ \A t, u \in Handled : t = u
<1>1. order \in Seq(Tasks) /\ Distinct(order)
  BY DEF LogInv, TypeOK, Ordered
<1>2. Unpushed \in Seq(Tasks)
  BY <1>1, OnlyHas DEF Unpushed
<1>3. \A t, u \in Handled : t = u
  BY DEF LogInv, Alone, Handled
<1>4. Handled = {} => Unpushed = <<>>
  <2> SUFFICES ASSUME Handled = {} PROVE Unpushed = <<>>
    OBVIOUS
  <2>1. \A x : Has(order, x) => x \notin Handled
    OBVIOUS
  <2> QED BY <1>1, <2>1, OnlyNone DEF Unpushed
<1>5. ASSUME NEW t \in Handled PROVE Unpushed = <<t>>
  <2>1. order # <<>> /\ order[Len(order)] = t /\ t \in Tasks
    BY DEF LogInv, Ordered, Handled
  <2> DEFINE n == Len(order) - 1
             f == SubSeq(order, 1, n)
  <2>2. Len(order) \in Nat /\ Len(order) # 0
    BY <1>1, <2>1, LenProperties, EmptySeq
  <2>3. f \in Seq(Tasks) /\ Append(f, t) = order
    BY <1>1, <2>1, <2>2, FrontAndLast
  <2> HIDE DEF f, n
  <2>a. f \in Seq(Tasks) /\ t \in Tasks
    BY <2>1, <2>3
  <2>4. ~Has(f, t)
    <3>1. Distinct(Append(f, t))
      BY <1>1, <2>3
    <3>2. Distinct(Append(f, t)) => ~Has(f, t)
      BY <2>a, AppendHas
    <3> QED BY <3>1, <3>2
  <2>5. \A x : Has(f, x) => x \notin Handled
    BY <1>3, <2>4
  <2>6. Only(f, Handled) = <<>>
    BY <2>3, <2>5, OnlyNone
  <2>7. Only(order, Handled) = Append(Only(f, Handled), t)
    <3>1. Only(Append(f, t), Handled) = IF t \in Handled THEN Append(Only(f, Handled), t) ELSE Only(f, Handled)
      BY <2>a, OnlyAppend
    <3> QED BY <2>3, <3>1
  <2> QED BY <2>6, <2>7 DEF Unpushed
<1> QED BY <1>2, <1>3, <1>4, <1>5

-----------------------------------------------------------------------------
(***************************************************************************)
(* The steps of the pool.                                                  *)
(***************************************************************************)
LEMMA SameLog ==
  ASSUME LogInv, Handled' = Handled, UNCHANGED <<topic, sending, produceQueue, order, refused>>,
         instances' \in {0, 1}
  PROVE  LogFollowsOrder'
<1>1. Unpushed' = Unpushed
  BY DEF Unpushed
<1>2. instances' <= 1
  OBVIOUS
<1>3. (topic \o sending \o produceQueue \o Unpushed)' = topic \o sending \o produceQueue \o Unpushed
  BY <1>1
<1>4. Only(order, Tasks \ refused)' = Only(order, Tasks \ refused)
  OBVIOUS
<1> QED BY <1>2, <1>3, <1>4 DEF LogInv, LogFollowsOrder

LEMMA SubmitKeeps ==
  ASSUME LogInv, NEW t, Pool!Submit(t), offset' \in 0..Len(topic),
         UNCHANGED <<taskPc, instances, produceQueue, syncVars, order, status>>
  PROVE  LogInv'
<1> USE DEF syncVars
<1>1. t \in Tasks /\ backlog' = Append(backlog, t) /\ UNCHANGED <<active, finished>>
  BY DEF Pool!Submit
<1>2. Handled' = Handled
  BY DEF Handled
<1>3. TypeOK'
  <2>1. backlog' \in Seq(Tasks)
    BY <1>1 DEF LogInv, TypeOK
  <2> QED BY <1>1, <2>1 DEF LogInv, TypeOK
<1>4. Alone' /\ Made'
  BY <1>1 DEF LogInv, Alone, Made
<1>5. Ordered'
  BY <1>2 DEF LogInv, Ordered
<1>6. LogFollowsOrder'
  BY <1>2, SameLog DEF LogInv, Made
<1> QED BY <1>3, <1>4, <1>5, <1>6 DEF LogInv

LEMMA StartKeeps == LogInv /\ StartTask => LogInv'
<1> SUFFICES ASSUME LogInv, StartTask PROVE LogInv'
  OBVIOUS
<1> USE DEF syncVars
<1>1. /\ backlog # <<>> /\ active = {} /\ active' = {Head(backlog)}
      /\ backlog' = Tail(backlog) /\ UNCHANGED finished
      /\ UNCHANGED <<taskPc, instances, produceQueue, syncVars, offset, order, status>>
  BY DEF StartTask, Pool!Start
<1>2. Handled' = Handled
  BY <1>1 DEF Handled
<1>3. TypeOK'
  <2>1. backlog' \in Seq(Tasks) /\ active' \subseteq Tasks
    BY <1>1, HeadTailProperties DEF LogInv, TypeOK
  <2> QED BY <1>1, <2>1 DEF LogInv, TypeOK
<1>4. Alone' /\ Made'
  BY <1>1 DEF LogInv, Alone, Made
<1>5. Ordered'
  BY <1>1, <1>2 DEF LogInv, Ordered
<1>6. LogFollowsOrder'
  BY <1>1, <1>2, SameLog DEF LogInv, Made
<1> QED BY <1>3, <1>4, <1>5, <1>6 DEF LogInv

LEMMA FinishKeeps == LogInv /\ FinishTask => LogInv'
<1> SUFFICES ASSUME LogInv, FinishTask PROVE LogInv'
  OBVIOUS
<1> USE DEF syncVars
<1>1. /\ \A t \in active : taskPc[t] \in {"end", "thrown"}
      /\ active' = {} /\ finished' = finished \cup active /\ UNCHANGED backlog
      /\ UNCHANGED <<taskPc, instances, produceQueue, syncVars, offset, order, status>>
  BY DEF FinishTask, Pool!Finish
<1>2. Handled' = Handled
  BY <1>1 DEF Handled
<1>3. TypeOK'
  BY <1>1 DEF LogInv, TypeOK
<1>4. Alone' /\ Made'
  BY <1>1 DEF LogInv, Alone, Made
<1>5. Ordered'
  BY <1>1, <1>2 DEF LogInv, Ordered
<1>6. LogFollowsOrder'
  BY <1>1, <1>2, SameLog DEF LogInv, Made
<1> QED BY <1>3, <1>4, <1>5, <1>6 DEF LogInv

-----------------------------------------------------------------------------
(***************************************************************************)
(* The steps of a task.                                                    *)
(***************************************************************************)

\* What every step of a task does: it is the one under way, and only its place
\* changes.
LEMMA TaskStepFacts ==
  ASSUME LogInv, NEW t \in Tasks, NEW from, NEW to \in TaskPcs, TaskStep(t, from, to),
         UNCHANGED poolVars, to # "handle"
  PROVE  /\ taskPc[t] = from /\ taskPc'[t] = to /\ taskPc' \in [Tasks -> TaskPcs]
         /\ \A u \in Tasks : u # t => taskPc'[u] = taskPc[u] /\ taskPc[u] \in {"handle", "end", "thrown"}
         /\ Alone'
         /\ \A u \in Tasks : taskPc'[u] = "handle" => taskPc[u] = "handle"
<1> USE DEF TaskStep
<1>1. taskPc[t] = from /\ taskPc'[t] = to /\ taskPc' \in [Tasks -> TaskPcs]
      /\ \A u \in Tasks : u # t => taskPc'[u] = taskPc[u]
  BY DEF LogInv, TypeOK
<1>2. \A u \in Tasks : u # t => taskPc[u] \in {"handle", "end", "thrown"}
  BY DEF LogInv, Alone
<1>3. Alone'
  BY <1>1 DEF LogInv, Alone, poolVars
<1> QED BY <1>1, <1>2, <1>3

LEMMA HandleKeeps ==
  ASSUME LogInv, NEW t \in Tasks, HandleRPC(t)
  PROVE  LogInv'
<1>1. UNCHANGED <<poolVars, instances, produceQueue, syncVars, offset, status>>
  BY DEF HandleRPC
<1>2. ASSUME NEW to \in {"end", "thrown"}, TaskStep(t, "handle", to), UNCHANGED order
      PROVE  LogInv'
  <2>1. /\ taskPc[t] = "handle" /\ taskPc'[t] = to /\ taskPc' \in [Tasks -> TaskPcs]
        /\ \A u \in Tasks : u # t => taskPc'[u] = taskPc[u] /\ taskPc[u] \in {"handle", "end", "thrown"}
        /\ Alone'
        /\ \A u \in Tasks : taskPc'[u] = "handle" => taskPc[u] = "handle"
    BY <1>1, <1>2, TaskStepFacts DEF TaskPcs
  <2>2. Handled' = Handled
    BY <2>1 DEF Handled
  <2>3. TypeOK'
    BY <1>1, <1>2, <2>1 DEF LogInv, TypeOK, poolVars, syncVars
  <2>4. Made'
    BY <1>1, <2>1 DEF LogInv, Made, syncVars
  <2>5. Ordered'
    <3>1. \A i \in 1..Len(order) : order[i] \in Tasks
      BY ElementOfSeq DEF LogInv, TypeOK
    <3>2. refused \subseteq Tasks
      BY DEF LogInv, TypeOK
    <3> QED BY <1>1, <1>2, <2>1, <2>2, <3>1, <3>2 DEF LogInv, Ordered, syncVars
  <2>6. LogFollowsOrder'
    BY <1>1, <1>2, <2>2, SameLog DEF LogInv, Made, syncVars
  <2> QED BY <2>1, <2>3, <2>4, <2>5, <2>6 DEF LogInv
<1>3. CASE TaskStep(t, "handle", "instance") /\ order' = Append(order, t)
  <2>1. /\ taskPc[t] = "handle" /\ taskPc'[t] = "instance" /\ taskPc' \in [Tasks -> TaskPcs]
        /\ \A u \in Tasks : u # t => taskPc'[u] = taskPc[u] /\ taskPc[u] \in {"handle", "end", "thrown"}
        /\ Alone'
        /\ \A u \in Tasks : taskPc'[u] = "handle" => taskPc[u] = "handle"
    BY <1>1, <1>3, TaskStepFacts DEF TaskPcs
  <2>2. Handled = {} /\ Handled' = {t}
    BY <2>1 DEF Handled
  <2>3. order \in Seq(Tasks)
    BY DEF LogInv, TypeOK
  <2>4. /\ order' \in Seq(Tasks) /\ Len(order') = Len(order) + 1 /\ Len(order) \in Nat
        /\ \A i \in 1..Len(order) : order'[i] = order[i]
        /\ order'[Len(order')] = t
    BY <1>3, <2>3, AppendProperties, LenProperties
  <2>5. TypeOK'
    BY <1>1, <2>1, <2>4 DEF LogInv, TypeOK, poolVars, syncVars
  <2>6. Made'
    BY <1>1, <2>1 DEF LogInv, Made, syncVars
  <2>7. ~Has(order, t) /\ t \notin refused
    BY <2>1 DEF LogInv, Ordered, Has
  <2>8. Ordered'
    <3>1. Distinct(order')
      BY <1>3, <2>3, <2>7, AppendHas DEF LogInv, Ordered
    <3>2. \A i \in 1..Len(order') : taskPc'[order'[i]] # "handle"
      <4> SUFFICES ASSUME NEW i \in 1..Len(order') PROVE taskPc'[order'[i]] # "handle"
        OBVIOUS
      <4>1. CASE i = Len(order')
        BY <2>1, <2>4, <4>1
      <4>2. CASE i # Len(order')
        <5>1. i \in 1..Len(order) /\ order'[i] = order[i] /\ order[i] \in Tasks
          BY <2>3, <2>4, <4>2, ElementOfSeq
        <5> QED BY <2>1, <5>1 DEF LogInv, Ordered
      <4> QED BY <4>1, <4>2
    <3>3. \A u \in refused' : taskPc'[u] # "handle"
      BY <1>1, <2>1 DEF LogInv, Ordered, TypeOK, syncVars
    <3>4. order' # <<>>
      BY <2>4, EmptySeq
    <3> QED BY <2>2, <2>4, <3>1, <3>2, <3>3, <3>4 DEF Ordered
  <2>9. LogFollowsOrder'
    <3>1. Unpushed = <<>>
      BY <2>2, UnpushedForms
    <3>2. Unpushed' = <<t>>
      <4>1. Only(order, {t}) = <<>>
        BY <2>3, <2>7, OnlyNone
      <4>2. Only(Append(order, t), {t}) = Append(Only(order, {t}), t)
        BY <2>3, OnlyAppend
      <4>3. Append(<<>>, t) = <<t>>
        OBVIOUS
      <4> QED BY <1>3, <2>2, <4>1, <4>2, <4>3 DEF Unpushed
    <3> DEFINE log == topic \o sending \o produceQueue
    <3>3. log \in Seq(Tasks)
      BY JoinHas DEF LogInv, TypeOK
    <3>4. log' = log
      BY <1>1 DEF syncVars
    <3>5. log \o <<>> = Only(order, Tasks \ refused)
      BY <3>1 DEF LogInv, LogFollowsOrder
    <3>6. Only(Append(order, t), Tasks \ refused) = Append(Only(order, Tasks \ refused), t)
      BY <2>3, <2>7, OnlyAppend
    <3>7. log' \o Unpushed' = Only(order', Tasks \ refused')
      <4>1. refused' = refused
        BY <1>1 DEF syncVars
      <4>2. log \o <<>> = log /\ log \o <<t>> = Append(log, t)
        <5> HIDE DEF log
        <5> QED BY <3>3
      <4> HIDE DEF log
      <4> QED BY <1>3, <3>2, <3>4, <3>5, <3>6, <4>1, <4>2
    <3>8. instances' <= 1
      BY <1>1 DEF LogInv, Made
    <3> QED BY <3>7, <3>8 DEF LogFollowsOrder
  <2> QED BY <2>1, <2>5, <2>6, <2>8, <2>9 DEF LogInv
<1> QED BY <1>2, <1>3 DEF HandleRPC

\* Steps that leave the task where it was for the log.
LEMMA PlaceKeeps ==
  ASSUME LogInv, NEW t \in Tasks, NEW from, NEW to \in TaskPcs, TaskStep(t, from, to),
         UNCHANGED <<poolVars, produceQueue, sending, topic, refused, offset, order, status>>,
         from # "handle", to # "handle",
         from \in {"instance", "make", "push"} <=> to \in {"instance", "make", "push"},
         instances' \in {0, 1}, syncPc' \in SyncPcs, syncPc' = "send" <=> syncPc = "send",
         instances' = 0 => syncPc' = "none",
         to = "make" => instances' = 0
  PROVE  LogInv'
<1>1. /\ taskPc[t] = from /\ taskPc'[t] = to /\ taskPc' \in [Tasks -> TaskPcs]
      /\ \A u \in Tasks : u # t => taskPc'[u] = taskPc[u] /\ taskPc[u] \in {"handle", "end", "thrown"}
      /\ Alone'
      /\ \A u \in Tasks : taskPc'[u] = "handle" => taskPc[u] = "handle"
  BY TaskStepFacts
<1>2. Handled' = Handled
  BY <1>1 DEF Handled
<1>3. TypeOK'
  BY <1>1 DEF LogInv, TypeOK, poolVars
<1>4. Made'
  BY <1>1 DEF Made
<1>5. Ordered'
  <2>1. \A i \in 1..Len(order) : order[i] \in Tasks
    BY ElementOfSeq DEF LogInv, TypeOK
  <2>2. refused \subseteq Tasks
    BY DEF LogInv, TypeOK
  <2> QED BY <1>1, <1>2, <2>1, <2>2 DEF LogInv, Ordered
<1>6. LogFollowsOrder'
  BY <1>2, SameLog
<1> QED BY <1>1, <1>3, <1>4, <1>5, <1>6 DEF LogInv

LEMMA GetInstanceKeeps ==
  ASSUME LogInv, NEW t \in Tasks, GetInstance(t)
  PROVE  LogInv'
<1> DEFINE to == IF instances = 0 THEN "make" ELSE "push"
<1>1. TaskStep(t, "instance", to)
      /\ UNCHANGED <<poolVars, instances, produceQueue, syncVars, offset, order, status>>
  BY DEF GetInstance
<1>2. to \in TaskPcs /\ to # "handle" /\ to \in {"instance", "make", "push"}
      /\ (to = "make" => instances = 0)
  BY DEF TaskPcs
<1> HIDE DEF to
<1> QED BY <1>1, <1>2, PlaceKeeps DEF syncVars, LogInv, Made, TypeOK

\* The task that makes the instance is the only one there, so that there was none.
LEMMA MakeInstanceKeeps ==
  ASSUME LogInv, NEW t \in Tasks, MakeInstance(t)
  PROVE  LogInv'
<1>1. /\ TaskStep(t, "make", "push") /\ instances' = instances + 1 /\ syncPc' = "lock"
      /\ UNCHANGED <<poolVars, produceQueue, sending, topic, refused, offset, order, status>>
  BY DEF MakeInstance
<1>2. instances = 0 /\ syncPc = "none"
  BY <1>1 DEF TaskStep, LogInv, Made
<1> QED BY <1>1, <1>2, PlaceKeeps DEF TaskPcs, SyncPcs

LEMMA NotifyKeeps ==
  ASSUME LogInv, NEW t \in Tasks, Notify(t)
  PROVE  LogInv'
<1>1. /\ TaskStep(t, "notify", "end")
      /\ syncPc' = IF syncPc = "waiting" THEN "woken" ELSE syncPc
      /\ UNCHANGED <<poolVars, instances, produceQueue, sending, topic, refused, offset, order, status>>
  BY DEF Notify
<1>2. syncPc' \in SyncPcs /\ (syncPc' = "send" <=> syncPc = "send")
      /\ instances' \in {0, 1} /\ (instances' = 0 => syncPc' = "none")
  BY <1>1 DEF LogInv, Made, TypeOK, SyncPcs
<1> QED BY <1>1, <1>2, PlaceKeeps DEF TaskPcs

LEMMA PushKeeps ==
  ASSUME LogInv, NEW t \in Tasks, Push(t)
  PROVE  LogInv'
<1>1. /\ TaskStep(t, "push", "notify") /\ produceQueue' = Append(produceQueue, t)
      /\ UNCHANGED <<poolVars, instances, syncVars, offset, order, status>>
  BY DEF Push
<1>2. /\ taskPc[t] = "push" /\ taskPc'[t] = "notify" /\ taskPc' \in [Tasks -> TaskPcs]
      /\ \A u \in Tasks : u # t => taskPc'[u] = taskPc[u] /\ taskPc[u] \in {"handle", "end", "thrown"}
      /\ Alone'
      /\ \A u \in Tasks : taskPc'[u] = "handle" => taskPc[u] = "handle"
  BY <1>1, TaskStepFacts DEF TaskPcs
<1>3. t \in Handled /\ Handled' = {}
  BY <1>2 DEF Handled
<1>4. TypeOK'
  <2>1. produceQueue' \in Seq(Tasks)
    BY <1>1 DEF LogInv, TypeOK
  <2> QED BY <1>1, <1>2, <2>1 DEF LogInv, TypeOK, poolVars, syncVars
<1>5. Made'
  BY <1>1, <1>2 DEF LogInv, Made, syncVars
<1>6. Ordered'
  <2>1. \A i \in 1..Len(order) : order[i] \in Tasks
    BY ElementOfSeq DEF LogInv, TypeOK
  <2>2. refused \subseteq Tasks
    BY DEF LogInv, TypeOK
  <2> QED BY <1>1, <1>2, <1>3, <2>1, <2>2 DEF LogInv, Ordered, syncVars
<1>7. LogFollowsOrder'
  <2> DEFINE sent == topic \o sending
  <2>1. sent \in Seq(Tasks) /\ produceQueue \in Seq(Tasks)
    BY JoinHas DEF LogInv, TypeOK
  <2>2. Unpushed = <<t>>
    BY <1>3, UnpushedForms
  <2>3. Unpushed' = <<>>
    <3>1. order \in Seq(Tasks) /\ order' = order
      BY <1>1 DEF LogInv, TypeOK
    <3>2. Only(order, {}) = <<>>
      BY <3>1, OnlyNone
    <3> QED BY <1>3, <3>1, <3>2 DEF Unpushed
  <2>4. sent' = sent /\ refused' = refused
    BY <1>1 DEF syncVars
  <2>5. (sent \o produceQueue) \o <<t>> = (sent \o Append(produceQueue, t)) \o <<>>
    <3> HIDE DEF sent
    <3>1. sent \o Append(produceQueue, t) = Append(sent \o produceQueue, t)
          /\ sent \o produceQueue \in Seq(Tasks)
      BY <2>1, JoinAppend
    <3> DEFINE all == sent \o produceQueue
    <3>2. all \o <<t>> = Append(all, t) /\ Append(all, t) \o <<>> = Append(all, t)
      <4>1. all \in Seq(Tasks)
        BY <3>1
      <4> HIDE DEF all
      <4> QED BY <4>1
    <3> QED BY <3>1, <3>2
  <2>6. (sent \o produceQueue) \o Unpushed = Only(order, Tasks \ refused)
    BY DEF LogInv, LogFollowsOrder
  <2>7. (sent' \o produceQueue') \o Unpushed' = Only(order', Tasks \ refused')
    <3> HIDE DEF sent
    <3> QED BY <1>1, <2>2, <2>3, <2>4, <2>5, <2>6
  <2>8. instances' <= 1
    BY <1>1 DEF LogInv, Made
  <2> QED BY <2>7, <2>8 DEF LogFollowsOrder
<1> QED BY <1>2, <1>4, <1>5, <1>6, <1>7 DEF LogInv

-----------------------------------------------------------------------------
(***************************************************************************)
(* The steps of syncThread.                                                *)
(***************************************************************************)
LEMMA SyncFrame ==
  ASSUME LogInv, UNCHANGED <<poolVars, taskPc, instances, order>>,
         syncPc # "none", refused' \subseteq refused \cup {t \in Tasks : taskPc[t] # "handle"}
  PROVE  Alone' /\ Made' /\ Ordered' /\ Handled' = Handled /\ Unpushed' = Unpushed /\ instances' <= 1
<1>1. Alone' /\ Made' /\ instances' <= 1
  BY DEF LogInv, Alone, Made, poolVars
<1>2. Handled' = Handled
  BY DEF Handled
<1>3. Ordered'
  BY <1>2 DEF LogInv, Ordered
<1>4. Unpushed' = Unpushed
  BY <1>2 DEF Unpushed
<1> QED BY <1>1, <1>2, <1>3, <1>4

LEMMA SyncQuietKeeps ==
  ASSUME LogInv, SyncLock \/ SyncCheck \/ SyncSleep \/ SpuriousWakeup \/ SyncReacquire
  PROVE  LogInv'
<1>1. /\ UNCHANGED <<poolVars, taskPc, instances, produceQueue, sending, topic, refused, offset, order, status>>
      /\ syncPc # "none" /\ syncPc # "send" /\ syncPc' \in SyncPcs /\ syncPc' # "send"
  BY DEF SyncLock, SyncCheck, SyncSleep, SpuriousWakeup, SyncReacquire, SyncStep, SyncPcs
<1>2. Alone' /\ Made' /\ Ordered' /\ Handled' = Handled
  BY <1>1, SyncFrame
<1>3. TypeOK'
  BY <1>1 DEF LogInv, TypeOK, poolVars
<1>4. LogFollowsOrder'
  BY <1>1, <1>2, SameLog DEF LogInv, Made
<1> QED BY <1>2, <1>3, <1>4 DEF LogInv

LEMMA SyncPopKeeps == LogInv /\ SyncPop => LogInv'
<1> SUFFICES ASSUME LogInv, SyncPop PROVE LogInv'
  OBVIOUS
<1>1. /\ UNCHANGED <<poolVars, taskPc, instances, topic, refused, offset, order, status>>
      /\ syncPc = "pop" /\ syncPc' \in SyncPcs
      /\ \/ /\ produceQueue # <<>> /\ syncPc' = "send"
            /\ sending' = <<Head(produceQueue)>> /\ produceQueue' = Tail(produceQueue)
         \/ syncPc' = "lock" /\ UNCHANGED <<sending, produceQueue>>
  BY DEF SyncPop, SyncStep, SyncPcs
<1>2. Alone' /\ Made' /\ Ordered' /\ Handled' = Handled /\ Unpushed' = Unpushed /\ instances' <= 1
  BY <1>1, SyncFrame
<1>3. sending \in Seq(Tasks) /\ Len(sending) = 0 /\ topic \in Seq(Tasks) /\ produceQueue \in Seq(Tasks)
  BY <1>1 DEF LogInv, TypeOK
<1>4. sending = <<>>
  BY <1>3, EmptySeq
<1>5. CASE UNCHANGED <<sending, produceQueue>> /\ syncPc' = "lock"
  <2>1. TypeOK'
    BY <1>1, <1>3, <1>5 DEF LogInv, TypeOK, poolVars
  <2>2. LogFollowsOrder'
    BY <1>1, <1>2, <1>5, SameLog DEF LogInv, Made
  <2> QED BY <1>2, <2>1, <2>2 DEF LogInv
<1>6. CASE /\ produceQueue # <<>> /\ syncPc' = "send"
           /\ sending' = <<Head(produceQueue)>> /\ produceQueue' = Tail(produceQueue)
  <2>1. Head(produceQueue) \in Tasks /\ Tail(produceQueue) \in Seq(Tasks)
    BY <1>3, <1>6, HeadTailProperties
  <2>2. sending' \in Seq(Tasks) /\ Len(sending') = 1 /\ produceQueue' \in Seq(Tasks)
    BY <1>6, <2>1
  <2>3. TypeOK'
    BY <1>1, <1>6, <2>2 DEF LogInv, TypeOK, poolVars
  <2>4. (topic \o sending') \o produceQueue' = (topic \o sending) \o produceQueue
    <3>1. <<Head(produceQueue)>> \o Tail(produceQueue) = produceQueue
      BY <1>3, <1>6
    <3>2. (topic \o sending') \o produceQueue' = topic \o (sending' \o produceQueue')
      BY <1>3, <2>2, JoinAssociates
    <3>3. (topic \o sending) \o produceQueue = topic \o produceQueue
      BY <1>3, <1>4
    <3> QED BY <1>6, <3>1, <3>2, <3>3
  <2>5. LogFollowsOrder'
    BY <1>1, <1>2, <2>4 DEF LogInv, LogFollowsOrder
  <2> QED BY <1>2, <2>3, <2>5 DEF LogInv
<1> QED BY <1>1, <1>5, <1>6

LEMMA SyncSendKeeps == LogInv /\ SyncSend => LogInv'
<1> SUFFICES ASSUME LogInv, SyncSend PROVE LogInv'
  OBVIOUS
<1>1. /\ UNCHANGED <<poolVars, taskPc, instances, produceQueue, offset, order, status>>
      /\ syncPc = "send" /\ syncPc' = "lock" /\ sending' = <<>>
      /\ \/ topic' = topic \o sending /\ UNCHANGED refused
         \/ refused' = refused \cup ToSet(sending) /\ UNCHANGED topic
  BY DEF SyncSend, SyncStep
<1>2. /\ sending \in Seq(Tasks) /\ Len(sending) = 1 /\ topic \in Seq(Tasks)
      /\ produceQueue \in Seq(Tasks) /\ Unpushed \in Seq(Tasks) /\ order \in Seq(Tasks)
  BY <1>1, UnpushedForms DEF LogInv, TypeOK
<1>3. PICK m \in Tasks : sending = <<m>>
  <2>1. sending[1] \in Tasks /\ sending = <<sending[1]>>
    BY <1>2, OneElement
  <2> QED BY <2>1
<1> DEFINE rest == produceQueue \o Unpushed
<1>4. rest \in Seq(Tasks) /\ topic \o sending \in Seq(Tasks)
  BY <1>2, JoinHas
<1>5. ((topic \o sending) \o produceQueue) \o Unpushed = (topic \o sending) \o rest
  <2> DEFINE sent == topic \o sending
  <2>1. sent \in Seq(Tasks)
    BY <1>4
  <2> HIDE DEF sent
  <2>2. (sent \o produceQueue) \o Unpushed = sent \o (produceQueue \o Unpushed)
    BY <1>2, <2>1, JoinAssociates
  <2> QED BY <2>2 DEF sent
<1>6. (topic \o sending) \o rest = Only(order, Tasks \ refused)
  BY <1>5 DEF LogInv, LogFollowsOrder
<1>7. Has(order, m)
  <2>1. Has(sending, m)
    BY <1>3 DEF Has
  <2>2. Has(topic \o sending, m)
    BY <1>2, <2>1, JoinHas
  <2>3. Has((topic \o sending) \o rest, m)
    BY <1>4, <2>2, JoinHas
  <2>4. Has(Only(order, Tasks \ refused), m)
    BY <1>6, <2>3
  <2> QED BY <1>2, <2>4, OnlyHas
<1>8. taskPc[m] # "handle"
  BY <1>7 DEF Has, LogInv, Ordered
<1>9. ToSet(sending) = {m}
  BY <1>3 DEF ToSet
<1>10. Alone' /\ Made' /\ Ordered' /\ Handled' = Handled /\ Unpushed' = Unpushed /\ instances' <= 1
  BY <1>1, <1>8, <1>9, SyncFrame
<1>13. sending' \in Seq(Tasks) /\ Len(sending') = 0 /\ syncPc' \in SyncPcs /\ syncPc' # "send"
  BY <1>1 DEF SyncPcs
<1>11. CASE topic' = topic \o sending /\ UNCHANGED refused
  <2>1. offset \in 0..Len(topic')
    <3>1. Len(topic') = Len(topic) + 1 /\ Len(topic) \in Nat
      <4>1. Len(topic) \in Nat /\ Len(topic \o sending) = Len(topic) + Len(sending)
        BY <1>2, LenProperties, ConcatProperties
      <4> QED BY <1>2, <1>11, <4>1
    <3>2. offset \in 0..Len(topic)
      BY DEF LogInv, TypeOK
    <3> QED BY <3>1, <3>2
  <2>2. TypeOK'
    BY <1>1, <1>4, <1>11, <1>13, <2>1 DEF LogInv, TypeOK, poolVars
  <2>3. topic' \o sending' = topic \o sending
    BY <1>1, <1>2, <1>11
  <2>4. LogFollowsOrder'
    BY <1>1, <1>10, <1>11, <2>3 DEF LogInv, LogFollowsOrder
  <2> QED BY <1>10, <2>2, <2>4 DEF LogInv
<1>12. CASE refused' = refused \cup ToSet(sending) /\ UNCHANGED topic
  <2>1. refused' = refused \cup {m}
    BY <1>9, <1>12
  <2>2. TypeOK'
    BY <1>1, <1>12, <1>13, <2>1 DEF LogInv, TypeOK, poolVars
  <2>3. Distinct((topic \o <<m>>) \o rest)
    <3>1. Distinct(Only(order, Tasks \ refused))
      BY <1>2, OnlyHas DEF LogInv, Ordered
    <3> QED BY <1>3, <1>6, <3>1
  <2>4. Only((topic \o <<m>>) \o rest, Tasks \ {m}) = topic \o rest
    <3>1. \A a, b \in Seq(Tasks) :
            Distinct((a \o <<m>>) \o b) => Only((a \o <<m>>) \o b, Tasks \ {m}) = a \o b
      BY OnlyWithoutOne
    <3> HIDE DEF rest
    <3> QED BY <1>2, <1>4, <2>3, <3>1
  <2>5. Only(Only(order, Tasks \ refused), Tasks \ {m}) = Only(order, Tasks \ refused')
    <3>1. (Tasks \ refused) \cap (Tasks \ {m}) = Tasks \ refused'
      BY <2>1
    <3> QED BY <1>2, <3>1, OnlyBoth
  <2>6. topic \o rest = Only(order, Tasks \ refused')
    BY <1>3, <1>6, <2>4, <2>5
  <2>7. ((topic \o <<>>) \o produceQueue) \o Unpushed = topic \o rest
    <3>1. topic \o <<>> = topic
      BY <1>2
    <3>2. (topic \o produceQueue) \o Unpushed = topic \o rest
      BY <1>2, JoinAssociates
    <3> QED BY <3>1, <3>2
  <2>8. LogFollowsOrder'
    <3>1. topic' = topic /\ sending' = <<>> /\ produceQueue' = produceQueue /\ order' = order
      BY <1>1, <1>12
    <3> QED BY <1>10, <2>6, <2>7, <3>1 DEF LogFollowsOrder
  <2> QED BY <1>10, <2>2, <2>8 DEF LogInv
<1> QED BY <1>1, <1>11, <1>12

-----------------------------------------------------------------------------
(***************************************************************************)
(* The theorems.                                                           *)
(***************************************************************************)
LEMMA LogStep == LogInv /\ [Next]_vars => LogInv'
<1> SUFFICES ASSUME LogInv, [Next]_vars PROVE LogInv'
  OBVIOUS
<1>1. ASSUME NEW r \in Requests, Receive(r) PROVE LogInv'
  <2>1. Pool!Submit(<<r, "call">>) /\ UNCHANGED <<taskPc, instances, produceQueue, syncVars, offset, order, status>>
    BY <1>1 DEF Receive
  <2> QED BY <2>1, SubmitKeeps DEF LogInv, TypeOK
<1>2. CASE Replay
  <2>1. /\ Pool!Submit(<<topic[offset + 1][1], "replay">>)
        /\ offset < Len(topic) /\ offset' = offset + 1
        /\ UNCHANGED <<taskPc, instances, produceQueue, syncVars, order, status>>
    BY <1>2 DEF Replay
  <2>2. offset' \in 0..Len(topic)
    BY <2>1, LenProperties DEF LogInv, TypeOK
  <2> QED BY <2>1, <2>2, SubmitKeeps
<1>3. ASSUME NEW t \in Tasks, Produce(t) PROVE LogInv'
  BY <1>3, HandleKeeps, GetInstanceKeeps, MakeInstanceKeeps, PushKeeps, NotifyKeeps DEF Produce
<1>4. CASE SyncThread \/ SpuriousWakeup
  BY <1>4, SyncQuietKeeps, SyncPopKeeps, SyncSendKeeps DEF SyncThread
<1>5. CASE GetThrows \/ UNCHANGED vars
  <2> USE DEF poolVars, syncVars
  <2>0. /\ UNCHANGED <<poolVars, taskPc, instances, produceQueue, syncVars, offset, order>>
        /\ status' = status \/ status' = "terminated"
    BY <1>5 DEF GetThrows, vars
  <2> USE <2>0
  <2>1. Handled' = Handled
    BY DEF Handled
  <2>2. TypeOK'
    BY DEF LogInv, TypeOK
  <2>3. Alone' /\ Made'
    BY DEF LogInv, Alone, Made
  <2>4. Ordered'
    BY <2>1 DEF LogInv, Ordered
  <2>5. LogFollowsOrder'
    BY <2>1, SameLog DEF LogInv, Made
  <2> QED BY <2>2, <2>3, <2>4, <2>5 DEF LogInv
<1> QED BY <1>1, <1>2, <1>3, <1>4, <1>5, StartKeeps, FinishKeeps DEF Next

LEMMA LogAlways == Spec => []LogInv
BY LogInit, LogStep, PTL DEF Spec

\* The state stays in its sets; in particular one message at a time is on its way
\* from the queue to librdkafka.
THEOREM ProducerTypes == Spec => []TypeOK
BY LogAlways, PTL DEF LogInv

\* The log is the order in which the service executed the calls, each once and
\* without replays, less what librdkafka refused, however far each has got; and
\* there is one producer, although instance() takes no lock.
THEOREM LogIsOrder == Spec => []LogFollowsOrder
BY LogAlways, PTL DEF LogInv

-----------------------------------------------------------------------------
(***************************************************************************)
(* No notification is lost: the safety part of EveryCallLogged.            *)
(***************************************************************************)

\* The thread runs from when the instance is there, which is before any push.
Started ==
  /\ syncPc = "none" => instances = 0
  /\ instances = 0 => produceQueue = <<>>
  /\ \A t \in Tasks : taskPc[t] \in {"push", "notify"} => instances # 0

\* While the thread sleeps, or is about to, one who pushed has yet to notify.
Notified ==
  produceQueue # <<>> /\ syncPc \in {"sleep", "waiting"} => \E t \in active : taskPc[t] = "notify"

LEMMA StartedStep ==
  ASSUME LogInv, Started, [Next]_vars
  PROVE  Started'
<1> USE DEF Started, syncVars, poolVars
<1>0. /\ taskPc \in [Tasks -> TaskPcs] /\ instances \in {0, 1} /\ (instances = 0 => syncPc = "none")
      /\ produceQueue \in Seq(Tasks)
  BY DEF LogInv, TypeOK, Made
<1>1. ASSUME UNCHANGED <<taskPc, instances, produceQueue, syncPc>> PROVE Started'
  BY <1>1
<1>2. ASSUME NEW t \in Tasks, HandleRPC(t) \/ GetInstance(t) PROVE Started'
  <2>1. /\ UNCHANGED <<instances, produceQueue, syncPc>>
        /\ \A u \in Tasks : taskPc'[u] \in {"push", "notify"} => taskPc[u] \in {"push", "notify"} \/ instances # 0
    BY <1>0, <1>2 DEF HandleRPC, GetInstance, TaskStep
  <2> QED BY <2>1
<1>3. ASSUME NEW t \in Tasks, MakeInstance(t) PROVE Started'
  BY <1>0, <1>3 DEF MakeInstance, TaskStep
<1>4. ASSUME NEW t \in Tasks, Push(t) PROVE Started'
  BY <1>0, <1>4 DEF Push, TaskStep
<1>5. ASSUME NEW t \in Tasks, Notify(t) PROVE Started'
  BY <1>0, <1>5 DEF Notify, TaskStep
<1>6. CASE SyncThread \/ SpuriousWakeup
  <2>1. syncPc # "none" /\ syncPc' # "none" /\ UNCHANGED <<taskPc, instances>>
        /\ (produceQueue = <<>> => produceQueue' = <<>>)
    BY <1>6 DEF SyncThread, SpuriousWakeup, SyncLock, SyncCheck, SyncSleep, SyncReacquire, SyncPop, SyncSend,
                SyncStep
  <2> QED BY <2>1
<1>7. CASE (\E r \in Requests : Receive(r)) \/ StartTask \/ FinishTask \/ Replay \/ GetThrows \/ UNCHANGED vars
  BY <1>1, <1>7 DEF Receive, StartTask, FinishTask, Replay, GetThrows, vars
<1> QED BY <1>2, <1>3, <1>4, <1>5, <1>6, <1>7 DEF Next, Produce

LEMMA NotifiedStep ==
  ASSUME LogInv, Notified, [Next]_vars
  PROVE  Notified'
<1> SUFFICES ASSUME produceQueue' # <<>>, syncPc' \in {"sleep", "waiting"}
             PROVE  \E t \in active' : taskPc'[t] = "notify"
  BY DEF Notified
<1> USE DEF syncVars, poolVars
<1>0. taskPc \in [Tasks -> TaskPcs] /\ active \subseteq Tasks
  BY DEF LogInv, TypeOK
\* One step of another kind leaves the one who has to notify where it stands.
<1>1. ASSUME produceQueue' = produceQueue, syncPc' = syncPc, active \subseteq active',
             \A u \in active : taskPc[u] = "notify" => taskPc'[u] = "notify"
      PROVE  \E t \in active' : taskPc'[t] = "notify"
  BY <1>1 DEF Notified
<1>2. ASSUME NEW t \in Tasks, HandleRPC(t) \/ GetInstance(t) PROVE \E u \in active' : taskPc'[u] = "notify"
  <2>1. \A u \in active : taskPc[u] = "notify" => taskPc'[u] = "notify"
    BY <1>0, <1>2 DEF HandleRPC, GetInstance, TaskStep
  <2>2. UNCHANGED <<produceQueue, syncPc, active>>
    BY <1>2 DEF HandleRPC, GetInstance
  <2> QED BY <1>1, <2>1, <2>2
<1>3. ASSUME NEW t \in Tasks, Push(t) PROVE \E u \in active' : taskPc'[u] = "notify"
  BY <1>0, <1>3 DEF Push, TaskStep
<1>4. ASSUME NEW t \in Tasks, MakeInstance(t) \/ Notify(t) PROVE FALSE
  <2>1. syncPc' \notin {"sleep", "waiting"}
    BY <1>4 DEF MakeInstance, Notify, SyncOwns
  <2> QED BY <2>1
<1>5. CASE SyncThread \/ SpuriousWakeup
  <2>1. syncPc = "sleep" /\ syncPc' = "waiting" /\ UNCHANGED <<produceQueue, taskPc, active>>
    BY <1>5 DEF SyncThread, SpuriousWakeup, SyncLock, SyncCheck, SyncSleep, SyncReacquire, SyncPop, SyncSend,
                SyncStep
  <2> QED BY <2>1 DEF Notified
<1>6. CASE StartTask
  <2>1. active = {} /\ produceQueue' = produceQueue /\ syncPc' = syncPc
    BY <1>6 DEF StartTask, Pool!Start
  <2> QED BY <2>1 DEF Notified
<1>7. CASE FinishTask
  <2>1. \A u \in active : taskPc[u] # "notify"
    BY <1>7 DEF FinishTask
  <2>2. produceQueue' = produceQueue /\ syncPc' = syncPc
    BY <1>7 DEF FinishTask
  <2> QED BY <2>1, <2>2 DEF Notified
<1>8. CASE (\E r \in Requests : Receive(r)) \/ Replay \/ GetThrows \/ UNCHANGED vars
  <2>1. UNCHANGED <<produceQueue, syncPc, active, taskPc>>
    BY <1>8 DEF Receive, Replay, GetThrows, vars, Pool!Submit
  <2> QED BY <1>1, <2>1
<1> QED BY <1>2, <1>3, <1>4, <1>5, <1>6, <1>7, <1>8 DEF Next, Produce

\* Each call that was executed is in the log or refused, or on its way there: with
\* librdkafka next, in a queue that the thread will look at again, awake or once
\* the one who has yet to notify does so, or with the task that pushes it.
CallsOnTheirWay ==
  \A t \in Tasks : Has(order, t) =>
    \/ Has(topic, t) \/ t \in refused
    \/ Has(sending, t) /\ syncPc = "send"
    \/ /\ Has(produceQueue, t)
       /\ \/ syncPc \in {"lock", "check", "woken", "pop", "send"}
          \/ \E u \in active : taskPc[u] = "notify"
    \/ t \in active /\ taskPc[t] \in {"instance", "make", "push"}

LEMMA InvCallsOnTheirWay ==
  ASSUME LogInv, Started, Notified
  PROVE  CallsOnTheirWay
<1> SUFFICES ASSUME NEW t \in Tasks, Has(order, t), ~Has(topic, t), t \notin refused
             PROVE  \/ Has(sending, t) /\ syncPc = "send"
                    \/ /\ Has(produceQueue, t)
                       /\ \/ syncPc \in {"lock", "check", "woken", "pop", "send"}
                          \/ \E u \in active : taskPc[u] = "notify"
                    \/ t \in active /\ taskPc[t] \in {"instance", "make", "push"}
  BY DEF CallsOnTheirWay
<1>1. /\ topic \in Seq(Tasks) /\ sending \in Seq(Tasks) /\ produceQueue \in Seq(Tasks) /\ order \in Seq(Tasks)
      /\ syncPc \in SyncPcs /\ (syncPc # "send" => Len(sending) = 0)
  BY DEF LogInv, TypeOK
<1>2. Has(Only(order, Tasks \ refused), t)
  BY <1>1, OnlyHas
<1>3. Has(sending, t) \/ Has(produceQueue, t) \/ Has(Unpushed, t)
  <2>1. Unpushed \in Seq(Tasks)
    BY <1>1, OnlyHas DEF Unpushed
  <2>2. topic \o sending \in Seq(Tasks) /\ (topic \o sending) \o produceQueue \in Seq(Tasks)
    BY <1>1, JoinHas
  <2>3. /\ Has((topic \o sending) \o produceQueue \o Unpushed, t)
             => Has((topic \o sending) \o produceQueue, t) \/ Has(Unpushed, t)
        /\ Has((topic \o sending) \o produceQueue, t) => Has(topic \o sending, t) \/ Has(produceQueue, t)
        /\ Has(topic \o sending, t) => Has(topic, t) \/ Has(sending, t)
    BY <1>1, <2>1, <2>2, JoinHas
  <2> QED BY <1>2, <2>3 DEF LogInv, LogFollowsOrder
<1>4. CASE Has(sending, t)
  BY <1>1, <1>4 DEF Has
<1>5. CASE Has(produceQueue, t)
  <2>1. produceQueue # <<>>
    BY <1>5 DEF Has
  <2>2. syncPc # "none"
    BY <2>1 DEF Started
  <2> QED BY <1>1, <1>5, <2>1, <2>2 DEF Notified, SyncPcs
<1>6. CASE Has(Unpushed, t)
  <2>1. t \in Handled
    BY <1>1, <1>6, OnlyHas DEF Unpushed
  <2> QED BY <2>1 DEF Handled, LogInv, Alone
<1> QED BY <1>3, <1>4, <1>5, <1>6

\* No executed call is lost on its way to librdkafka, and none waits in the queue
\* of a thread that sleeps without a notification to come, although the push is
\* outside the lock and the thread pops without looking again after its wait
\* (kafka.cpp:9-14 and 22-27): a call can miss the log only because librdkafka
\* refused it, a thread is not scheduled, or the process dies of an exception with
\* the call still on its way (rpcServer.cpp:101).
THEOREM CallsReachTheLog == Spec => []CallsOnTheirWay
<1>1. Init => Started /\ Notified
  BY DEF Init, Started, Notified
<1>2. LogInv /\ Started /\ Notified /\ [Next]_vars => Started' /\ Notified'
  BY StartedStep, NotifiedStep
<1>3. LogInv /\ Started /\ Notified => CallsOnTheirWay
  BY InvCallsOnTheirWay
<1> QED BY <1>1, <1>2, <1>3, LogAlways, PTL DEF Spec
=============================================================================
