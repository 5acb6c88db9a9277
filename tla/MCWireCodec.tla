----------------------------- MODULE MCWireCodec -----------------------------
(***************************************************************************)
(* WireCodec for TLC: types and values of every kind the readme lists.     *)
(***************************************************************************)
EXTENDS WireCodec

CONSTANTS
  Integers_,   \* the integers that occur, some of them beyond int
  Symbols,     \* the symbols of strings
  MaxText,     \* the longest string
  MaxItems     \* the longest array and the largest set

\* With IntBits = 3: the least int, -1, 2, and one that only long long holds.
MCIntegers == {-4, -1, 2, 5}

INTS == <<"int">>
STR == <<"str">>
Keys == {<<"x">>, <<"y">>}

SeqsUpTo(S, n) == UNION {[1..i -> S] : i \in 0..n}

RECURSIVE ValuesOf(_)
ValuesOf(T) ==
  CASE T[1] = "int" -> {Num(n) : n \in Integers_}
    [] T[1] = "str" -> {Str(s) : s \in SeqsUpTo(Symbols, MaxText)}
    [] T[1] = "vec" -> {Arr(e) : e \in SeqsUpTo(ValuesOf(T[2]), MaxItems)}
    [] T[1] = "set" -> {[k |-> "set", m |-> m] :
                          m \in {m \in SUBSET ValuesOf(T[2]) : Cardinality(m) <= MaxItems}}
    [] T[1] = "map" -> {Obj(f) : f \in UNION {[K -> ValuesOf(T[2])] : K \in SUBSET Keys}}
    [] T[1] = "pair" -> {Arr(<<u, v>>) : u \in ValuesOf(T[2]), v \in ValuesOf(T[3])}
    [] T[1] = "class" -> {Obj(f) : f \in
                            {[x \in Keys |-> IF x = <<"x">> THEN u ELSE v] :
                               u \in ValuesOf(T[2][<<"x">>]), v \in ValuesOf(T[2][<<"y">>])}}

Class(U, V) == <<"class", [x \in Keys |-> IF x = <<"x">> THEN U ELSE V]>>

Typed(T) == [type : {T}, value : ValuesOf(T)]

\* What stands before or after the value of interest.
Simple == {[type |-> INTS, value |-> Num(2)]}
            \cup [type : {<<"vec", INTS>>}, value : {Arr(<<>>), Arr(<<Num(2)>>)}]

Types == {INTS, STR, <<"vec", INTS>>, <<"set", INTS>>, <<"map", INTS>>, <<"pair", INTS, STR>>,
          Class(INTS, STR), <<"vec", <<"vec", INTS>>>>, <<"map", <<"vec", INTS>>>>,
          <<"vec", <<"map", INTS>>>>}

AnyValue == UNION {Typed(T) : T \in Types}

MCCases ==
  [params : {<<a>> : a \in AnyValue} \cup {<<a, b>> : a \in AnyValue, b \in Simple}
               \cup {<<b, a>> : a \in AnyValue, b \in Simple},
   answer : {[type |-> <<"vec", INTS>>, value |-> Arr(<<Num(2)>>)]}]
    \cup [params : {<<[type |-> INTS, value |-> Num(0)]>>}, answer : AnyValue]

MCKeyOrder == << <<"name">>, <<"param", "1">>, <<"param", "2">>, <<"status">>, <<"x">>, <<"y">> >>
=============================================================================
