------------------------------ MODULE WireCodec ------------------------------
(***************************************************************************)
(* What happens to the values of a call on their way: serialize and        *)
(* baseSerializeClass (include/serialization.h), rpcSender and rpcHandler  *)
(* (include/rpcHandler.h), JsonParser (include/jsonParser.h, json/         *)
(* jsonParser.cpp) and the length of a frame (include/rpcParser.h).        *)
(*                                                                         *)
(* A text is a sequence of symbols: the characters that the parser looks   *)
(* at, a numeral, or any other character of a string or a key.  Integers   *)
(* have IntBits bits, long long more.  A value is a record with its kind:  *)
(*   [k |-> "int", n |-> integer]      [k |-> "str", s |-> text]           *)
(*   [k |-> "arr", e |-> sequence]     [k |-> "obj", f |-> function]       *)
(*   [k |-> "set", m |-> set of values]                                    *)
(* and JsonParser holds the first four.  The keys of an object are texts.  *)
(*                                                                         *)
(* This module declares RECURSIVE operators: it is for TLC only.           *)
(***************************************************************************)
EXTENDS Integers, Sequences, FiniteSets, SequencesExt

CONSTANTS
  Cases,      \* the calls: [params: seq of [type, value], answer: [type, value]]
  KeyOrder,   \* all keys, as std::map orders them
  IntBits,    \* the width of int: 32
  Numerals,   \* the magnitudes that occur: 0..Numerals
  HeaderLimit \* the least body that a header of five digits cannot tell: 100000

VARIABLES
  call,    \* the case under way
  stage,   \* "call", "request", "answer", "returned", "threw" or "hung"
  text,    \* the body on the wire
  heard,   \* the parameters the handler was called with
  got      \* what the call returned

vars == <<call, stage, text, heard, got>>

-----------------------------------------------------------------------------
(***************************************************************************)
(* serialize::doSerialize: a value to a JsonParser.                        *)
(***************************************************************************)
Num(n) == [k |-> "int", n |-> n]
Str(s) == [k |-> "str", s |-> s]
Arr(e) == [k |-> "arr", e |-> e]
Obj(f) == [k |-> "obj", f |-> f]

\* std::atoi of a number of any magnitude: its low IntBits bits.
Atoi(n) == ((n + 2^(IntBits - 1)) % 2^IntBits) - 2^(IntBits - 1)

\* Integers pass through a text and atoi; vectors, sets and pairs are arrays,
\* maps and classes are objects.
RECURSIVE Encode(_)
Encode(v) ==
  CASE v.k = "int" -> Num(Atoi(v.n))
    [] v.k = "str" -> v
    [] v.k = "arr" -> Arr([i \in DOMAIN v.e |-> Encode(v.e[i])])
    [] v.k = "set" -> Encode(Arr(SetToSeq(v.m)))
    [] v.k = "obj" -> Obj([key \in DOMAIN v.f |-> Encode(v.f[key])])

-----------------------------------------------------------------------------
(***************************************************************************)
(* JsonParser::operator std::string.  Nothing is escaped.                  *)
(***************************************************************************)
Quoted(s) == <<"quote">> \o s \o <<"quote">>

\* Texts with commas between them.
Listed(ts) == [i \in 1..(IF ts = <<>> THEN 0 ELSE 2 * Len(ts) - 1) |->
                 IF i % 2 = 1 THEN ts[(i + 1) \div 2] ELSE <<",">>]

RECURSIVE Show(_)
Show(j) ==
  CASE j.k = "int" -> (IF j.n < 0 THEN <<"-">> ELSE <<>>)
                        \o <<ToString(IF j.n < 0 THEN -j.n ELSE j.n)>>
    [] j.k = "str" -> Quoted(j.s)
    [] j.k = "arr" -> <<"[">>
                        \o FlattenSeq(Listed([i \in DOMAIN j.e |-> Show(j.e[i])])) \o <<"]">>
    [] j.k = "obj" ->
         LET keys == SelectSeq(KeyOrder, LAMBDA key : key \in DOMAIN j.f)
             member(key) == Quoted(key) \o <<":">> \o Show(j.f[key])
         IN  <<"{">> \o FlattenSeq(Listed([i \in DOMAIN keys |-> member(keys[i])])) \o <<"}">>

-----------------------------------------------------------------------------
(***************************************************************************)
(* JsonParser's constructor.  It returns a status, the value, and the      *)
(* position after it, or 0 when *endPtr was not assigned.  The loop reads  *)
(* the whole text up to its last character ("end"), whatever the depth.    *)
(***************************************************************************)
Panic == [status |-> "panic"]
Hang == [status |-> "hang"]        \* the loop never ends
Wild == [status |-> "wild"]        \* an iterator has passed the end
Parsed(j, next) == [status |-> "ok", j |-> j, next |-> next]

IsNumeral(sym) == \E n \in 0..Numerals : sym = ToString(n)
ValueStart == {"{", "quote", "["} \cup {ToString(n) : n \in 0..Numerals}
Closer(kind) == IF kind = "arr" THEN "]" ELSE "}"
SymbolAt(t, p) == IF p <= Len(t) THEN t[p] ELSE "nul"

\* moveForwardPtr<...>(pos, end, false)
SkipTo(t, p, stops) ==
  CHOOSE q \in p..Len(t) :
    /\ q = Len(t) \/ t[q] \in stops
    /\ \A r \in p..q - 1 : t[r] \notin stops

\* The quote that ends the string whose content begins at p; 0 for a panic. A
\* backslash is passed over with the symbol after it.
RECURSIVE StringEnd(_, _)
StringEnd(t, p) ==
  IF p > Len(t) THEN -1
  ELSE LET q == SkipTo(t, p, {"quote", "backslash"})
       IN  IF q = Len(t) THEN 0 ELSE IF t[q] = "quote" THEN q ELSE StringEnd(t, q + 2)

\* A string or a number that starts at p.
Scalar(t, p) ==
  IF t[p] = "quote"
  THEN LET q == StringEnd(t, p + 1)
       IN  IF q = -1 THEN Wild ELSE IF q = 0 THEN Panic
           ELSE Parsed(Str(SubSeq(t, p + 1, q - 1)), q + 1)
  ELSE Parsed(Num(Atoi(CHOOSE n \in 0..Numerals : ToString(n) = t[p])), p + 1)

RECURSIVE Items(_, _, _, _, _)

\* The constructor from p; top is checkEnd.
ParseAt(t, p, top) ==
  IF t[p] \in {"{", "["} /\ (top => t[Len(t)] = IF t[p] = "{" THEN "}" ELSE "]")
  THEN IF t[p] = "{" THEN Items(t, top, "obj", p + 1, << >>)
                     ELSE Items(t, top, "arr", p + 1, << >>)
  ELSE Panic

Whole(kind, acc) == IF kind = "arr" THEN Arr(acc) ELSE Obj(acc)

\* One turn of the constructor's loop from p, with acc read so far.
Items(t, top, kind, p, acc) ==
  LET end == Len(t)
      keyed == kind = "obj"
      keyEnd == SkipTo(t, p + 1, {"quote"})
      badKey == t[p] # "quote" \/ t[keyEnd] # "quote"
                  \/ keyEnd + 1 = end \/ t[keyEnd + 1] # ":"
      start == SkipTo(t, IF keyed THEN keyEnd + 2 ELSE p, ValueStart)
      item == IF t[start] \in {"{", "["} THEN ParseAt(t, start, FALSE) ELSE Scalar(t, start)
      next == IF item.next = 0 THEN start ELSE item.next
      grown == IF keyed
               THEN [key \in DOMAIN acc \cup {SubSeq(t, p + 1, keyEnd - 1)} |->
                       IF key = SubSeq(t, p + 1, keyEnd - 1) THEN item.j ELSE acc[key]]
               ELSE Append(acc, item.j)
      sym == SymbolAt(t, next)
      closes == sym = Closer(kind)
  IN
  IF p > end THEN Wild
  ELSE IF keyed /\ p = end THEN Parsed(Whole(kind, acc), 0)
  ELSE IF keyed /\ badKey THEN Panic
  ELSE IF start = end THEN IF keyed THEN Panic ELSE Parsed(Whole(kind, acc), 0)
  ELSE IF item.status # "ok" THEN item
  ELSE IF sym = "," THEN Items(t, top, kind, next + 1, grown)
  ELSE IF top /\ ~closes THEN Panic
  ELSE IF ~top /\ closes THEN Parsed(Whole(kind, grown), next + 1)
  ELSE IF next = start /\ ~keyed THEN Hang
  ELSE Items(t, top, kind, next, grown)

\* JsonParser(&message)
Parse(t) == ParseAt(t, 1, TRUE)

-----------------------------------------------------------------------------
(***************************************************************************)
(* serialize::doUnSerialize<T>: a JsonParser to a value of a type.  Types  *)
(* are <<"int">>, <<"str">>, <<"vec", T>>, <<"set", T>>, <<"map", T>>,     *)
(* <<"pair", U, V>> and <<"class", [field -> type]>>.                      *)
(***************************************************************************)
Throw == [k |-> "throw"]
Throws(vs) == \E v \in vs : v.k = "throw"

RECURSIVE Decode(_, _)
Decode(T, j) ==
  LET type == T[1]
      items == IF j.k = "arr" /\ type \in {"vec", "set"}
               THEN [i \in DOMAIN j.e |-> Decode(T[2], j.e[i])] ELSE <<>>
      fields == [key \in DOMAIN j.f |-> Decode(T[2], j.f[key])]
      member(key) == IF j.k = "obj" /\ key \in DOMAIN j.f THEN j.f[key] ELSE Obj(<<>>)
      members == [key \in DOMAIN T[2] |-> Decode(T[2][key], member(key))]
      two == <<Decode(T[2], j.e[1]), Decode(T[3], j.e[2])>>
  IN
  CASE type \in {"int", "str"} -> IF j.k = type THEN j ELSE Throw
    [] type \in {"vec", "set"} ->
         IF j.k # "arr" \/ Throws(Range(items)) THEN Throw
         ELSE IF type = "vec" THEN Arr(items) ELSE [k |-> "set", m |-> Range(items)]
    [] type = "map" ->   \* getIterator() of what is no object is empty
         IF j.k # "obj" THEN Obj(<<>>)
         ELSE IF Throws(Range(fields)) THEN Throw ELSE Obj(fields)
    [] type = "pair" ->
         IF j.k # "arr" THEN Throw
         ELSE IF Len(j.e) < 2 \/ Throws(Range(two)) THEN Throw ELSE Arr(two)
    [] type = "class" -> \* a field that is missing is an empty object
         IF Throws(Range(members)) THEN Throw ELSE Obj(members)

-----------------------------------------------------------------------------
(***************************************************************************)
(* A call: rpcSender::sendRPC, rpcHandler::handleRPC, rpcSender::getRPC.   *)
(***************************************************************************)
Param(i) == <<"param", ToString(i)>>
Params == [i \in DOMAIN call.params |-> call.params[i].value]

\* setParam counts down: the first of n parameters is "paramn".
Request ==
  LET n == Len(Params)
  IN  Obj([key \in {<<"name">>} \cup {Param(i) : i \in 1..n} |->
             IF key = <<"name">> THEN Str(<<"method">>)
             ELSE Encode(Params[CHOOSE i \in 1..n : key = Param(n + 1 - i)])])

\* What doRpc answers to a request it cannot parse.
BadRequest == Obj([key \in {<<"status">>} |-> Str(<<"failed">>)])

Init ==
  /\ call \in Cases
  /\ stage = "call"
  /\ text = <<>>
  /\ heard = <<>>
  /\ got = Throw

SendRequest ==
  /\ stage = "call"
  /\ stage' = "request"
  /\ text' = Show(Request)
  /\ UNCHANGED <<call, heard, got>>

\* rpcParser::parse reads a length of five digits and wants CR next.
Framed(t) == Len(t) < HeaderLimit

Answer(j) == stage' = "answer" /\ text' = Show(j)

\* How a parser that does not return ends the call.
Stops(parsed) ==
  /\ parsed.status # "ok"
  /\ stage' = CASE parsed.status = "panic" -> "threw"
                [] parsed.status = "hang" -> "hung"
                [] OTHER -> "wild"

\* genType counts down, as setParam does.
Unpack(j) ==
  LET n == Len(Params)
  IN  [i \in 1..n |-> Decode(call.params[i].type,
                             IF Param(n + 1 - i) \in DOMAIN j.f
                             THEN j.f[Param(n + 1 - i)] ELSE Obj(<<>>))]

\* doRpc and handleRPC: the handler is called with the parameters unpacked.
Serve ==
  /\ stage = "request"
  /\ \/ ~Framed(text) /\ Answer(BadRequest) /\ UNCHANGED heard
     \/ Framed(text) /\ Stops(Parse(text)) /\ UNCHANGED <<heard, text>>
     \/ /\ Framed(text) /\ Parse(text).status = "ok"
        /\ LET values == Unpack(Parse(text).j)
           IN  \/ /\ Throws(Range(values))
                  /\ stage' = "threw" /\ UNCHANGED <<heard, text>>
               \/ /\ ~Throws(Range(values))
                  /\ heard' = values
                  /\ Answer(Encode(call.answer.value))
  /\ UNCHANGED <<call, got>>

\* remoteCall and getRPC: what the caller makes of the answer.
Return ==
  /\ stage = "answer"
  /\ \/ ~Framed(text) /\ stage' = "threw" /\ UNCHANGED got
     \/ Framed(text) /\ Stops(Parse(text)) /\ UNCHANGED got
     \/ /\ Framed(text) /\ Parse(text).status = "ok"
        /\ got' = Decode(call.answer.type, Parse(text).j)
        /\ stage' = IF got'.k = "throw" THEN "threw" ELSE "returned"
  /\ UNCHANGED <<call, text, heard>>

Next == SendRequest \/ Serve \/ Return

Spec == Init /\ [][Next]_vars

-----------------------------------------------------------------------------
(***************************************************************************)
(* Properties.                                                             *)
(***************************************************************************)

\* The backslashes just before position i of s.
Backslashes(s, i) ==
  Cardinality({q \in 1..i - 1 : \A r \in q..i - 1 : s[r] = "backslash"})

\* Quotes only after an odd number of backslashes, and not at the end an odd
\* number of them.
SafeText(s) ==
  /\ \A i \in DOMAIN s : s[i] = "quote" => Backslashes(s, i) % 2 = 1
  /\ Backslashes(s, Len(s) + 1) % 2 = 0

\* The values in v, itself included, of a kind.
RECURSIVE Parts(_)
Parts(v) ==
  {v} \cup CASE v.k = "arr" -> UNION {Parts(x) : x \in Range(v.e)}
             [] v.k = "set" -> UNION {Parts(x) : x \in v.m}
             [] v.k = "obj" -> UNION {Parts(v.f[key]) : key \in DOMAIN v.f}
             [] OTHER -> {}

SafeTexts(v) == \A x \in Parts(v) : x.k = "str" => SafeText(x.s)

\* A call that readme.md:8-20 is about: parameters and result are integers,
\* vectors, maps, sets, pairs, classes and nestings of these.  Strings, which the
\* list names as keys only, have no bare quotes in them, and a body is below the
\* 100000 characters of which no document speaks.
Supported ==
  /\ \A x \in Range(call.params) \cup {call.answer} : x.type # <<"str">> /\ SafeTexts(x.value)
  /\ Len(Show(Request)) < HeaderLimit /\ Len(Show(Encode(call.answer.value))) < HeaderLimit

=============================================================================
