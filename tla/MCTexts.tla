------------------------------- MODULE MCTexts ------------------------------
(* The pure algorithms: the run builds their inputs element by element and *)
(* each property speaks of one algorithm on the input built so far.        *)
EXTENDS JsonProperties, FiniteSets, TLC

VARIABLES subject, input

Grows(s, elements, bound) ==
  /\ subject = s /\ Len(input) < bound
  /\ \E e \in elements : input' = Append(input, e)
  /\ UNCHANGED subject

(* Tokens, and the callbacks that are asked.  "a" is a key and a string.   *)
LetterA == String(<<97>>)
TokenSet ==
  {Token(t) : t \in {"begin_array", "end_array", "begin_object", "end_object",
                     "value_separator", "name_separator", "literal_null"}}
    \cup {ValueToken("value_string", LetterA)}
Rejects(depth, event, v) == [depth |-> depth, event |-> event, v |-> v]
Callbacks ==
  {{Rejects(0, "value", Null)}, {Rejects(1, "value", Null)},
   {Rejects(1, "key", LetterA)}, {Rejects(2, "key", LetterA)},
   {Rejects(1, "array_start", Discarded)}, {Rejects(1, "object_start", Discarded)},
   {Rejects(1, "array_end", Discarded)}, {Rejects(1, "object_end", Discarded)},
   {Rejects(0, "array_end", Discarded)}, {Rejects(0, "object_end", Discarded)}}

(* The parser stops at the first error: nothing else is worth extending,   *)
(* nor what has more containers open than tokens to come.                  *)
MostTokens == 10
Unclosed(tokens) ==
  LET n(types) == Cardinality({i \in DOMAIN tokens : tokens[i].type \in types})
  IN  n({"begin_array", "begin_object"}) - n({"end_array", "end_object"})
Alive(tokens) ==
  /\ Len(tokens) + Unclosed(tokens) <= MostTokens
  /\ SaxParse(tokens).next >= Len(tokens) - 1

(* Values of depth 0 and 1, and some of depth 2.                           *)
Leaves ==
  {Null, Boolean(TRUE), Unsigned(0), Unsigned(200), Unsigned(2 ^ Bits - 1),
   Integer(1), Integer(-1), Integer(-32), Integer(-33), Integer(-129), Integer(-40000),
   Integer(-(2 ^ (Bits - 1))),
   Float([neg |-> TRUE, digits |-> <<49, 53>>, exp |-> -1]),
   Float([neg |-> FALSE, digits |-> <<50>>, exp |-> 6]), Float(NaN), Float(Infinity(TRUE)),
   String(<<>>), String(<<34, 10, 1, 127>>), String(<<240, 144, 128, 128>>)}
KeySet == {<<>>, <<0>>, <<47>>, <<126, 49>>, <<48>>}
Containers(single, several) ==
  {Array(<<>>), Object(Empty)} \cup {Array(<<x>>) : x \in single}
    \cup {Object(Put(Empty, <<47>>, x)) : x \in single}
    \cup {Object(Put(Empty, k, x)) : k \in KeySet, x \in several}
    \cup {Array(<<x, y>>) : x, y \in several}
    \cup {Object(Put(Put(Empty, <<47>>, x), <<126, 49>>, y)) : x, y \in several}
    \cup {Array(<<x, Null, y>>) : x, y \in several}
Several == {Null, Unsigned(0), Integer(-1), Float(NaN)}
Nested == Containers({Array(<<Null>>), Object(Put(Empty, <<97>>, Unsigned(0)))},
                     {Array(<<Unsigned(0), Integer(-1)>>), Object(Put(Empty, <<47>>, Null))})
Values == Leaves \cup Containers(Leaves, Several) \cup Nested

(* The last number, length or count an encoding has room for, the next one *)
(* and their neighbours; then the values of that size.                     *)
Sizes ==
  UNION {{n - 1, n, n + 1} :
           n \in {15, 23, 31, 127, 2 ^ 8, 2 ^ 15, 2 ^ 16, 2 ^ 23, 2 ^ 24, 2 ^ (Bits - 1)}}
    \cup {2 ^ Bits - 1}
LongestString == 2 ^ 16 + 1
MostElements == 2 ^ 5 + 1
Numbers(n) ==
  {Unsigned(n)} \cup {Integer(m) : m \in {i \in {n, -n} : InInteger(i)}}
SizedValues(n) ==
  Numbers(n)
    \cup {String([i \in 1 .. m |-> 97]) : m \in {n} \cap 0 .. LongestString}
    \cup {Array([i \in 1 .. m |-> Null]) : m \in {n} \cap 0 .. MostElements}
    \cup {Object([k \in {Decimals(i) : i \in 1 .. m} |-> Null]) :
            m \in {n} \cap 0 .. MostElements}

(* One byte, at least, of each range a table or an automaton tells apart.  *)
TextBytes == {10, 34, 65, 92, 128, 143, 144, 159, 160, 191, 194, 224, 237, 240, 241, 244, 245}

(* Bytes that begin, end or size something in a format, some in one piece. *)
Single(bytes) == {<<c>> : c \in bytes}
Pieces ==
  [cbor |-> Single({0, 24, 59, 97, 127, 129, 159, 161, 191, 200, 249, 255}),
   msgpack |-> Single({0, 97, 129, 146, 161, 200, 204, 208, 217, 220, 223, 255}),
   ubjson |-> Single({0, 1, 35, 36, 78, 85, 91, 93, 105, 123, 125, 200}),
   bson |-> {<<0>>, <<97>>, <<0, 0, 0>>, <<2, 0, 0>>, <<2, 97, 0>>, <<3, 97, 0>>,
             <<4, 97, 0>>, <<8, 97, 0>>, <<16, 97, 0>>, <<10, 97, 0>>}]

(* The window of exponents and the table of powers of ten.                 *)
MCAlpha == 4 - Q
MCGamma == -2
MCMinDecExp == -4

Init ==
  /\ subject \in {"tokens", "text", "float", "value", "size"} \cup DOMAIN Pieces
  /\ input = <<>>

Next ==
  \/ subject = "tokens" /\ Alive(input) /\ Grows("tokens", TokenSet, MostTokens)
  \/ Grows("text", TextBytes, 4)
  \/ Grows("float", IF input = <<>> THEN 0 .. Bias + 5 ELSE 0 .. 2 ^ (P - 1) - 1, 2)
  \/ \E format \in DOMAIN Pieces : Grows(format, Pieces[format], 5)
  \/ Grows("value", Values, 2)
  \/ Grows("size", Sizes, 1)

Spec == Init /\ [][Next]_<<subject, input>>

(* See ParserFollowsGrammar.                                               *)
ParsersFollowGrammar ==
  subject = "tokens" => ParserFollowsGrammar(input, Callbacks)

(* See TextRestores, BytesAgree and FloatRestores.                         *)
TextsRestored ==
  /\ subject = "float" /\ Len(input) = 2 => FloatRestores(input[1], input[2])
  /\ subject = "text" => BytesAgree(input)
  /\ subject = "value" /\ Len(input) = 1 => TextRestores(input[1])
  /\ subject = "size" /\ Len(input) = 1 => \A v \in Numbers(input[1]) : TextRestores(v)

(* See BinaryRestores, CountRestores and AcceptedIsRestored.               *)
BinariesRestored ==
  /\ subject \in DOMAIN Pieces =>
       \A format \in {subject, subject \o "_type"} \cap Formats :
         AcceptedIsRestored(format, FlattenSeq(input))
  /\ subject = "value" /\ Len(input) = 1 => BinaryRestores(input[1])
  /\ subject = "size" /\ Len(input) = 1 =>
       CountRestores(input[1]) /\ \A v \in SizedValues(input[1]) : BinaryRestores(v)

(* See PatchArrives and EditsAgree.                                        *)
PatchesArrive ==
  subject = "value" /\ Len(input) = 2 =>
    PatchArrives(input[1], input[2]) /\ EditsAgree(input[1], input[2])

(* See OrderIsTotal.                                                       *)
OrdersTotal ==
  subject = "value" /\ Len(input) = 2 => OrderIsTotal(input[1], input[2])
=============================================================================
