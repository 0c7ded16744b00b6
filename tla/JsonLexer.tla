----------------------------- MODULE JsonLexer ------------------------------
(***************************************************************************)
(* lexer.hpp: scan() and the functions it calls, from a sequence of bytes  *)
(* to tokens.  A scan function returns the token and the position of the   *)
(* byte after it; positions stand for get() and unget().                   *)
(***************************************************************************)
EXTENDS JsonValue

EOF == -1
At(text, i) == IF i <= Len(text) THEN text[i] ELSE EOF

Token(type) == [type |-> type]
ValueToken(type, value) == [type |-> type, value |-> value]
Found(token, next) == [token |-> token, next |-> next]
ParseError(i) == Found(Token("parse_error"), i)

-----------------------------------------------------------------------------
(* Strings *)

HexDigit(c) ==
  CASE c \in 48 .. 57 -> c - 48
    [] c \in 65 .. 70 -> c - 55
    [] c \in 97 .. 102 -> c - 87
    [] OTHER -> -1

(* The four digits from i on, -1 when one of them is none.                 *)
GetCodepoint(text, i) ==
  LET d == [k \in 0 .. 3 |-> HexDigit(At(text, i + k))]
  IN  IF \E k \in 0 .. 3 : d[k] = -1 THEN -1
      ELSE 4096 * d[0] + 256 * d[1] + 16 * d[2] + d[3]

HighSurrogate(c) == c \in 55296 .. 56319
LowSurrogate(c) == c \in 56320 .. 57343

(* Mutant: the supplementary planes start at zero.                         *)
JoinedWithoutPlane(high, low) == (high - 55296) * 1024 + (low - 56320)

Joined(high, low) == high * 1024 + low - 56613888

(* A code point as UTF-8.                                                  *)
Utf8(c) ==
  LET cont(n) == 128 + ((c \div n) % 64)
  IN  IF c < 128 THEN <<c>>
      ELSE IF c <= 2047 THEN <<192 + c \div 64, cont(1)>>
      ELSE IF c <= 65535 THEN <<224 + c \div 4096, cont(64), cont(1)>>
      ELSE <<240 + c \div 262144, cont(4096), cont(64), cont(1)>>

SimpleEscape(c) ==
  CASE c \in {34, 92, 47} -> c
    [] c = 98 -> 8
    [] c = 102 -> 12
    [] c = 110 -> 10
    [] c = 114 -> 13
    [] c = 116 -> 9
    [] OTHER -> -1

(* An escape, i being the byte after the backslash: the bytes it adds and  *)
(* the position after it, or no bytes and 0.                               *)
Escape(text, i) ==
  LET c == At(text, i)
      first == GetCodepoint(text, i + 1)
      second == GetCodepoint(text, i + 7)
      none == [add |-> <<>>, next |-> 0]
  IN  IF c # 117
      THEN IF SimpleEscape(c) = -1 THEN none
           ELSE [add |-> <<SimpleEscape(c)>>, next |-> i + 1]
      ELSE IF first = -1 \/ LowSurrogate(first) THEN none
      ELSE IF ~HighSurrogate(first) THEN [add |-> Utf8(first), next |-> i + 5]
      ELSE IF At(text, i + 5) = 92 /\ At(text, i + 6) = 117 /\ LowSurrogate(second)
      THEN [add |-> Utf8(Joined(first, second)), next |-> i + 11]
      ELSE none

(* The ranges the bytes after a lead byte have to lie in.                  *)
AnyTail == <<128, 191>>
Ranges(lead) ==
  CASE lead \in 194 .. 223 -> <<AnyTail>>
    [] lead = 224 -> <<<<160, 191>>, AnyTail>>
    [] lead \in (225 .. 236) \cup {238, 239} -> <<AnyTail, AnyTail>>
    [] lead = 237 -> <<<<128, 159>>, AnyTail>>
    [] lead = 240 -> <<<<144, 191>>, AnyTail, AnyTail>>
    [] lead \in 241 .. 243 -> <<AnyTail, AnyTail, AnyTail>>
    [] lead = 244 -> <<<<128, 143>>, AnyTail, AnyTail>>
    [] OTHER -> <<>>

NextByteInRange(text, i, ranges) ==
  \A k \in 1 .. Len(ranges) :
    ranges[k][1] <= At(text, i + k) /\ At(text, i + k) <= ranges[k][2]

ControlCharacters == 0 .. 31
PlainCharacters == (32 .. 127) \ {34, 92}

RECURSIVE ScanString(_, _, _)
(* i is the byte to read next, after the opening quote.                    *)
ScanString(text, i, buffer) ==
  LET c == At(text, i)
      goOn(bytes, n) == ScanString(text, n, buffer \o bytes)
  IN  CASE c = 34 -> Found(ValueToken("value_string", String(buffer)), i + 1)
        [] c = 92 ->
             LET e == Escape(text, i + 1)
             IN  IF e.next = 0 THEN ParseError(i) ELSE goOn(e.add, e.next)
        [] c \in ControlCharacters -> ParseError(i)
        [] c \in PlainCharacters -> goOn(<<c>>, i + 1)
        [] Ranges(c) # <<>> ->
             LET n == Len(Ranges(c))
             IN  IF NextByteInRange(text, i, Ranges(c))
                 THEN goOn(SubSeq(text, i, i + n), i + n + 1) ELSE ParseError(i)
        [] OTHER -> ParseError(i)   (* the end, or no UTF-8 *)

-----------------------------------------------------------------------------
(* Numbers: the labels of scan_number and where each byte leads. *)

Kind(c) ==
  CASE c = 48 -> "0"
    [] c \in 49 .. 57 -> "1-9"
    [] c \in {69, 101} -> "e"
    [] c = 43 -> "+"
    [] c = 45 -> "-"
    [] c = 46 -> "."
    [] OTHER -> "other"

Digit == {"0", "1-9"}

(* init, minus, zero, any1                                                 *)
IntegerGoto(label, kind) ==
  CASE label = "init" /\ kind = "-" -> "minus"
    [] label \in {"init", "minus"} /\ kind = "0" -> "zero"
    [] label \in {"init", "minus", "any1"} /\ kind = "1-9" -> "any1"
    [] label = "any1" /\ kind = "0" -> "any1"
    [] label \in {"zero", "any1"} /\ kind = "." -> "decimal1"
    [] label \in {"zero", "any1"} /\ kind = "e" -> "exponent"
    [] label = "zero" /\ kind \notin {".", "e"} -> "done"
    [] label = "any1" /\ kind \notin Digit \cup {".", "e"} -> "done"
    [] OTHER -> "error"

(* decimal1, decimal2                                                      *)
FractionGoto(label, kind) ==
  CASE kind \in Digit -> "decimal2"
    [] label = "decimal2" /\ kind = "e" -> "exponent"
    [] label = "decimal2" /\ kind \notin Digit \cup {"e"} -> "done"
    [] OTHER -> "error"

(* exponent, sign, any2                                                    *)
ExponentGoto(label, kind) ==
  CASE kind \in Digit -> "any2"
    [] label = "exponent" /\ kind \in {"+", "-"} -> "sign"
    [] label = "any2" /\ kind \notin Digit -> "done"
    [] OTHER -> "error"

Goto(label, kind) ==
  CASE label \in {"init", "minus", "zero", "any1"} -> IntegerGoto(label, kind)
    [] label \in {"decimal1", "decimal2"} -> FractionGoto(label, kind)
    [] OTHER -> ExponentGoto(label, kind)

(* The labels passed, from position i on.                                  *)
RECURSIVE Labels(_, _, _)
Labels(text, i, label) ==
  LET to == Goto(label, Kind(At(text, i)))
  IN  IF to \in {"done", "error"} THEN <<to>>
      ELSE <<to>> \o Labels(text, i + 1, to)

Decimal(digits) == FoldLeft(LAMBDA n, c : 10 * n + (c - 48), 0, digits)

(* A decimal without leading and trailing zeros.                           *)
RECURSIVE Shortest(_, _, _)
Shortest(neg, digits, exp) ==
  IF digits # <<>> /\ digits[1] = 48 THEN Shortest(neg, Tail(digits), exp)
  ELSE IF digits # <<>> /\ Last(digits) = 48
  THEN Shortest(neg, Front(digits), exp + 1)
  ELSE [neg |-> neg, digits |-> digits, exp |-> IF digits = <<>> THEN 0 ELSE exp]

(* strtof, for numbers of which no digit is lost.                          *)
ReadFloat(text) ==
  LET neg == text[1] = 45
      body == IF neg THEN Tail(text) ELSE text
      cutAt(kinds) == {i \in DOMAIN body : Kind(body[i]) \in kinds}
      e == IF cutAt({"e"}) = {} THEN Len(body) + 1 ELSE Min(cutAt({"e"}))
      point == IF cutAt({"."}) = {} THEN e ELSE Min(cutAt({"."}))
      exponent == SubSeq(body, e + 1, Len(body))
      power == IF exponent = <<>> THEN 0
               ELSE IF exponent[1] = 45 THEN -Decimal(Tail(exponent))
               ELSE IF exponent[1] = 43 THEN Decimal(Tail(exponent))
               ELSE Decimal(exponent)
      fraction == SubSeq(body, point + 1, e - 1)
  IN  Shortest(neg, SubSeq(body, 1, point - 1) \o fraction, power - Len(fraction))

(* Digits that cannot fit are not converted at all: 9 of them hold every   *)
(* number of Bits bits that is checked.                                    *)
Fits(digits, n) == Len(digits) <= 9 /\ n

(* The conversion at scan_number_done, by the type the labels have set.    *)
NumberToken(text, labels) ==
  LET real == \E i \in DOMAIN labels : labels[i] \in {"decimal1", "exponent"}
      neg == labels[1] = "minus"
  IN  CASE ~real /\ ~neg /\ Fits(text, InUnsigned(Decimal(text))) ->
             ValueToken("value_unsigned", Unsigned(Decimal(text)))
        [] ~real /\ neg /\ Fits(Tail(text), InInteger(-Decimal(Tail(text)))) ->
             ValueToken("value_integer", Integer(-Decimal(Tail(text))))
        [] OTHER -> ValueToken("value_float", Float(ReadFloat(text)))

ScanNumber(text, i) ==
  LET labels == Labels(text, i, "init")
      next == i + Len(labels) - 1
  IN  IF Last(labels) = "error" THEN ParseError(i)
      ELSE Found(NumberToken(SubSeq(text, i, next - 1), labels), next)

-----------------------------------------------------------------------------
(* scan *)

TrueText == <<116, 114, 117, 101>>
FalseText == <<102, 97, 108, 115, 101>>
NullText == <<110, 117, 108, 108>>

ScanLiteral(text, i, literal, type) ==
  IF \A k \in 2 .. Len(literal) : At(text, i + k - 1) = literal[k]
  THEN Found(Token(type), i + Len(literal)) ELSE ParseError(i)

Structural ==
  [c \in {91, 93, 123, 125, 58, 44} |->
     CASE c = 91 -> "begin_array" [] c = 93 -> "end_array"
       [] c = 123 -> "begin_object" [] c = 125 -> "end_object"
       [] c = 58 -> "name_separator" [] c = 44 -> "value_separator"]

RECURSIVE Scan(_, _)
Scan(text, i) ==
  LET c == At(text, i)
  IN  CASE c \in {32, 9, 10, 13} -> Scan(text, i + 1)
        [] c \in DOMAIN Structural -> Found(Token(Structural[c]), i + 1)
        [] c = 116 -> ScanLiteral(text, i, TrueText, "literal_true")
        [] c = 102 -> ScanLiteral(text, i, FalseText, "literal_false")
        [] c = 110 -> ScanLiteral(text, i, NullText, "literal_null")
        [] c = 34 -> ScanString(text, i + 1, <<>>)
        [] Kind(c) \in Digit \cup {"-"} -> ScanNumber(text, i)
        [] c \in {0, EOF} -> Found(Token("end_of_input"), i + 1)
        [] OTHER -> ParseError(i)

(* The first scan skips a byte order mark, and refuses a part of one.      *)
SkipBom(text) ==
  IF At(text, 1) # 239 THEN 1
  ELSE IF At(text, 2) = 187 /\ At(text, 3) = 191 THEN 4 ELSE 0

RECURSIVE TokensFrom(_, _)
TokensFrom(text, i) ==
  LET f == Scan(text, i)
  IN  IF f.token.type \in {"end_of_input", "parse_error"} THEN <<f.token>>
      ELSE <<f.token>> \o TokensFrom(text, f.next)

(* All tokens of a text, up to its end or the first error.                 *)
Tokens(text) ==
  IF SkipBom(text) = 0 THEN <<Token("parse_error")>>
  ELSE TokensFrom(text, SkipBom(text))
=============================================================================
