------------------------------ MODULE JsonDump ------------------------------
(***************************************************************************)
(* serializer.hpp and the formatting half of to_chars.hpp: from a value to *)
(* its text.  A float is given by the digits Grisu2 found (FloatDigits).    *)
(* The buffer that collects the bytes of a string before *)
(* they are written cannot be told from the text and is left out.          *)
(*                                                                         *)
(* options: indent (-1: compact), ascii, handler (strict, ignore, replace).*)
(***************************************************************************)
EXTENDS JsonLexer

CONSTANT Digits10   (* numeric_limits<number_float_t>::digits10            *)

Thrown == -1   (* stands in the text where type_error 316 is thrown         *)

-----------------------------------------------------------------------------
(* decode: the automaton of the UTF-8 decoder *)

ACCEPT == 0
REJECT == 1

(* Where a first byte leads.                                               *)
LeadState(byte) ==
  CASE byte \in 0 .. 127 -> ACCEPT
    [] byte \in 194 .. 223 -> 2
    [] byte = 224 -> 4
    [] byte \in (225 .. 236) \cup {238, 239} -> 3
    [] byte = 237 -> 5
    [] byte = 240 -> 6
    [] byte \in 241 .. 243 -> 7
    [] byte = 244 -> 8
    [] OTHER -> REJECT

(* The bytes that may follow in a state, and where they lead.              *)
Follow ==
  <<{}, 128 .. 191, 128 .. 191, 160 .. 191, 128 .. 159, 144 .. 191, 128 .. 191,
    128 .. 143>>
Onward == <<REJECT, ACCEPT, 2, 2, 2, 3, 3, 3>>

Decode(state, byte) ==
  IF state = ACCEPT THEN LeadState(byte)
  ELSE IF byte \in Follow[state] THEN Onward[state] ELSE REJECT

Codepoint(state, codep, byte) ==
  IF state # ACCEPT THEN 64 * codep + (byte % 64)
  ELSE CASE byte < 128 -> byte
         [] byte < 224 -> byte - 192
         [] byte < 240 -> byte - 224
         [] OTHER -> byte % 8

-----------------------------------------------------------------------------
(* dump_escaped *)

ShortEscape ==
  [c \in {8, 9, 10, 12, 13, 34, 92} |->
     CASE c = 8 -> 98 [] c = 9 -> 116 [] c = 10 -> 110 [] c = 12 -> 102
       [] c = 13 -> 114 [] OTHER -> c]

Hex4(n) ==
  LET digit(d) == IF d < 10 THEN 48 + d ELSE 87 + d
  IN  [k \in 1 .. 4 |-> digit((n \div 16 ^ (4 - k)) % 16)]
UEscape(n) == <<92, 117>> \o Hex4(n)

(* What is added when byte completes code point c.                         *)
EscapedChar(c, byte, ascii) ==
  IF c \in DOMAIN ShortEscape THEN <<92, ShortEscape[c]>>
  ELSE IF ~(c <= 31 \/ (ascii /\ c >= 127)) THEN <<byte>>
  ELSE IF c <= 65535 THEN UEscape(c)
  ELSE UEscape(55232 + (c \div 1024)) \o UEscape(56320 + (c % 1024))

Replacement(options) ==
  IF options.handler = "ignore" THEN <<>>
  ELSE IF options.ascii THEN UEscape(65533) ELSE <<239, 191, 189>>

(* At the end of the string.                                               *)
EscapeEnd(d, options) ==
  IF d.state = ACCEPT THEN d.out
  ELSE IF options.handler = "strict" THEN Append(d.out, Thrown)
  ELSE SubSeq(d.out, 1, d.accepted) \o Replacement(options)

(* out: the bytes so far; accepted: how many of them up to the last        *)
(* complete code point; undumped: the bytes of the code point begun.       *)
RECURSIVE EscapeFrom(_, _, _, _)
EscapeFrom(s, i, d, options) ==
  IF i > Len(s) THEN EscapeEnd(d, options)
  ELSE
  LET state == Decode(d.state, s[i])
      codep == Codepoint(d.state, d.codep, s[i])
      settled(out) == [state |-> ACCEPT, codep |-> codep, out |-> out,
                       accepted |-> Len(out), undumped |-> 0]
  IN  CASE state = ACCEPT ->
             EscapeFrom(s, i + 1,
                        settled(d.out \o EscapedChar(codep, s[i], options.ascii)),
                        options)
        [] state = REJECT ->
             IF options.handler = "strict" THEN Append(d.out, Thrown)
             ELSE EscapeFrom(s, IF d.undumped > 0 THEN i ELSE i + 1,
                    settled(SubSeq(d.out, 1, d.accepted) \o Replacement(options)),
                    options)
        [] OTHER ->
             EscapeFrom(s, i + 1,
                        [d EXCEPT !.state = state, !.codep = codep,
                                  !.out = IF options.ascii THEN @ ELSE Append(@, s[i]),
                                  !.undumped = @ + 1],
                        options)

DumpEscaped(s, options) ==
  EscapeFrom(s, 1, [state |-> ACCEPT, codep |-> 0, out |-> <<>>,
                    accepted |-> 0, undumped |-> 0], options)

-----------------------------------------------------------------------------
(* Numbers *)

RECURSIVE Decimals(_)
Decimals(n) == IF n < 10 THEN <<48 + n>>
               ELSE Append(Decimals(n \div 10), 48 + (n % 10))

DumpInteger(x) ==
  IF x < 0 THEN <<45>> \o Decimals((-x) % 2 ^ Bits) ELSE Decimals(x)

Zeros(n) == [k \in 1 .. n |-> 48]

AppendExponent(e) ==
  LET k == IF e < 0 THEN -e ELSE e
  IN  <<IF e < 0 THEN 45 ELSE 43>> \o (IF k < 10 THEN <<48>> ELSE <<>>) \o Decimals(k)

MinExp == -4

(* n is the position of the decimal point after the first digit.           *)
FormatBuffer(digits, exp) ==
  LET k == Len(digits)
      n == k + exp
  IN  CASE k <= n /\ n <= Digits10 -> digits \o Zeros(n - k) \o <<46, 48>>
        [] 0 < n /\ n < k /\ n <= Digits10 ->
             SubSeq(digits, 1, n) \o <<46>> \o SubSeq(digits, n + 1, k)
        [] MinExp < n /\ n <= 0 -> <<48, 46>> \o Zeros(-n) \o digits
        [] OTHER ->
             (IF k = 1 THEN digits
              ELSE <<digits[1], 46>> \o SubSeq(digits, 2, k))
             \o <<101>> \o AppendExponent(n - 1)

DumpFloat(x) ==
  IF ~Finite(x) THEN NullText
  ELSE (IF x.neg THEN <<45>> ELSE <<>>)
       \o (IF x.digits = <<>> THEN <<48, 46, 48>> ELSE FormatBuffer(x.digits, x.exp))

-----------------------------------------------------------------------------
(* dump *)

Spaces(n) == [k \in 1 .. n |-> 32]

Separated(items, separator) ==
  FlattenSeq([k \in 1 .. Len(items) |->
                (IF k = 1 THEN <<>> ELSE separator) \o items[k]])

Enclosed(open, items, close, options, current) ==
  CASE items = <<>> -> <<open, close>>
    [] items # <<>> /\ options.indent < 0 ->
         <<open>> \o Separated(items, <<44>>) \o <<close>>
    [] OTHER ->
         LET new == Spaces(current + options.indent)
         IN  <<open, 10>> \o new \o Separated(items, <<44, 10>> \o new)
             \o <<10>> \o Spaces(current) \o <<close>>

Quoted(s, options) == <<34>> \o DumpEscaped(s, options) \o <<34>>

RECURSIVE DumpAt(_, _, _)
DumpAt(v, options, current) ==
  LET inner(x) == DumpAt(x, options, current + options.indent)
      member(k) == Quoted(k, options)
                   \o (IF options.indent < 0 THEN <<58>> ELSE <<58, 32>>)
                   \o inner(v.object[k])
  IN  CASE Is(v, "object") ->
             LET keys == Keys(v.object)
             IN  Enclosed(123, [n \in DOMAIN keys |-> member(keys[n])], 125,
                          options, current)
        [] Is(v, "array") ->
             Enclosed(91, [n \in DOMAIN v.array |-> inner(v.array[n])], 93,
                      options, current)
        [] Is(v, "string") -> Quoted(v.string, options)
        [] Is(v, "boolean") -> IF v.boolean THEN TrueText ELSE FalseText
        [] Is(v, "number_integer") -> DumpInteger(v.number_integer)
        [] Is(v, "number_unsigned") -> DumpInteger(v.number_unsigned)
        [] Is(v, "number_float") -> DumpFloat(v.number_float)
        [] Is(v, "null") -> NullText
        [] OTHER -> <<60, 100, 105, 115, 99, 97, 114, 100, 101, 100, 62>>

(* basic_json::dump.                                                       *)
Dump(v, options) == DumpAt(v, options, 0)

Compact == [indent |-> -1, ascii |-> FALSE, handler |-> "strict"]
=============================================================================
