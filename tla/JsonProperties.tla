--------------------------- MODULE JsonProperties ---------------------------
(***************************************************************************)
(* What the parts of the JSON library promise each other: the parser and   *)
(* the grammar, the serializer and the scanner, the binary writers and     *)
(* readers, diff and patch, and the two comparisons.                       *)
(***************************************************************************)
EXTENDS JsonParser, JsonContainer, BinaryReader, FloatDigits

-----------------------------------------------------------------------------
(* The grammar, over token types: where a value that begins at i may end.  *)

Scalars == {"literal_true", "literal_false", "literal_null", "value_string",
            "value_unsigned", "value_integer", "value_float"}

RECURSIVE ValueEnds(_, _), ItemsEnds(_, _), MembersEnds(_, _)
ValueEnds(t, i) ==
  LET closed(ends, type) == {j + 1 : j \in {k \in ends : TypeAt(t, k) = type}}
  IN  CASE TypeAt(t, i) \in Scalars -> {i + 1}
        [] TypeAt(t, i) = "begin_array" ->
             closed({i + 1} \cup ItemsEnds(t, i + 1), "end_array")
        [] TypeAt(t, i) = "begin_object" ->
             closed({i + 1} \cup MembersEnds(t, i + 1), "end_object")
        [] OTHER -> {}
After(t, ends) == {j + 1 : j \in {k \in ends : TypeAt(t, k) = "value_separator"}}
ItemsEnds(t, i) ==
  LET first == ValueEnds(t, i)
  IN  first \cup UNION {ItemsEnds(t, j) : j \in After(t, first)}
MembersEnds(t, i) ==
  LET first == IF KeyAt(t, i) THEN ValueEnds(t, i + 2) ELSE {}
  IN  first \cup UNION {MembersEnds(t, j) : j \in After(t, first)}

(* What a callback keeps, read off the grammar: an element or a member it  *)
(* rejects is discarded, and an earlier member of the same key with it.    *)
RECURSIVE Kept(_, _, _, _), KeptItems(_, _, _, _, _), KeptMembers(_, _, _, _, _)
Kept(cb, t, i, depth) ==
  LET array == KeptItems(cb, t, i + 1, depth + 1, <<>>)
      object == KeptMembers(cb, t, i + 1, depth + 1, Empty)
      asked(r, start, end) ==
        [r EXCEPT !.v = IF Keeps(cb, depth, start, Discarded) /\ Keeps(cb, depth, end, @)
                        THEN @ ELSE Discarded]
  IN  CASE TypeAt(t, i) = "begin_array" -> asked(array, "array_start", "array_end")
        [] TypeAt(t, i) = "begin_object" -> asked(object, "object_start", "object_end")
        [] OTHER ->
             LET v == (CHOOSE e \in Scalar(t[i]) : TRUE).value
             IN  [v |-> IF Keeps(cb, depth, "value", v) THEN v ELSE Discarded, next |-> i + 1]
Skip(t, i) == IF TypeAt(t, i) = "value_separator" THEN i + 1 ELSE i
KeptItems(cb, t, i, depth, items) ==
  LET r == Kept(cb, t, i, depth)
  IN  IF TypeAt(t, i) = "end_array" THEN [v |-> Array(items), next |-> i + 1]
      ELSE KeptItems(cb, t, Skip(t, r.next), depth,
                     IF Is(r.v, "discarded") THEN items ELSE Append(items, r.v))
KeptMembers(cb, t, i, depth, f) ==
  LET r == Kept(cb, t, i + 2, depth)
      key == t[i].value.string
      known == Keeps(cb, depth, "key", t[i].value)
  IN  IF TypeAt(t, i) = "end_object" THEN [v |-> Object(f), next |-> i + 1]
      ELSE KeptMembers(cb, t, Skip(t, r.next), depth,
                       IF ~known THEN f
                       ELSE IF Is(r.v, "discarded") THEN Without(f, key)
                       ELSE Put(f, key, r.v))

(* A value without the discarded parts.                                    *)
RECURSIVE Pruned(_)
Pruned(v) ==
  CASE Is(v, "array") ->
         LET kept == SelectSeq(v.array, LAMBDA x : ~Is(x, "discarded"))
         IN  Array([n \in DOMAIN kept |-> Pruned(kept[n])])
    [] Is(v, "object") ->
         Object([k \in {j \in DOMAIN v.object : ~Is(v.object[j], "discarded")} |->
                   Pruned(v.object[k])])
    [] OTHER -> v

(* The loop with its stack of booleans accepts what the grammar derives,   *)
(* and the three consumers of its events agree: the value built without a  *)
(* callback, and the one built with it, are what the grammar says.  With a *)
(* callback that holds but for the discarded values the parser forgets:    *)
(* end_object takes only the first one out of the parent object, and       *)
(* nothing takes out those no end_object follows.                          *)
(* parser.hpp sax_parse_internal, json_sax.hpp.                            *)
ParserFollowsGrammar(t, callbacks) ==
  LET grammatical == Len(t) + 1 \in ValueEnds(t, 1)
  IN  /\ Accept(t) = grammatical
      /\ grammatical = ~Is(ParseTokens(t), "discarded")
      /\ grammatical =>
           /\ ParseTokens(t) = Kept({}, t, 1, 0).v
           /\ \A cb \in callbacks :
                LET v == Kept(cb, t, 1, 0).v
                IN  Pruned(ParseFiltered(cb, t)) = IF Is(v, "discarded") THEN Null ELSE v

-----------------------------------------------------------------------------
(* What a value is once read back: an integer that is not negative is      *)
(* unsigned.                                                               *)
RECURSIVE Normal(_)
Normal(v) ==
  CASE Is(v, "array") -> Array([n \in DOMAIN v.array |-> Normal(v.array[n])])
    [] Is(v, "object") -> Object([k \in DOMAIN v.object |-> Normal(v.object[k])])
    [] Is(v, "number_integer") ->
         IF v.number_integer >= 0 THEN Unsigned(v.number_integer) ELSE v
    [] OTHER -> v

(* v with x in the place of every part that is in gone.                    *)
RECURSIVE Replaced(_, _, _)
Replaced(v, gone, x) ==
  CASE v \in gone -> x
    [] Is(v, "array") -> Array([n \in DOMAIN v.array |-> Replaced(v.array[n], gone, x)])
    [] Is(v, "object") ->
         Object([k \in DOMAIN v.object |-> Replaced(v.object[k], gone, x)])
    [] OTHER -> v

NaNs == {Float(NaN)}
Infinite == {Float(Infinity(neg)) : neg \in BOOLEAN}

Styles == {[indent |-> i, ascii |-> a, handler |-> "strict"] : i \in {-1, 2}, a \in BOOLEAN}

(* The text of a value, compact or indented, in UTF-8 or in ASCII, parses  *)
(* back to the value: every escape, number format and separator the        *)
(* serializer writes is one the scanner reads; a float that is not finite  *)
(* comes back as null.  serializer.hpp dump, lexer.hpp scan.               *)
TextRestores(v) ==
  \A style \in Styles :
    Parse(Dump(v, style)) = Normal(Replaced(v, NaNs \cup Infinite, Null))

(* Any bytes: the serializer's automaton refuses exactly the strings the   *)
(* scanner's table of ranges refuses, and what the lenient handlers put in *)
(* place of them can always be scanned.  serializer.hpp decode and         *)
(* dump_escaped, lexer.hpp scan_string.                                    *)
BytesAgree(s) ==
  LET dumped(handler, ascii) ==
        Dump(String(s), [indent |-> -1, ascii |-> ascii, handler |-> handler])
      strict == dumped("strict", FALSE)
      refused == Thrown \in {strict[i] : i \in DOMAIN strict}
      plain == \A i \in DOMAIN s : s[i] >= 32 /\ s[i] \notin {34, 92}
  IN  /\ plain => refused = Is(Parse(<<34>> \o s \o <<34>>), "discarded")
      /\ ~refused => Parse(strict) = String(s) /\ Parse(dumped("strict", TRUE)) = String(s)
      /\ \A handler \in {"ignore", "replace"} :
           LET v == Parse(dumped(handler, TRUE))
           IN  Is(v, "string") /\ v = Parse(dumped(handler, FALSE))

(* The digits of every positive float lie strictly between the halfway     *)
(* points to its neighbours, so any reader finds the float again; they are *)
(* no more than N = 1 + ceil(P * log10(2)), none of them has run below     *)
(* zero in the correction of the last one, the power of ten that scales    *)
(* them is in the table, and the text they are formatted to is scanned as  *)
(* these digits.  to_chars.hpp grisu2, format_buffer; lexer.hpp scan_number.*)
FloatRestores(E, F) ==
  LET r == Grisu2(E, F)
      n == Len(r.digits)
      d == FoldLeft(LAMBDA sum, digit : 10 * sum + digit, 0, r.digits)
      e == ComputeBoundaries(E, F).plus.e
      c == CachedPower(e)
      up(k) == IF k > 0 THEN k ELSE 0
      (* The decimal number and a bound, both as integers.                 *)
      decimal(m) == d * 10 ^ up(r.exp) * 2 ^ up(-m.e)
      bound(m) == m.f * 2 ^ up(m.e) * 10 ^ up(-r.exp)
  IN  <<E, F>> # <<0, 0>> =>
        /\ \A i \in 1 .. n : r.digits[i] \in 0 .. 9
        /\ r.digits[1] # 0 /\ n <= 2 + (P * 301) \div 1000
        /\ c.k \in MinDecExp .. MaxDecExp /\ c.e + e + Q \in Alpha .. Gamma
        /\ decimal(MMinus(E, F)) > bound(MMinus(E, F))
        /\ decimal(MPlus(E, F)) < bound(MPlus(E, F))
        /\ TextRestores(Float([neg |-> FALSE, exp |-> r.exp,
                               digits |-> [i \in 1 .. n |-> 48 + r.digits[i]]]))

-----------------------------------------------------------------------------
(* What a format cannot hold.                                              *)
RECURSIVE Holds(_, _)
Holds(format, v) ==
  CASE Is(v, "number_unsigned") ->
         format \in {"cbor", "msgpack"} \/ InSigned(v.number_unsigned, Bytes64)
    [] Is(v, "array") -> \A n \in DOMAIN v.array : Holds(format, v.array[n])
    [] Is(v, "object") -> \A k \in DOMAIN v.object :
                            /\ Holds(format, v.object[k])
                            /\ format = "bson" => \A i \in DOMAIN k : k[i] # 0
    [] OTHER -> TRUE

ValueOf(format, v) == IF format = "bson" THEN Object(Put(Empty, <<97>>, v)) ELSE v

(* In every format, a value is written and read back to the same value, or *)
(* it is one the format cannot hold and the writer throws; and the size    *)
(* that is computed before a BSON document is written is its size.         *)
(* binary_writer.hpp, binary_reader.hpp.                                   *)
BinaryRestores(v) ==
  \A format \in Formats :
    LET w == ValueOf(format, v)
        bytes == Write(format, w)
    IN  IF Holds(format, w)
        THEN /\ {Normal(x) : x \in ReadAll(format, bytes)} = {Normal(w)}
             /\ format = "bson" => BsonSize(w) = Len(bytes)
        ELSE Thrown \in {bytes[i] : i \in DOMAIN bytes}

(* A container's count is read back from its head, whatever it counts.     *)
(* MessagePack says up to 15 in the first byte.  binary_writer.hpp.        *)
CountRestores(n) ==
  LET cbor == CborHead(128, n)
      msgpack == MsgPackCount(n, 144, 220)
      ubjson == UbjsonNumber(n, TRUE)
      all(head) == {Read(n, Len(head) + 1)}
  IN  /\ CborNumber(cbor, 1) = all(cbor)
      /\ n > 15 /\ Below(n, Bytes32) =>
           NumberAt(msgpack, 2, IF msgpack[1] = 220 THEN 2 ELSE Bytes32) = all(msgpack)
      /\ InSigned(n, Bytes64) => UbjsonSize(ubjson, 1) = all(ubjson)

(* Any bytes: what a reader accepts, in whatever form, can be written and  *)
(* read again.                                                             *)
AcceptedIsRestored(format, b) ==
  \A v \in ReadAll(format, b) :
    {Normal(x) : x \in ReadAll(format, Write(format, v))} = {Normal(v)}

-----------------------------------------------------------------------------
(* The edits of a container, told by the ones made one element at a time.  *)

Here(i) == [own |-> TRUE, at |-> i]
Span(v, i, j) == [of |-> v, own |-> FALSE, fits |-> TRUE, first |-> i, last |-> j]
Whole(v) == Span(v, 0, Size(v))
Pair(k, x) == Array(<<String(k), x>>)

(* Every edit, with arguments that fit and with some that do not.          *)
Edits(v, w) ==
  LET foreign == [Here(0) EXCEPT !.own = FALSE]
      mine == [Span(v, 0, 1) EXCEPT !.own = TRUE]
      torn == [Whole(w) EXCEPT !.fits = FALSE]
  IN  {AssignIndex(v, 2, w), AssignKey(v, <<97>>, w), PushBack(v, w),
       PushPair(v, <<97>>, w), Emplace(v, <<97>>, w), PushList(v, <<w, v>>),
       Erase(v, foreign),
       EraseSpan(v, [mine EXCEPT !.fits = FALSE]), EraseSpan(v, Whole(v)),
       EraseKey(v, <<97>>), EraseIndex(v, Size(v)), Insert(v, foreign, w),
       InsertSpan(v, Here(0), mine), InsertSpan(v, Here(0), torn),
       InsertMembers(v, torn), InsertMembers(v, Whole(w))}

(* size() is the distance from begin() to end(), and each element on the   *)
(* way can be had, by iterator, by offset and by its key.                  *)
WalkMatches(v) ==
  /\ Size(v) = End(v) - Begin(v) /\ IsEmpty(v) = (Begin(v) = End(v))
  /\ ~Is(v, "object") => Distance(v, Begin(v), End(v)) = {Size(v)}
  /\ ~IsEmpty(v) => FirstOf(v) # {} /\ LastOf(v) # {}
  /\ \A i \in Begin(v) .. End(v) - 1 :
       /\ Pointed(v, i) # {}
       /\ ~Is(v, "object") => AtOffset(v, Begin(v), i) = Pointed(v, i)
       /\ Is(v, "array") => AtIndex(v, i) = Pointed(v, i)
       /\ Is(v, "object") =>
            \A k \in Key(v, i) :
              k = ItemKey(v, i) /\ AtKey(v, k) = Pointed(v, i) /\ Find(v, k) = i
  /\ Pointed(v, End(v)) = {}

(* A sequence of edits as one array edit.                                  *)
ArrayEditsAgree(v, x, w) ==
  LET n == Size(v)
      end == PushBack(v, x).v
  IN  /\ end = AssignIndex(v, n, x).v /\ end = Insert(v, Here(n), x).v
      /\ Patch(v, <<Operation("add", Slashed(<<>>, PastEnd), x)>>) = {end}
      /\ \A i \in 0 .. n :
           LET once == Insert(v, Here(i), x)
           IN  /\ Erase(once.v, Here(once.at)).v = v
               /\ InsertList(v, Here(i), FromCount(1, x).array) = once
               /\ InsertCount(v, Here(i), 2, x).v = Insert(once.v, Here(i), x).v
               /\ EraseSpan(once.v, [Span(once.v, i, i + 1) EXCEPT !.own = TRUE]).v = v
               /\ Patch(v, <<Operation("add", Slashed(<<>>, Decimals(i)), x)>>) = {once.v}
               /\ {InsertSpan(h, Here(i), Span(v, i, n)).v : h \in FromSpan(Span(v, 0, i))} = {v}
               /\ Is(w, "array") =>
                    InsertSpan(v, Here(i), Whole(w)).v
                      = FoldRight(LAMBDA y, u : Insert(u, Here(i), y).v, w.array, v)
      /\ FromList(v.array, FALSE, "array") = {v}
      /\ v = FoldLeft(LAMBDA u, y : PushBack(u, y).v, Array(<<>>), v.array)

(* insert() and emplace() never replace a member, update() always does, so *)
(* they agree with the arguments exchanged; and with merge_patch, where a  *)
(* member is neither removed nor merged.                                   *)
ObjectEditsAgree(v, w) ==
  LET pairs == [i \in 1 .. Size(w) |-> Pair(Keys(w.object)[i], Elements(w)[i])]
      push(u, p) == PushList(u, p.array).v
      both == Update(v, w).v
  IN  /\ both = InsertMembers(w, Whole(v)).v
      /\ InsertMembers(v, Whole(w)).v = FoldLeft(push, v, pairs)
      /\ FromList(pairs \o pairs, TRUE, "array") = {w} /\ Update(Null, w).v = w
      /\ \A i \in 0 .. Size(w) :
           UpdateSpan(UpdateSpan(v, Span(w, i, Size(w))).v, Span(w, 0, i)).v = both
      /\ \A k \in DOMAIN w.object :
           /\ AtKey(both, k) = {w.object[k]}
           /\ Patch(v, <<Operation("add", Slashed(<<>>, EscapeToken(k)), w.object[k])>>)
                = {AssignKey(v, k, w.object[k]).v}
           /\ LET e == Emplace(v, k, w.object[k])
              IN  Pointed(e.v, e.at) = ValueOr(v, k, w.object[k])
           /\ k \notin DOMAIN v.object => EraseKey(PushPair(v, k, Null).v, k).v = v
      /\ (\A k \in DOMAIN w.object : Type(w.object[k]) \notin {"null", "object"}) =>
           MergePatch(v, w) = both

(* An edit of a container is the edits it is made of, whichever operation  *)
(* makes them; an edit that throws leaves the value as it was, but for an  *)
(* update, which makes an object of a null before it refuses its argument. *)
(* The iterator erase() returns is the end exactly when the last element   *)
(* was erased, a primitive that turned into null included.                 *)
(* json.hpp, element access, modifiers; iter_impl.hpp.                     *)
EditsAgree(v, w) ==
  /\ WalkMatches(v)
  /\ \A e \in Edits(v, w) : e.threw => e.v = v
  /\ Is(v, "array") => ArrayEditsAgree(v, w, w)
  /\ Is(v, "object") /\ Is(w, "object") => ObjectEditsAgree(v, w)
  /\ \A e \in {Update(v, w), UpdateSpan(v, Whole(w))} :
       e.threw => e.v = IF Is(v, "null") THEN Object(Empty) ELSE v
  /\ \A i \in Begin(v) .. End(v) - 1 :
       LET e == Erase(v, Here(i))
       IN  ~e.threw /\ (e.at = End(e.v)) = (i = End(v) - 1)
  /\ Size(Clear(v)) = IF Structured(v) THEN 0 ELSE Size(v)

-----------------------------------------------------------------------------
(* What flatten loses: an empty container becomes null, and an object that *)
(* is made again from a first member "0" becomes an array.                 *)
RECURSIVE Lossless(_)
Lossless(v) ==
  Type(v) \in {"array", "object"} =>
    /\ Elements(v) # <<>>
    /\ Is(v, "object") => <<48>> \notin DOMAIN v.object
    /\ \A n \in DOMAIN Elements(v) : Lossless(Elements(v)[n])

(* A diff, applied as a patch, leads from one value to the other, whatever *)
(* has to be escaped in its pointers; a NaN, which is equal to nothing, is *)
(* a NaN there, too; unflatten undoes flatten where nothing is lost; and a *)
(* merge patch applied again changes nothing.                              *)
(* json.hpp patch, diff, merge_patch; json_pointer.hpp.                    *)
PatchArrives(v, w) ==
  /\ LET rs == Patch(v, Diff(v, w, <<>>))
         named(x) == Replaced(x, NaNs, String(<<78>>))
     IN  rs # {} /\ \A r \in rs : Equal(named(r), named(w))
  /\ Lossless(v) => Unflatten(Flatten(v)) = {v}
  /\ MergePatch(MergePatch(v, w), w) = MergePatch(v, w)

(* Of two values exactly one of less, equal and greater holds, containers  *)
(* and numbers of different types included, unless there is a NaN in one   *)
(* of them: then they are not equal, even if they are the same value, and  *)
(* they are less and greater at most one way.  json.hpp operator==, <.     *)
OrderIsTotal(v, w) ==
  LET holding == {c \in {<<"<", Less(v, w)>>, <<"=", Equal(v, w)>>, <<">", Less(w, v)>>} : c[2]}
      numbered(x) == Replaced(x, NaNs, Null) = x
  IN  IF numbered(v) /\ numbered(w) THEN Cardinality(holding) = 1
      ELSE Cardinality(holding) <= 1 /\ ~Equal(v, w)
=============================================================================
