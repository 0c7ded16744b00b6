---------------------------- MODULE BinaryReader ----------------------------
(***************************************************************************)
(* binary_reader.hpp: CBOR, MessagePack, UBJSON and BSON back to a value.  *)
(* A reader starts at a position and returns the set of what it found and  *)
(* where it stopped: {} stands for the parse error.  Keys and elements go  *)
(* into the value as json_sax_dom_parser puts them: a later key replaces   *)
(* an earlier one.                                                         *)
(***************************************************************************)
EXTENDS BinaryWriter

Read(v, next) == [v |-> v, next |-> next]

(* get_number: w bytes from i on, the first one the highest.               *)
Assembled(bytes) == FoldLeft(LAMBDA n, c : (n % 2 ^ (Bits - 8)) * 256 + c, 0, bytes)
BytesAt(b, i, w) == IF i + w - 1 <= Len(b) THEN {SubSeq(b, i, i + w - 1)} ELSE {}
AsSigned(n, w) == IF n < 2 ^ (BitsOf(w) - 1) THEN n ELSE n - 2 ^ BitsOf(w)

NumberAt(b, i, w) == {Read(Assembled(s), i + w) : s \in BytesAt(b, i, w)}
SignedAt(b, i, w) == {Read(AsSigned(r.v, w), r.next) : r \in NumberAt(b, i, w)}
LittleAt(b, i, w) ==
  {Read(AsSigned(Assembled(Reverse(s)), w), i + w) : s \in BytesAt(b, i, w)}

(* get_string: nothing when the length is negative.                        *)
StringAt(b, i, n) ==
  IF n <= 0 THEN {Read(<<>>, i)} ELSE {Read(s, i + n) : s \in BytesAt(b, i, n)}
Sized(b, sizes) == UNION {StringAt(b, r.next, r.v) : r \in sizes}

FloatOf(s) ==
  LET mant == Assembled(SubSeq(s, 3, Len(s)))
  IN  IF s[2] = 255 /\ mant # 0 THEN NaN
      ELSE Shortest(s[1] = 1, Decimals(mant), s[2] - 128)
FloatAt(b, i, w) == {Read(Float(FloatOf(s)), i + w) : s \in BytesAt(b, i, w)}

Mapped(rs, op(_)) == {Read(op(r.v), r.next) : r \in rs}
Preceded(v, rs) == {Read(<<v>> \o r.v, r.next) : r \in rs}

-----------------------------------------------------------------------------
(* CBOR *)

(* The number in or behind the byte at i, 0 to 27 in its lower five bits.  *)
CborNumber(b, i) ==
  LET low == At(b, i) % 32
  IN  CASE low <= 23 -> {Read(low, i + 1)}
        [] low = 24 -> NumberAt(b, i + 1, 1)
        [] low = 25 -> NumberAt(b, i + 1, 2)
        [] low = 26 -> NumberAt(b, i + 1, Bytes32)
        [] low = 27 -> NumberAt(b, i + 1, Bytes64)
        [] OTHER -> {}

(* -1 - n, n having become an int64 first when it has that size.           *)
CborNegative(b, i) ==
  LET width == IF At(b, i) % 32 = 27 THEN Bytes64 ELSE 0
  IN  Mapped(CborNumber(b, i),
             LAMBDA n : Integer(-1 - (IF width = 0 THEN n ELSE AsSigned(n, width))))

(* A half: powers of ten, as in every float here, instead of two.          *)
Half(n) ==
  LET exp == (n \div 1024) % 32
      mant == n % 1024
      neg == n >= 32768
  IN  CASE exp = 0 -> Shortest(neg, Decimals(mant), -24)
        [] exp = 31 -> IF mant = 0 THEN Infinity(neg) ELSE NaN
        [] OTHER -> Shortest(neg, Decimals(mant + 1024), exp - 25)

RECURSIVE CborStringAt(_, _), CborChunks(_, _, _)
CborStringAt(b, i) ==
  CASE At(b, i) \in 96 .. 123 -> Sized(b, CborNumber(b, i))
    [] At(b, i) = 127 -> CborChunks(b, i + 1, <<>>)
    [] OTHER -> {}
CborChunks(b, i, s) ==
  IF At(b, i) = 255 THEN {Read(s, i + 1)}
  ELSE UNION {CborChunks(b, r.next, s \o r.v) : r \in CborStringAt(b, i)}

CborSimple(b, i) ==
  CASE At(b, i) \in {244, 245} -> {Read(Boolean(At(b, i) = 245), i + 1)}
    [] At(b, i) = 246 -> {Read(Null, i + 1)}
    [] At(b, i) = 249 -> Mapped(NumberAt(b, i + 1, 2), LAMBDA n : Float(Half(n)))
    [] At(b, i) = 250 -> FloatAt(b, i + 1, Bytes32)
    [] At(b, i) = 251 -> FloatAt(b, i + 1, Bytes64)
    [] OTHER -> {}

(* A count as a size_t: the highest one stands for no count, which is -1.  *)
SizeT(n) == IF n = 2 ^ Bits - 1 THEN -1 ELSE n

RECURSIVE ReadCbor(_, _), CborItems(_, _, _), CborMembers(_, _, _, _)
ReadCbor(b, i) ==
  LET c == At(b, i)
      items(n, next) == Mapped(CborItems(b, next, SizeT(n)), Array)
      members(n, next) == Mapped(CborMembers(b, next, SizeT(n), Empty), Object)
  IN  CASE c \in 0 .. 27 -> Mapped(CborNumber(b, i), Unsigned)
        [] c \in 32 .. 59 -> CborNegative(b, i)
        [] c \in (96 .. 123) \cup {127} -> Mapped(CborStringAt(b, i), String)
        [] c \in 128 .. 155 -> UNION {items(r.v, r.next) : r \in CborNumber(b, i)}
        [] c = 159 -> items(-1, i + 1)
        [] c \in 160 .. 187 -> UNION {members(r.v, r.next) : r \in CborNumber(b, i)}
        [] c = 191 -> members(-1, i + 1)
        [] OTHER -> CborSimple(b, i)
(* n elements, or up to the break when n is -1.                            *)
CborItems(b, i, n) ==
  IF n = 0 THEN {Read(<<>>, i)}
  ELSE IF n = -1 /\ At(b, i) = 255 THEN {Read(<<>>, i + 1)}
  ELSE UNION {Preceded(r.v, CborItems(b, r.next, IF n = -1 THEN n ELSE n - 1)) :
                r \in ReadCbor(b, i)}
CborMembers(b, i, n, f) ==
  IF n = 0 THEN {Read(f, i)}
  ELSE IF n = -1 /\ At(b, i) = 255 THEN {Read(f, i + 1)}
  ELSE UNION {UNION {CborMembers(b, r.next, IF n = -1 THEN n ELSE n - 1, Put(f, k.v, r.v)) :
                       r \in ReadCbor(b, k.next)} : k \in CborStringAt(b, i)}

-----------------------------------------------------------------------------
(* MessagePack *)

MsgPackStringAt(b, i) ==
  CASE At(b, i) \in 160 .. 191 -> StringAt(b, i + 1, At(b, i) % 32)
    [] At(b, i) \in 217 .. 219 ->
         Sized(b, NumberAt(b, i + 1, <<1, 2, Bytes32>>[At(b, i) - 216]))
    [] OTHER -> {}

PositiveFixint == 0 .. 127
NegativeFixint == 224 .. 255

(* float 32 to int 64                                                      *)
MsgPackNumber(b, i) ==
  LET c == At(b, i)
  IN  CASE c \in {202, 203} -> FloatAt(b, i + 1, IF c = 202 THEN Bytes32 ELSE Bytes64)
        [] c \in 204 .. 207 -> Mapped(NumberAt(b, i + 1, AllSizes[c - 203]), Unsigned)
        [] c \in 208 .. 211 -> Mapped(SignedAt(b, i + 1, AllSizes[c - 207]), Integer)
        [] OTHER -> {}

RECURSIVE ReadMsgPack(_, _), MsgPackItems(_, _, _), MsgPackMembers(_, _, _, _)
ReadMsgPack(b, i) ==
  LET c == At(b, i)
      counts(first) == NumberAt(b, i + 1, IF c = first THEN 2 ELSE Bytes32)
      items(rs) == UNION {Mapped(MsgPackItems(b, r.next, r.v), Array) : r \in rs}
      members(rs) ==
        UNION {Mapped(MsgPackMembers(b, r.next, r.v, Empty), Object) : r \in rs}
  IN  CASE c \in PositiveFixint -> {Read(Unsigned(c), i + 1)}
        [] c \in NegativeFixint -> {Read(Integer(c - 256), i + 1)}
        [] c \in 128 .. 143 -> members({Read(c % 16, i + 1)})
        [] c \in 144 .. 159 -> items({Read(c % 16, i + 1)})
        [] c \in (160 .. 191) \cup (217 .. 219) -> Mapped(MsgPackStringAt(b, i), String)
        [] c = 192 -> {Read(Null, i + 1)}
        [] c \in {194, 195} -> {Read(Boolean(c = 195), i + 1)}
        [] c \in {220, 221} -> items(counts(220))
        [] c \in {222, 223} -> members(counts(222))
        [] OTHER -> MsgPackNumber(b, i)
MsgPackItems(b, i, n) ==
  IF n = 0 THEN {Read(<<>>, i)}
  ELSE UNION {Preceded(r.v, MsgPackItems(b, r.next, n - 1)) : r \in ReadMsgPack(b, i)}
MsgPackMembers(b, i, n, f) ==
  IF n = 0 THEN {Read(f, i)}
  ELSE UNION {UNION {MsgPackMembers(b, r.next, n - 1, Put(f, k.v, r.v)) :
                       r \in ReadMsgPack(b, k.next)} : k \in MsgPackStringAt(b, i)}

-----------------------------------------------------------------------------
(* UBJSON *)

Noop == 78

(* get_ignore_noop: the position of the next byte that counts.             *)
RECURSIVE IgnoreNoop(_, _)
IgnoreNoop(b, i) == IF At(b, i) = Noop THEN IgnoreNoop(b, i + 1) ELSE i

(* An integer after its type; one byte is unsigned after U.                *)
UbjsonInteger(b, i, type) ==
  IF type = 85 THEN NumberAt(b, i, 1)
  ELSE IF type \in DOMAIN UbjsonWidth THEN SignedAt(b, i, UbjsonWidth[type]) ELSE {}

UbjsonStringAt(b, i) == Sized(b, UbjsonInteger(b, i + 1, At(b, i)))

UbjsonSize(b, i) ==
  LET p == IgnoreNoop(b, i) IN UbjsonInteger(b, p + 1, At(b, p))

(* get_ubjson_size_type: n is -1 when no size is given, and next then the  *)
(* position of the byte read last.  A size of -1 cannot be told from none. *)
UbjsonSizeType(b, i) ==
  LET p == IgnoreNoop(b, i)
      q == IgnoreNoop(b, p + 2)
      sized(type, rs) ==
        {[type |-> type, n |-> r.v, next |-> IF r.v = -1 THEN r.next - 1 ELSE r.next] :
           r \in {s \in rs : s.v >= -1}}
  IN  CASE At(b, p) = 36 ->
             IF At(b, p + 1) = EOF \/ At(b, q) # 35 THEN {}
             ELSE sized(At(b, p + 1), UbjsonSize(b, q + 1))
        [] At(b, p) = 35 -> sized(0, UbjsonSize(b, p + 1))
        [] OTHER -> {[type |-> 0, n |-> -1, next |-> p]}

RECURSIVE UbjsonValue(_, _, _), UbjsonItems(_, _, _, _), UbjsonMembers(_, _, _, _, _)
UbjsonValue(b, i, prefix) ==
  CASE prefix \in {84, 70} -> {Read(Boolean(prefix = 84), i)}
    [] prefix = 90 -> {Read(Null, i)}
    [] prefix = 85 -> Mapped(NumberAt(b, i, 1), Unsigned)
    [] prefix \in {105, 73, 108, 76} -> Mapped(UbjsonInteger(b, i, prefix), Integer)
    [] prefix \in {100, 68} -> FloatAt(b, i, IF prefix = 100 THEN Bytes32 ELSE Bytes64)
    [] prefix = 67 ->
         {Read(String(s), i + 1) : s \in {c \in BytesAt(b, i, 1) : c[1] <= 127}}
    [] prefix = 83 -> Mapped(UbjsonStringAt(b, i), String)
    [] prefix = 91 ->
         UNION {IF t.n > 0 /\ t.type = Noop THEN {Read(Array(<<>>), t.next)}
                ELSE Mapped(UbjsonItems(b, t.next, t.n, t.type), Array) :
                  t \in UbjsonSizeType(b, i)}
    [] prefix = 123 ->
         UNION {Mapped(UbjsonMembers(b, t.next, t.n, t.type, Empty), Object) :
                  t \in UbjsonSizeType(b, i)}
    [] OTHER -> {}
(* An element: of the common type, or after its own; without a size p is   *)
(* the position of that one.                                               *)
UbjsonItems(b, p, n, type) ==
  LET q == IF n = -1 THEN p ELSE IgnoreNoop(b, p)
      element == IF n > 0 /\ type # 0 THEN UbjsonValue(b, p, type)
                 ELSE UbjsonValue(b, q + 1, At(b, q))
      rest(next) ==
        UbjsonItems(b, IF n = -1 THEN IgnoreNoop(b, next) ELSE next,
                    IF n = -1 THEN n ELSE n - 1, type)
  IN  IF n = 0 THEN {Read(<<>>, p)}
      ELSE IF n = -1 /\ At(b, p) = 93 THEN {Read(<<>>, p + 1)}
      ELSE UNION {Preceded(r.v, rest(r.next)) : r \in element}
UbjsonMembers(b, p, n, type, f) ==
  LET element(i) ==
        IF n > 0 /\ type # 0 THEN UbjsonValue(b, i, type)
        ELSE LET q == IgnoreNoop(b, i) IN UbjsonValue(b, q + 1, At(b, q))
      rest(k, r) ==
        UbjsonMembers(b, IF n = -1 THEN IgnoreNoop(b, r.next) ELSE r.next,
                      IF n = -1 THEN n ELSE n - 1, type, Put(f, k.v, r.v))
  IN  IF n = 0 THEN {Read(f, p)}
      ELSE IF n = -1 /\ At(b, p) = 125 THEN {Read(f, p + 1)}
      ELSE UNION {UNION {rest(k, r) : r \in element(k.next)} : k \in UbjsonStringAt(b, p)}

ReadUbjson(b, i) == LET p == IgnoreNoop(b, i) IN UbjsonValue(b, p + 1, At(b, p))

-----------------------------------------------------------------------------
(* BSON: the size of a document is read and not looked at. *)

RECURSIVE CString(_, _)
CString(b, i) ==
  IF At(b, i) = EOF THEN {}
  ELSE IF At(b, i) = 0 THEN {Read(<<>>, i + 1)}
  ELSE Mapped(CString(b, i + 1), LAMBDA s : <<At(b, i)>> \o s)

(* At least the zero, whose value is not looked at either.                 *)
BsonString(b, i) ==
  UNION {{Read(s.v, s.next + 1) :
            s \in {x \in StringAt(b, r.next, r.v - 1) : At(b, x.next) # EOF}} :
           r \in {n \in LittleAt(b, i, Bytes32) : n.v >= 1}}

RECURSIVE ReadBson(_, _), BsonElement(_, _, _), BsonItems(_, _), BsonMembers(_, _, _)
BsonElement(b, i, type) ==
  CASE type = 1 ->
         {Read(Float(FloatOf(Reverse(s))), i + Bytes64) : s \in BytesAt(b, i, Bytes64)}
    [] type = 2 -> Mapped(BsonString(b, i), String)
    [] type = 3 -> ReadBson(b, i)
    [] type = 4 ->
         UNION {Mapped(BsonItems(b, r.next), Array) : r \in LittleAt(b, i, Bytes32)}
    [] type = 8 -> {Read(Boolean(At(b, i) # 0), i + 1)}
    [] type = 10 -> {Read(Null, i)}
    [] type = 16 -> Mapped(LittleAt(b, i, Bytes32), Integer)
    [] type = 18 -> Mapped(LittleAt(b, i, Bytes64), Integer)
    [] OTHER -> {}
(* The keys of an array are read and dropped.                              *)
BsonItems(b, i) ==
  IF At(b, i) = 0 THEN {Read(<<>>, i + 1)}
  ELSE UNION {UNION {Preceded(r.v, BsonItems(b, r.next)) :
                       r \in BsonElement(b, k.next, At(b, i))} : k \in CString(b, i + 1)}
BsonMembers(b, i, f) ==
  IF At(b, i) = 0 THEN {Read(f, i + 1)}
  ELSE UNION {UNION {BsonMembers(b, r.next, Put(f, k.v, r.v)) :
                       r \in BsonElement(b, k.next, At(b, i))} : k \in CString(b, i + 1)}
ReadBson(b, i) ==
  UNION {Mapped(BsonMembers(b, r.next, Empty), Object) : r \in LittleAt(b, i, Bytes32)}

-----------------------------------------------------------------------------
(* sax_parse, strict: nothing but the noops of UBJSON may follow.          *)
ReadAll(format, b) ==
  LET rs == CASE format = "cbor" -> ReadCbor(b, 1)
              [] format = "msgpack" -> ReadMsgPack(b, 1)
              [] format = "bson" -> ReadBson(b, 1)
              [] OTHER -> ReadUbjson(b, 1)
      end(r) == IF format \in {"cbor", "msgpack", "bson"} THEN r.next
                ELSE IgnoreNoop(b, r.next)
  IN  {r.v : r \in {s \in rs : At(b, end(s)) = EOF}}
=============================================================================
