---------------------------- MODULE BinaryWriter ----------------------------
(***************************************************************************)
(* binary_writer.hpp: a value as CBOR, MessagePack, UBJSON and BSON, byte  *)
(* by byte.  The types of one and two bytes have their size; the wide ones *)
(* are shorter than in the code, whose sizes are 4 and 8.  A float is its  *)
(* sign, exponent and digits in a wide type; the highest exponent is for NaN.    *)
(***************************************************************************)
EXTENDS JsonDump

CONSTANTS
  Bytes32,   (* sizeof(int32_t)                                            *)
  Bytes64    (* sizeof(int64_t), of which Bits bits count                  *)

-----------------------------------------------------------------------------
(* write_number *)

BitsOf(w) == IF w = Bytes64 THEN Bits ELSE 8 * w
BigEndian(n, w) ==
  [k \in 1 .. w |-> ((n % 2 ^ BitsOf(w)) \div 256 ^ (w - k)) % 256]
LittleEndian(n, w) == Reverse(BigEndian(n, w))

InSigned(n, w) == n \in -(2 ^ (BitsOf(w) - 1)) .. 2 ^ (BitsOf(w) - 1) - 1
Below(n, w) == n < 2 ^ BitsOf(w)

FloatBytes(x) ==
  IF x = NaN THEN <<0, 255, 0, 1>>
  ELSE <<IF x.neg THEN 1 ELSE 0, x.exp + 128>> \o BigEndian(Decimal(x.digits), 2)

-----------------------------------------------------------------------------
(* write_cbor *)

(* Mutant: one number too many in one byte.                                *)
CborHeadOneMore(major, n) ==
  CASE n <= 23 -> <<major + n>>
    [] n > 23 /\ n <= 256 -> <<major + 24>> \o BigEndian(n, 1)
    [] n > 256 /\ Below(n, 2) -> <<major + 25>> \o BigEndian(n, 2)
    [] ~Below(n, 2) /\ Below(n, Bytes32) -> <<major + 26>> \o BigEndian(n, Bytes32)
    [] OTHER -> <<major + 27>> \o BigEndian(n, Bytes64)

(* A major type, and a number in the same byte or in as few as hold it.    *)
CborHead(major, n) ==
  CASE n <= 23 -> <<major + n>>
    [] n > 23 /\ Below(n, 1) -> <<major + 24>> \o BigEndian(n, 1)
    [] ~Below(n, 1) /\ Below(n, 2) -> <<major + 25>> \o BigEndian(n, 2)
    [] ~Below(n, 2) /\ Below(n, Bytes32) -> <<major + 26>> \o BigEndian(n, Bytes32)
    [] OTHER -> <<major + 27>> \o BigEndian(n, Bytes64)

CborInteger(n) == IF n >= 0 THEN CborHead(0, n) ELSE CborHead(32, -1 - n)
CborString(s) == CborHead(96, Len(s)) \o s

KeysOf(v) == IF Is(v, "object") THEN Keys(v.object) ELSE <<>>

(* The bytes of the elements, each after its key in an object.             *)
Contents(keys, items) ==
  LET parts == [n \in DOMAIN items |->
                  IF keys = <<>> THEN items[n] ELSE keys[n] \o items[n]]
  IN  FlattenSeq(parts)

RECURSIVE WriteCbor(_)
WriteCbor(v) ==
  LET keys == KeysOf(v)
      parts == Elements(v)
      contents == Contents([n \in DOMAIN keys |-> CborString(keys[n])],
                           [n \in DOMAIN parts |-> WriteCbor(parts[n])])
  IN
  CASE Is(v, "null") -> <<246>>
    [] Is(v, "boolean") -> <<IF v.boolean THEN 245 ELSE 244>>
    [] Is(v, "number_integer") -> CborInteger(v.number_integer)
    [] Is(v, "number_unsigned") -> CborHead(0, v.number_unsigned)
    [] Is(v, "number_float") -> <<251>> \o FloatBytes(v.number_float)
    [] Is(v, "string") -> CborString(v.string)
    [] Is(v, "array") ->
         CborHead(128, Len(v.array)) \o contents
    [] Is(v, "object") ->
         CborHead(160, Cardinality(DOMAIN v.object)) \o contents
    [] OTHER -> <<>>

-----------------------------------------------------------------------------
(* write_msgpack *)

(* A number in the bytes of the first of the types that holds it.          *)
MsgPackSize(n, head, sizes) ==
  LET fit == {k \in DOMAIN sizes : Below(n, sizes[k])}
      k == Min(fit)
  IN  <<head + k - 1>> \o BigEndian(n, sizes[k])

AllSizes == <<1, 2, Bytes32, Bytes64>>

MsgPackUnsigned(n) == IF n < 128 THEN <<n>> ELSE MsgPackSize(n, 204, AllSizes)

MsgPackNegative(n) ==
  LET k == Min({j \in DOMAIN AllSizes : InSigned(n, AllSizes[j])})
  IN  IF n >= -32 THEN BigEndian(n, 1)
      ELSE <<208 + k - 1>> \o BigEndian(n, AllSizes[k])

MsgPackString(s) ==
  (IF Len(s) <= 31 THEN <<160 + Len(s)>>
   ELSE MsgPackSize(Len(s), 217, <<1, 2, Bytes32>>)) \o s

MsgPackCount(n, fix, head) ==
  IF n <= 15 THEN <<fix + n>> ELSE MsgPackSize(n, head, <<2, Bytes32>>)

RECURSIVE WriteMsgPack(_)
WriteMsgPack(v) ==
  LET keys == KeysOf(v)
      parts == Elements(v)
      contents == Contents([n \in DOMAIN keys |-> MsgPackString(keys[n])],
                           [n \in DOMAIN parts |-> WriteMsgPack(parts[n])])
  IN
  CASE Is(v, "null") -> <<192>>
    [] Is(v, "boolean") -> <<IF v.boolean THEN 195 ELSE 194>>
    [] Is(v, "number_integer") ->
         IF v.number_integer >= 0 THEN MsgPackUnsigned(v.number_integer)
         ELSE MsgPackNegative(v.number_integer)
    [] Is(v, "number_unsigned") -> MsgPackUnsigned(v.number_unsigned)
    [] Is(v, "number_float") -> <<203>> \o FloatBytes(v.number_float)
    [] Is(v, "string") -> MsgPackString(v.string)
    [] Is(v, "array") ->
         MsgPackCount(Len(v.array), 144, 220) \o contents
    [] Is(v, "object") ->
         MsgPackCount(Cardinality(DOMAIN v.object), 128, 222) \o contents
    [] OTHER -> <<>>

-----------------------------------------------------------------------------
(* write_ubjson *)

(* i, U, I, l, L                                                           *)
UbjsonType(n) ==
  CASE InSigned(n, 1) -> 105
    [] ~InSigned(n, 1) /\ n >= 0 /\ Below(n, 1) -> 85
    [] (n < 0 \/ ~Below(n, 1)) /\ ~InSigned(n, 1) /\ InSigned(n, 2) -> 73
    [] ~InSigned(n, 2) /\ InSigned(n, Bytes32) -> 108
    [] OTHER -> 76
UbjsonWidth ==
  [t \in {105, 85, 73, 108, 76} |->
     CASE t \in {105, 85} -> 1 [] t = 73 -> 2 [] t = 108 -> Bytes32 [] t = 76 -> Bytes64]

UbjsonNumber(n, addPrefix) ==
  IF ~InSigned(n, Bytes64) THEN <<Thrown>>
  ELSE (IF addPrefix THEN <<UbjsonType(n)>> ELSE <<>>)
       \o BigEndian(n, UbjsonWidth[UbjsonType(n)])

UbjsonPrefix(v) ==
  CASE Is(v, "null") -> 90
    [] Is(v, "boolean") -> IF v.boolean THEN 84 ELSE 70
    [] Is(v, "number_integer") -> UbjsonType(v.number_integer)
    [] Is(v, "number_unsigned") -> UbjsonType(v.number_unsigned)
    [] Is(v, "number_float") -> 68
    [] Is(v, "string") -> 83
    [] Is(v, "array") -> 91
    [] Is(v, "object") -> 123
    [] OTHER -> 78

RECURSIVE WriteUbjson(_, _, _, _)
WriteUbjson(v, useCount, useType, addPrefix) ==
  LET prefix == IF addPrefix THEN <<UbjsonPrefix(v)>> ELSE <<>>
      keys == KeysOf(v)
      parts == Elements(v)
      same == /\ useType /\ parts # <<>>
              /\ \A n \in DOMAIN parts : UbjsonPrefix(parts[n]) = UbjsonPrefix(parts[1])
      sized(s) == UbjsonNumber(Len(s), TRUE) \o s
      contents == Contents([n \in DOMAIN keys |-> sized(keys[n])],
                           [n \in DOMAIN parts |-> WriteUbjson(parts[n], useCount, useType, ~same)])
  IN  CASE Type(v) \in {"null", "boolean"} -> prefix
        [] Type(v) \in {"number_integer", "number_unsigned"} ->
             UbjsonNumber(v[Type(v)], addPrefix)
        [] Is(v, "number_float") -> prefix \o FloatBytes(v.number_float)
        [] Is(v, "string") -> prefix \o sized(v.string)
        [] Type(v) \in {"array", "object"} ->
             prefix
             \o (IF same THEN <<36, UbjsonPrefix(parts[1])>> ELSE <<>>)
             \o (IF useCount THEN <<35>> \o UbjsonNumber(Len(parts), TRUE) ELSE <<>>)
             \o contents
             \o (IF useCount THEN <<>> ELSE <<IF Is(v, "array") THEN 93 ELSE 125>>)
        [] OTHER -> <<>>

-----------------------------------------------------------------------------
(* write_bson *)

BsonWidth(n) == IF InSigned(n, Bytes32) THEN Bytes32 ELSE Bytes64

(* calc_bson_element_size: the bytes of an element but its header.         *)
RECURSIVE BsonSize(_)
BsonSize(v) ==
  LET entry(name, x) == 1 + Len(name) + 1 + BsonSize(x)
      total == IF Is(v, "array")
               THEN [n \in DOMAIN v.array |-> entry(Decimals(n - 1), v.array[n])]
               ELSE [k \in DOMAIN v.object |-> entry(k, v.object[k])]
  IN  CASE Is(v, "null") -> 0
        [] Is(v, "boolean") -> 1
        [] Is(v, "number_float") -> Bytes64
        [] Type(v) \in {"number_integer", "number_unsigned"} -> BsonWidth(v[Type(v)])
        [] Is(v, "string") -> Bytes32 + Len(v.string) + 1
        [] OTHER -> Bytes32 + FoldFunction(+, 0, total) + 1

BsonType(v) ==
  CASE Is(v, "number_float") -> 1
    [] Is(v, "string") -> 2
    [] Is(v, "object") -> 3
    [] Is(v, "array") -> 4
    [] Is(v, "boolean") -> 8
    [] Is(v, "null") -> 10
    [] OTHER -> IF InSigned(v[Type(v)], Bytes32) THEN 16 ELSE 18

RECURSIVE BsonBytes(_)
(* An element after its header; a document is one, too.                    *)
BsonBytes(v) ==
  LET element(name, x) == <<BsonType(x)>> \o name \o <<0>> \o BsonBytes(x)
      keys == Keys(v.object)
      elements ==
        IF Is(v, "array")
        THEN [n \in DOMAIN v.array |-> element(Decimals(n - 1), v.array[n])]
        ELSE [n \in DOMAIN keys |->
                IF 0 \in {keys[n][i] : i \in DOMAIN keys[n]} THEN <<Thrown>>
                ELSE element(keys[n], v.object[keys[n]])]
  IN  CASE Is(v, "null") -> <<>>
        [] Is(v, "boolean") -> <<IF v.boolean THEN 1 ELSE 0>>
        [] Is(v, "number_float") -> Reverse(FloatBytes(v.number_float))
        [] Type(v) \in {"number_integer", "number_unsigned"} ->
             IF InSigned(v[Type(v)], Bytes64)
             THEN LittleEndian(v[Type(v)], BsonWidth(v[Type(v)])) ELSE <<Thrown>>
        [] Is(v, "string") ->
             LittleEndian(Len(v.string) + 1, Bytes32) \o v.string \o <<0>>
        [] OTHER ->
             LittleEndian(BsonSize(v), Bytes32) \o FlattenSeq(elements) \o <<0>>

WriteBson(v) == IF Is(v, "object") THEN BsonBytes(v) ELSE <<Thrown>>

-----------------------------------------------------------------------------
Formats == {"cbor", "msgpack", "ubjson", "ubjson_count", "ubjson_type", "bson"}

Write(format, v) ==
  CASE format = "cbor" -> WriteCbor(v)
    [] format = "msgpack" -> WriteMsgPack(v)
    [] format = "ubjson" -> WriteUbjson(v, FALSE, FALSE, TRUE)
    [] format = "ubjson_count" -> WriteUbjson(v, TRUE, FALSE, TRUE)
    [] format = "ubjson_type" -> WriteUbjson(v, TRUE, TRUE, TRUE)
    [] format = "bson" -> WriteBson(v)
=============================================================================
