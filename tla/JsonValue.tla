----------------------------- MODULE JsonValue ------------------------------
(***************************************************************************)
(* The values of nlohmann::basic_json as it is instantiated here, but with *)
(* small number types (it is a template over them): integers of Bits bits  *)
(* and decimal floats.  A value is a record with one field, named after    *)
(* its value_t.  A string is a sequence of bytes; an object is a function  *)
(* from its keys, which are such sequences.                                *)
(***************************************************************************)
EXTENDS Integers, Sequences, SequencesExt

CONSTANTS
  Bits,      (* the width of number_integer_t and number_unsigned_t          *)
  MaxExp10   (* the largest power of ten of number_float_t                   *)

Null == [null |-> 0]
Discarded == [discarded |-> 0]
Boolean(b) == [boolean |-> b]
Integer(n) == [number_integer |-> n]
Unsigned(n) == [number_unsigned |-> n]
Float(x) == [number_float |-> x]   (* [neg, digits, exp]                   *)
String(s) == [string |-> s]
Array(s) == [array |-> s]
Object(f) == [object |-> f]

Empty == [k \in {} |-> 0]

Type(v) == CHOOSE t \in DOMAIN v : TRUE
Is(v, t) == t \in DOMAIN v

InInteger(n) == n \in -(2 ^ (Bits - 1)) .. 2 ^ (Bits - 1) - 1
InUnsigned(n) == n \in 0 .. 2 ^ Bits - 1

Put(f, k, v) == [x \in DOMAIN f \cup {k} |-> IF x = k THEN v ELSE f[x]]
Without(f, k) == [x \in DOMAIN f \ {k} |-> f[x]]

(* std::map<std::string, ...>: byte by byte, the shorter first.            *)
KeyLess(a, b) ==
  \/ IsStrictPrefix(a, b)
  \/ \E i \in 1 .. Min({Len(a), Len(b)}) :
       SubSeq(a, 1, i - 1) = SubSeq(b, 1, i - 1) /\ a[i] < b[i]

RECURSIVE Ascending(_)
Ascending(keys) ==
  LET first == CHOOSE k \in keys : \A j \in keys \ {k} : KeyLess(k, j)
  IN  IF keys = {} THEN <<>> ELSE <<first>> \o Ascending(keys \ {first})

Keys(f) == Ascending(DOMAIN f)

(* The elements of a structured value, in the order of iteration.          *)
Elements(v) ==
  LET keys == Keys(v.object)
  IN  IF Is(v, "array") THEN v.array ELSE [i \in DOMAIN keys |-> v.object[keys[i]]]

IsNumber(v) ==
  Type(v) \in {"number_integer", "number_unsigned", "number_float"}

Finite(x) == Len(x.digits) + x.exp <= MaxExp10 + 1

(* The floats no digits stand for.  The sign of a NaN is left out.         *)
Infinity(neg) == [neg |-> neg, digits |-> <<49>>, exp |-> MaxExp10 + 1]
NaN == [neg |-> FALSE, digits |-> <<110>>, exp |-> MaxExp10 + 1]

(* A path is the keys and the positions from a value down to a part of it. *)
Child(v, p) == IF Is(v, "array") THEN v.array[p] ELSE v.object[p]

RECURSIVE Deref(_, _)
Deref(v, path) == IF path = <<>> THEN v ELSE Deref(Child(v, Head(path)), Tail(path))

RECURSIVE Store(_, _, _)
Store(v, path, x) ==
  IF path = <<>> THEN x
  ELSE IF Is(v, "array")
  THEN Array([v.array EXCEPT ![Head(path)] = Store(@, Tail(path), x)])
  ELSE Object([v.object EXCEPT ![Head(path)] = Store(@, Tail(path), x)])
=============================================================================
