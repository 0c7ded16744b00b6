---------------------------- MODULE JsonContainer ---------------------------
(***************************************************************************)
(* json.hpp and iter_impl.hpp: a value as a container.  An edit returns    *)
(* whether it threw, the value it leaves, and, where the code returns an   *)
(* iterator, its position.  What only reads, or constructs, returns the    *)
(* set of its results: {} when it throws.                                  *)
(*                                                                         *)
(* A position counts from 0; own says that the iterator belongs to the     *)
(* value edited.  A span is what two iterators delimit: at first and last  *)
(* of value of, unless they belong to different values (fits).             *)
(***************************************************************************)
EXTENDS JsonPatch

Threw(v) == [threw |-> TRUE, v |-> v]
Done(v) == [threw |-> FALSE, v |-> v]
DoneAt(v, at) == [threw |-> FALSE, v |-> v, at |-> at]

-----------------------------------------------------------------------------
(* Iterators: a primitive is at 0 and ends at 1, a null begins at its end. *)

Structured(v) == Type(v) \in {"array", "object"}

Begin(v) == IF Is(v, "null") THEN 1 ELSE 0
End(v) == IF Structured(v) THEN Len(Elements(v)) ELSE 1

(* The assertions in operator* are the guard for arrays and objects.       *)
Pointed(v, at) ==
  IF Structured(v) THEN {Elements(v)[i] : i \in {at + 1} \cap DOMAIN Elements(v)}
  ELSE IF at = 0 /\ ~Is(v, "null") THEN {v} ELSE {}

(* operator-; an object has no offsets.                                    *)
Distance(v, from, to) == IF Is(v, "object") THEN {} ELSE {to - from}

(* operator[] of an iterator at position at.                               *)
AtOffset(v, at, n) ==
  CASE Is(v, "array") -> Pointed(v, at + n)
    [] Is(v, "object") -> {}
    [] OTHER -> IF at = -n /\ ~Is(v, "null") THEN {v} ELSE {}

Key(v, at) == IF Is(v, "object") THEN {Keys(v.object)[at + 1]} ELSE {}

(* items(): the key of the n-th element.                                   *)
ItemKey(v, n) ==
  CASE Is(v, "array") -> Decimals(n)
    [] Is(v, "object") -> Keys(v.object)[n + 1]
    [] OTHER -> <<>>

-----------------------------------------------------------------------------
(* Capacity and access *)

Size(v) ==
  CASE Is(v, "null") -> 0 [] Structured(v) -> Len(Elements(v)) [] OTHER -> 1
IsEmpty(v) ==
  CASE Is(v, "null") -> TRUE [] Structured(v) -> Elements(v) = <<>> [] OTHER -> FALSE

FirstOf(v) == Pointed(v, Begin(v))
LastOf(v) == Pointed(v, End(v) - 1)

AtIndex(v, i) ==
  IF Is(v, "array") THEN {v.array[j] : j \in {i + 1} \cap DOMAIN v.array} ELSE {}
AtKey(v, k) ==
  IF Is(v, "object") THEN {v.object[j] : j \in {k} \cap DOMAIN v.object} ELSE {}

ValueOr(v, k, default) ==
  IF ~Is(v, "object") THEN {}
  ELSE {IF k \in DOMAIN v.object THEN v.object[k] ELSE default}

HasKey(v, k) == Is(v, "object") /\ k \in DOMAIN v.object
Find(v, k) ==
  IF HasKey(v, k) THEN CHOOSE i \in 0 .. End(v) - 1 : Keys(v.object)[i + 1] = k
  ELSE End(v)

-----------------------------------------------------------------------------
(* Construction *)

Zero == [neg |-> FALSE, digits |-> <<>>, exp |-> 0]
Default(type) ==
  CASE type = "object" -> Object(Empty) [] type = "array" -> Array(<<>>)
    [] type = "string" -> String(<<>>) [] type = "boolean" -> Boolean(FALSE)
    [] type = "number_integer" -> Integer(0) [] type = "number_unsigned" -> Unsigned(0)
    [] type = "number_float" -> Float(Zero) [] type = "discarded" -> Discarded
    [] OTHER -> Null

(* std::map's emplace and insert: a key that is there keeps its value.     *)
Emplaced(f, k, x) == IF k \in DOMAIN f THEN f ELSE Put(f, k, x)

IsPair(x) == Is(x, "array") /\ Len(x.array) = 2 /\ Is(x.array[1], "string")
FromList(list, deduced, type) ==
  LET pairs == \A i \in DOMAIN list : IsPair(list[i])
      add(f, x) == Emplaced(f, x.array[1].string, x.array[2])
  IN  IF ~deduced /\ type = "object" /\ ~pairs THEN {}
      ELSE IF pairs /\ (deduced \/ type # "array")
      THEN {Object(FoldLeft(add, Empty, list))}
      ELSE {Array(list)}

Copies(n, x) == [i \in 1 .. n |-> x]
FromCount(n, x) == Array(Copies(n, x))

Slice(s) == SubSeq(Elements(s.of), s.first + 1, s.last)
SpanKeys(s) == SubSeq(Keys(s.of.object), s.first + 1, s.last)
Members(s) == [k \in ToSet(SpanKeys(s)) |-> s.of.object[k]]

FromSpan(s) ==
  CASE ~s.fits \/ Type(s.of) \in {"null", "discarded"} -> {}
    [] Is(s.of, "array") -> {Array(Slice(s))}
    [] Is(s.of, "object") -> {Object(Members(s))}
    [] OTHER -> IF s.first = 0 /\ s.last = 1 THEN {s.of} ELSE {}

-----------------------------------------------------------------------------
(* Edits that make an array or an object of a null *)

NullAs(v, x) == IF Is(v, "null") THEN x ELSE v
AsArray(v) == NullAs(v, Array(<<>>))
AsObject(v) == NullAs(v, Object(Empty))

(* operator[], assigned to: an index past the end fills the array with     *)
(* nulls.                                                                  *)
AssignIndex(v, i, x) ==
  LET w == AsArray(v)
  IN  IF ~Is(w, "array") THEN Threw(v)
      ELSE Done(Array([Filled(w.array, i + 1) EXCEPT ![i + 1] = x]))
AssignKey(v, k, x) ==
  LET w == AsObject(v)
  IN  IF ~Is(w, "object") THEN Threw(v) ELSE Done(Object(Put(w.object, k, x)))

PushBack(v, x) ==
  IF ~Is(AsArray(v), "array") THEN Threw(v)
  ELSE Done(Array(Append(AsArray(v).array, x)))
PushPair(v, k, x) ==
  IF ~Is(AsObject(v), "object") THEN Threw(v)
  ELSE Done(Object(Emplaced(AsObject(v).object, k, x)))
PushList(v, list) ==
  IF Is(v, "object") /\ IsPair(Array(list)) THEN PushPair(v, list[1].string, list[2])
  ELSE PushBack(v, CHOOSE x \in FromList(list, TRUE, "array") : TRUE)

Emplace(v, k, x) ==
  IF ~Is(AsObject(v), "object") THEN Threw(v)
  ELSE LET w == Object(Emplaced(AsObject(v).object, k, x))
       IN  DoneAt(w, Find(w, k))

(* Mutant: what is there is kept.                                          *)
UpdatedKeeping(v, f) == Done(Object(AsObject(v).object @@ f))

Updated(v, f) == Done(Object(f @@ AsObject(v).object))

(* The null has become an object before the argument is looked at.         *)
Update(v, w) ==
  IF ~Is(AsObject(v), "object") THEN Threw(v)
  ELSE IF ~Is(w, "object") THEN Threw(AsObject(v))
  ELSE Updated(v, w.object)
UpdateSpan(v, s) ==
  IF ~Is(AsObject(v), "object") THEN Threw(v)
  ELSE IF ~s.fits \/ ~Is(s.of, "object") THEN Threw(AsObject(v))
  ELSE Updated(v, Members(s))

-----------------------------------------------------------------------------
(* Edits at a place *)

(* A primitive is erased to null; the position returned is the end of it.  *)
Erase(v, pos) ==
  CASE ~pos.own \/ Type(v) \in {"null", "discarded"} -> Threw(v)
    [] Is(v, "array") -> DoneAt(Array(RemoveAt(v.array, pos.at + 1)), pos.at)
    [] Is(v, "object") ->
         DoneAt(Object(Without(v.object, Keys(v.object)[pos.at + 1])), pos.at)
    [] OTHER -> IF pos.at = 0 THEN DoneAt(Null, 1) ELSE Threw(v)

EraseSpan(v, s) ==
  CASE ~s.own \/ ~s.fits \/ Type(v) \in {"null", "discarded"} -> Threw(v)
    [] Is(v, "array") ->
         DoneAt(Array(SubSeq(v.array, 1, s.first)
                      \o SubSeq(v.array, s.last + 1, Len(v.array))), s.first)
    [] Is(v, "object") ->
         DoneAt(Object([k \in DOMAIN v.object \ DOMAIN Members(s) |-> v.object[k]]), s.first)
    [] OTHER -> IF s.first = 0 /\ s.last = 1 THEN DoneAt(Null, 1) ELSE Threw(v)

EraseKey(v, k) ==
  IF Is(v, "object") THEN Done(Object(Without(v.object, k))) ELSE Threw(v)
EraseIndex(v, i) ==
  IF Is(v, "array") /\ i < Size(v) THEN Done(Array(RemoveAt(v.array, i + 1)))
  ELSE Threw(v)

Clear(v) == IF Is(v, "discarded") THEN v ELSE Default(Type(v))

(* insert_iterator                                                         *)
InsertAll(v, at, list) ==
  DoneAt(Array(SubSeq(v.array, 1, at) \o list \o SubSeq(v.array, at + 1, Len(v.array))), at)
Insert(v, pos, x) ==
  IF Is(v, "array") /\ pos.own THEN InsertAll(v, pos.at, <<x>>) ELSE Threw(v)
InsertCount(v, pos, n, x) ==
  IF Is(v, "array") /\ pos.own THEN InsertAll(v, pos.at, Copies(n, x)) ELSE Threw(v)
InsertList(v, pos, list) ==
  IF Is(v, "array") /\ pos.own THEN InsertAll(v, pos.at, list) ELSE Threw(v)

(* The code takes it that the span is one of an array.                     *)
InsertSpan(v, pos, s) ==
  IF Is(v, "array") /\ pos.own /\ s.fits /\ ~s.own THEN InsertAll(v, pos.at, Slice(s))
  ELSE Threw(v)
InsertMembers(v, s) ==
  IF Is(v, "object") /\ s.fits /\ Is(s.of, "object") THEN Done(Object(v.object @@ Members(s)))
  ELSE Threw(v)
=============================================================================
