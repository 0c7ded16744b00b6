----------------------------- MODULE JsonPatch ------------------------------
(***************************************************************************)
(* json.hpp and json_pointer.hpp: comparison of values, JSON pointers,     *)
(* flatten and unflatten, patch, diff and merge_patch.  What may throw     *)
(* returns the set of its results: {} when it throws.                      *)
(*                                                                         *)
(* A patch is a sequence of records; a malformed operation lacks a field.  *)
(***************************************************************************)
EXTENDS JsonDump

-----------------------------------------------------------------------------
(* operator== and operator< *)

AsFloat(n) == Shortest(n < 0, Decimals(IF n < 0 THEN -n ELSE n), 0)
Signed(n) == IF n < 2 ^ (Bits - 1) THEN n ELSE n - 2 ^ Bits

(* Both sides as the type the comparison converts them to.                 *)
NumberOf(v) == v[Type(v)]
Converted(v, other) ==
  CASE Is(v, "number_float") -> v.number_float
    [] Is(other, "number_float") -> AsFloat(NumberOf(v))
    [] Is(v, "number_unsigned") /\ Is(other, "number_integer") -> Signed(NumberOf(v))
    [] OTHER -> NumberOf(v)

(* A NaN is neither equal to a float nor less nor greater, itself included. *)
FloatEqual(x, y) ==
  /\ NaN \notin {x, y} /\ x.digits = y.digits /\ x.exp = y.exp
  /\ x.neg = y.neg \/ x.digits = <<>>

RECURSIVE Equal(_, _)
Equal(a, b) ==
  IF IsNumber(a) /\ IsNumber(b)
  THEN LET x == Converted(a, b)
           y == Converted(b, a)
       IN  IF "number_float" \in {Type(a), Type(b)} THEN FloatEqual(x, y) ELSE x = y
  ELSE /\ Type(a) = Type(b) /\ ~Is(a, "discarded")
       /\ CASE Is(a, "array") ->
                 /\ Len(a.array) = Len(b.array)
                 /\ \A i \in DOMAIN a.array : Equal(a.array[i], b.array[i])
            [] Is(a, "object") ->
                 /\ DOMAIN a.object = DOMAIN b.object
                 /\ \A k \in DOMAIN a.object : Equal(a.object[k], b.object[k])
            [] OTHER -> a = b

MagnitudeLess(x, y) ==
  LET n(z) == Len(z.digits) + z.exp
  IN  /\ y.digits # <<>>
      /\ \/ x.digits = <<>> \/ n(x) < n(y)
         \/ n(x) = n(y) /\ KeyLess(x.digits, y.digits)
FloatLess(x, y) ==
  NaN \notin {x, y} /\
  IF x.neg = y.neg THEN IF x.neg THEN MagnitudeLess(y, x) ELSE MagnitudeLess(x, y)
  ELSE x.neg /\ (x.digits # <<>> \/ y.digits # <<>>)

Order(type) ==
  CASE type = "null" -> 0 [] type = "boolean" -> 1 [] type = "object" -> 3
    [] type = "array" -> 4 [] type = "string" -> 5 [] OTHER -> 2

(* Mutant: signed against unsigned, unconverted on one side.               *)
LessUnsigned(a, b) ==
  IF "number_float" \in {Type(a), Type(b)}
  THEN FloatLess(Converted(a, b), Converted(b, a)) ELSE NumberOf(a) < NumberOf(b)

NumberLess(a, b) ==
  IF "number_float" \in {Type(a), Type(b)}
  THEN FloatLess(Converted(a, b), Converted(b, a))
  ELSE Converted(a, b) < Converted(b, a)

RECURSIVE Less(_, _)
(* Containers compare lexicographically, an object as its (key, value)s.   *)
Less(a, b) ==
  LET x == Elements(a)
      y == Elements(b)
      key(v, i) == IF Is(v, "array") THEN <<>> ELSE Keys(v.object)[i]
      before(v, r, w, s, i) ==
        \/ KeyLess(key(v, i), key(w, i))
        \/ key(v, i) = key(w, i) /\ Less(r[i], s[i])
      tied(i) == ~before(a, x, b, y, i) /\ ~before(b, y, a, x, i)
      firsts(n) == \A i \in 1 .. n : tied(i)
  IN  CASE IsNumber(a) /\ IsNumber(b) -> NumberLess(a, b)
        [] Type(a) # Type(b) ->
             "discarded" \notin {Type(a), Type(b)} /\ Order(Type(a)) < Order(Type(b))
        [] Is(a, "string") -> KeyLess(a.string, b.string)
        [] Is(a, "boolean") -> ~a.boolean /\ b.boolean
        [] Type(a) \in {"array", "object"} ->
             \/ Len(x) < Len(y) /\ firsts(Len(x))
             \/ \E i \in 1 .. Min({Len(x), Len(y)}) :
                  firsts(i - 1) /\ before(a, x, b, y, i)
        [] OTHER -> FALSE

-----------------------------------------------------------------------------
(* json_pointer *)

SlashByte == 47
Tilde == 126
PastEnd == <<45>>

RECURSIVE ReplaceSubstring(_, _, _)
ReplaceSubstring(s, f, t) ==
  IF Len(s) < Len(f) THEN s
  ELSE IF IsPrefix(f, s)
  THEN t \o ReplaceSubstring(SubSeq(s, Len(f) + 1, Len(s)), f, t)
  ELSE <<Head(s)>> \o ReplaceSubstring(Tail(s), f, t)

EscapeToken(s) ==
  ReplaceSubstring(ReplaceSubstring(s, <<Tilde>>, <<Tilde, 48>>),
                   <<SlashByte>>, <<Tilde, 49>>)

UnescapeToken(s) ==
  ReplaceSubstring(ReplaceSubstring(s, <<Tilde, 49>>, <<SlashByte>>),
                   <<Tilde, 48>>, <<Tilde>>)

(* split: a pointer is empty or begins with a slash, and what follows a    *)
(* tilde is 0 or 1.                                                        *)
Split(s) ==
  LET slashes == SetToSortSeq({i \in DOMAIN s : s[i] = SlashByte}, <)
      end(n) == IF n = Len(slashes) THEN Len(s) ELSE slashes[n + 1] - 1
      token(n) == SubSeq(s, slashes[n] + 1, end(n))
      sound(t) == \A i \in DOMAIN t :
                    t[i] = Tilde => i < Len(t) /\ t[i + 1] \in {48, 49}
  IN  IF s = <<>> THEN {<<>>}
      ELSE IF s[1] = SlashByte /\ \A n \in DOMAIN slashes : sound(token(n))
      THEN {[n \in DOMAIN slashes |-> UnescapeToken(token(n))]} ELSE {}

IsDigits(s) == \A i \in DOMAIN s : s[i] \in 48 .. 57

(* array_index: stoi has to take the whole token, blanks and a sign first. *)
ArrayIndex(s) ==
  LET start == Min({i \in 1 .. Len(s) + 1 : i > Len(s) \/ s[i] # 32})
      t == SubSeq(s, start, Len(s))
      signed == t # <<>> /\ t[1] \in {43, 45}
      digits == IF signed THEN Tail(t) ELSE t
  IN  IF digits = <<>> \/ ~IsDigits(digits) THEN {}
      ELSE {IF signed /\ t[1] = 45 THEN -Decimal(digits) ELSE Decimal(digits)}

LeadingZero(s) == Len(s) > 1 /\ s[1] = 48

(* get_checked: the path of an existing value.                             *)
RECURSIVE Checked(_, _)
Checked(v, tokens) ==
  IF tokens = <<>> THEN {<<>>}
  ELSE LET token == Head(tokens)
           step == CASE Is(v, "object") -> DOMAIN v.object \cap {token}
                     [] Is(v, "array") /\ ~LeadingZero(token) ->
                          {i + 1 : i \in ArrayIndex(token) \cap 0 .. Len(v.array) - 1}
                     [] OTHER -> {}
       IN  UNION {{<<p>> \o q : q \in Checked(Child(v, p), Tail(tokens))} : p \in step}

(* What a null becomes under a token: get_unchecked and get_and_create.    *)
Turned(v, token, unflatten) ==
  IF ~Is(v, "null") THEN v
  ELSE IF IF unflatten THEN token = <<48>> ELSE IsDigits(token) \/ token = PastEnd
  THEN Array(<<>>) ELSE Object(Empty)

(* operator[]: a missing element is made, an array filled up to it.        *)
Filled(s, n) == s \o [k \in 1 .. n - Len(s) |-> Null]
Opened(v, token, unflatten) ==
  CASE Is(v, "object") ->
         {[v |-> IF token \in DOMAIN v.object THEN v
                 ELSE Object(Put(v.object, token, Null)), p |-> token]}
    [] Is(v, "array") ->
         {[v |-> Array(Filled(v.array, i + 1)), p |-> i + 1] :
            i \in {j \in IF unflatten THEN ArrayIndex(token)
                         ELSE IF token = PastEnd THEN {Len(v.array)}
                         ELSE IF LeadingZero(token) THEN {} ELSE ArrayIndex(token) :
                     j >= 0}}
    [] OTHER -> {}

RECURSIVE Reach(_, _, _)
Reach(v, tokens, unflatten) ==
  IF tokens = <<>> THEN {[v |-> v, path |-> <<>>]}
  ELSE UNION {{[v |-> Store(o.v, <<o.p>>, r.v), path |-> <<o.p>> \o r.path] :
                 r \in Reach(Child(o.v, o.p), Tail(tokens), unflatten)} :
               o \in Opened(Turned(v, Head(tokens), unflatten), Head(tokens), unflatten)}

Slashed(path, token) == path \o <<SlashByte>> \o token

(* flatten: the (pointer, primitive) pairs of a value.                     *)
RECURSIVE FlattenAt(_, _)
FlattenAt(path, v) ==
  CASE Is(v, "array") /\ v.array # <<>> ->
         UNION {FlattenAt(Slashed(path, Decimals(i - 1)), v.array[i]) : i \in DOMAIN v.array}
    [] Is(v, "object") /\ v.object # Empty ->
         UNION {FlattenAt(Slashed(path, EscapeToken(k)), v.object[k]) : k \in DOMAIN v.object}
    [] Type(v) \in {"array", "object"} -> {<<path, Null>>}
    [] OTHER -> {<<path, v>>}
Flatten(v) ==
  LET pairs == FlattenAt(<<>>, v)
  IN  Object([k \in {p[1] : p \in pairs} |-> (CHOOSE p \in pairs : p[1] = k)[2]])

Unflatten(v) ==
  LET put(result, k) ==
        UNION {{Store(r.v, r.path, v.object[k]) : r \in Reach(result, tokens, TRUE)} :
                 tokens \in Split(k)}
  IN  IF \/ ~Is(v, "object")
         \/ \E k \in DOMAIN v.object : Type(v.object[k]) \in {"array", "object"}
      THEN {}
      ELSE FoldLeft(LAMBDA rs, k : UNION {put(r, k) : r \in rs}, {Null}, Keys(v.object))

-----------------------------------------------------------------------------
(* patch *)

(* operation_add.  The parent is reached by operator[], which creates what *)
(* is missing below the first token; a parent that is primitive fails the  *)
(* assertion.                                                              *)
Added(v, tokens, x) ==
  LET last == Last(tokens)
      into(parent) ==
        CASE Is(parent, "null") -> {Object(Put(Empty, last, x))}
          [] Is(parent, "object") -> {Object(Put(parent.object, last, x))}
          [] Is(parent, "array") ->
               {Array(InsertAt(parent.array, i + 1, x)) :
                  i \in (IF last = PastEnd THEN {Len(parent.array)} ELSE ArrayIndex(last))
                        \cap 0 .. Len(parent.array)}
          [] OTHER -> {}
  IN  IF tokens = <<>> THEN {x}
      ELSE IF Len(tokens) > 1 /\ Checked(v, <<Head(tokens)>>) = {} THEN {}
      ELSE UNION {{Store(r.v, r.path, p) : p \in into(Deref(r.v, r.path))} :
                    r \in Reach(v, Front(tokens), FALSE)}

(* operation_remove.  A child of a primitive is removed without a word.    *)
Removed(v, tokens) ==
  LET last == Last(tokens)
      from(parent) ==
        CASE Is(parent, "object") ->
               {Object(Without(parent.object, k)) : k \in {last} \cap DOMAIN parent.object}
          [] Is(parent, "array") ->
               {Array(RemoveAt(parent.array, i + 1)) :
                  i \in ArrayIndex(last) \cap 0 .. Len(parent.array) - 1}
          [] OTHER -> {parent}
  IN  IF tokens = <<>> THEN {}
      ELSE UNION {{Store(v, path, p) : p \in from(Deref(v, path))} :
                    path \in Checked(v, Front(tokens))}

AddedAt(v, pointer, x) == UNION {Added(v, tokens, x) : tokens \in Split(pointer)}
RemovedAt(v, pointer) == UNION {Removed(v, tokens) : tokens \in Split(pointer)}
CheckedAt(v, pointer) == UNION {Checked(v, tokens) : tokens \in Split(pointer)}

Needs(op) ==
  CASE op \in {"add", "replace", "test"} -> {"value"}
    [] op \in {"move", "copy"} -> {"from"}
    [] OTHER -> {}

Apply(v, o) ==
  LET found == CheckedAt(v, o.path)
      source == CheckedAt(v, o.from)
  IN  IF ~({"op", "path"} \subseteq DOMAIN o) \/ ~(Needs(o.op) \subseteq DOMAIN o) THEN {}
      ELSE CASE o.op = "add" -> AddedAt(v, o.path, o.value)
             [] o.op = "remove" -> RemovedAt(v, o.path)
             [] o.op = "replace" -> {Store(v, path, o.value) : path \in found}
             [] o.op = "move" ->
                  UNION {UNION {AddedAt(w, o.path, Deref(v, path)) :
                                  w \in RemovedAt(v, o.from)} : path \in source}
             [] o.op = "copy" ->
                  UNION {AddedAt(v, o.path, Deref(v, path)) : path \in source}
             [] o.op = "test" ->
                  IF \E path \in found : Equal(Deref(v, path), o.value) THEN {v} ELSE {}
             [] OTHER -> {}

Patch(v, operations) ==
  FoldLeft(LAMBDA vs, o : UNION {Apply(w, o) : w \in vs}, {v}, operations)

-----------------------------------------------------------------------------
(* diff *)

Operation(op, path, x) == [op |-> op, path |-> path, value |-> x]
Removal(path) == [op |-> "remove", path |-> path]

(* Mutant: the superfluous elements are removed first to last.             *)
RemovalsAscending(path, from, to) ==
  [k \in 1 .. to - from + 1 |-> Removal(Slashed(path, Decimals(from + k - 2)))]

(* From the last element to the first one that is too many.                *)
Removals(path, from, to) ==
  [k \in 1 .. to - from + 1 |-> Removal(Slashed(path, Decimals(to - k)))]

RECURSIVE Diff(_, _, _)
Diff(source, target, path) ==
  LET at(i) == Slashed(path, Decimals(i - 1))
      a == source.array
      b == target.array
      f == source.object
      g == target.object
      common == Min({Len(a), Len(b)})
      of(k) == Slashed(path, EscapeToken(k))
  IN  CASE Equal(source, target) -> <<>>
        [] Is(source, "array") /\ Is(target, "array") ->
             FlattenSeq([i \in 1 .. common |-> Diff(a[i], b[i], at(i))])
             \o Removals(path, common + 1, Len(a))
             \o [k \in 1 .. Len(b) - common |->
                   Operation("add", at(common + k), b[common + k])]
        [] Is(source, "object") /\ Is(target, "object") ->
             FlattenSeq([n \in 1 .. Len(Keys(f)) |->
               LET k == Keys(f)[n]
               IN  IF k \in DOMAIN g THEN Diff(f[k], g[k], of(k)) ELSE <<Removal(of(k))>>])
             \o LET new == SelectSeq(Keys(g), LAMBDA k : k \notin DOMAIN f)
                IN  [n \in DOMAIN new |-> Operation("add", of(new[n]), g[new[n]])]
        [] OTHER -> <<Operation("replace", path, target)>>

-----------------------------------------------------------------------------
(* merge_patch *)

RECURSIVE MergePatch(_, _)
MergePatch(v, p) ==
  LET f == IF Is(v, "object") THEN v.object ELSE Empty
      g == p.object
      keys == {k \in DOMAIN f \cup DOMAIN g : k \notin DOMAIN g \/ ~Is(g[k], "null")}
  IN  IF ~Is(p, "object") THEN p
      ELSE Object([k \in keys |->
             IF k \notin DOMAIN g THEN f[k]
             ELSE MergePatch(IF k \in DOMAIN f THEN f[k] ELSE Null, g[k])])
=============================================================================
