----------------------------- MODULE JsonParser -----------------------------
(***************************************************************************)
(* parser.hpp and json_sax.hpp: the loop of sax_parse_internal, which      *)
(* turns tokens into events with a stack of its own, and the three         *)
(* consumers: the acceptor, the parser that builds a value, and the one    *)
(* that asks a callback what to keep.                                      *)
(*                                                                         *)
(* A pointer into the value under construction is its path (JsonValue).    *)
(***************************************************************************)
EXTENDS JsonLexer

-----------------------------------------------------------------------------
(* sax_parse_internal *)

Event(e) == [event |-> e]
With(e, v) == [event |-> e, value |-> v]

TokenAt(tokens, i) == IF i <= Len(tokens) THEN tokens[i] ELSE Token("end_of_input")
TypeAt(tokens, i) == TokenAt(tokens, i).type

(* The event of a token that is a value by itself.                         *)
Scalar(token) ==
  CASE token.type = "literal_null" -> {With("value", Null)}
    [] token.type = "literal_true" -> {With("value", Boolean(TRUE))}
    [] token.type = "literal_false" -> {With("value", Boolean(FALSE))}
    [] token.type \in {"value_string", "value_integer", "value_unsigned"} ->
         {With("value", token.value)}
    [] token.type = "value_float" ->
         IF Finite(token.value.number_float) THEN {With("value", token.value)} ELSE {}
    [] OTHER -> {}

(* key, separator, and the value follows.                                  *)
KeyAt(tokens, i) ==
  TypeAt(tokens, i) = "value_string" /\ TypeAt(tokens, i + 1) = "name_separator"
KeyEvent(tokens, i) == With("key", TokenAt(tokens, i).value)

(* The next token, the stack, what is expected, and the events sent.       *)
Step(n, states, mode, events) ==
  [next |-> n, states |-> states, mode |-> mode, events |-> events]

(* A value is expected at i: {} when there is none.  The start_object of a *)
(* step that then fails is left out: what a failed parse built is dropped. *)
ValueStep(tokens, i, states) ==
  LET type == TypeAt(tokens, i)
      first(kind) == TypeAt(tokens, i + 1) = kind
  IN  CASE type = "begin_object" /\ first("end_object") ->
             {Step(i + 2, states, "after", <<Event("start_object"), Event("end_object")>>)}
        [] type = "begin_object" /\ KeyAt(tokens, i + 1) ->
             {Step(i + 3, Append(states, FALSE), "value",
                   <<Event("start_object"), KeyEvent(tokens, i + 1)>>)}
        [] type = "begin_array" /\ first("end_array") ->
             {Step(i + 2, states, "after", <<Event("start_array"), Event("end_array")>>)}
        [] type = "begin_array" /\ ~first("end_array") ->
             {Step(i + 1, Append(states, TRUE), "value", <<Event("start_array")>>)}
        [] OTHER ->
             {Step(i + 1, states, "after", <<e>>) : e \in Scalar(TokenAt(tokens, i))}

(* A value has been read: the top of the stack, TRUE for an array, says    *)
(* what goes on.                                                           *)
AfterStep(tokens, i, states) ==
  LET type == TypeAt(tokens, i)
      array == Last(states)
      end == IF array THEN "end_array" ELSE "end_object"
  IN  CASE type = "value_separator" /\ array -> {Step(i + 1, states, "value", <<>>)}
        [] type = "value_separator" /\ ~array /\ KeyAt(tokens, i + 1) ->
             {Step(i + 3, states, "value", <<KeyEvent(tokens, i + 1)>>)}
        [] type = end -> {Step(i + 1, Front(states), "after", <<Event(end)>>)}
        [] OTHER -> {}

Result(ok, events, next) == [ok |-> ok, events |-> events, next |-> next]

(* The events end with parse_error when ok is FALSE.                       *)
RECURSIVE Run(_, _, _, _, _)
Run(tokens, i, states, mode, events) ==
  LET steps == IF mode = "value" THEN ValueStep(tokens, i, states)
               ELSE AfterStep(tokens, i, states)
      s == CHOOSE x \in steps : TRUE
  IN  IF mode = "after" /\ states = <<>> THEN Result(TRUE, events, i)
      ELSE IF steps = {} THEN Result(FALSE, Append(events, Event("parse_error")), i)
      ELSE Run(tokens, s.next, s.states, s.mode, events \o s.events)

SaxParse(tokens) == Run(tokens, 1, <<>>, "value", <<>>)

(* strict: nothing may follow.                                             *)
Ended(tokens, r) == TypeAt(tokens, r.next) = "end_of_input"

(* parser::accept.                                                         *)
Accept(tokens) == LET r == SaxParse(tokens) IN r.ok /\ Ended(tokens, r)

-----------------------------------------------------------------------------
(* json_sax_dom_parser *)

Dom == [root |-> Null, ref_stack |-> <<>>, object_element |-> <<>>]

(* handle_value: the value goes to the root, to the end of the array on    *)
(* top of the stack, or to the place of the last key.                      *)
HandleValue(d, v) ==
  IF d.ref_stack = <<>> THEN [d |-> [d EXCEPT !.root = v], at |-> <<>>]
  ELSE LET top == Last(d.ref_stack)
           container == Deref(d.root, top)
       IN  IF Is(container, "array")
           THEN [d |-> [d EXCEPT !.root =
                          Store(@, top, Array(Append(container.array, v)))],
                 at |-> Append(top, Len(container.array) + 1)]
           ELSE [d |-> [d EXCEPT !.root = Store(@, d.object_element, v)],
                 at |-> d.object_element]

(* key: v is put at the key of the object at path.                         *)
SetKey(d, path, key, v) ==
  [d EXCEPT !.root = Store(@, path, Object(Put(Deref(d.root, path).object, key, v))),
            !.object_element = Append(path, key)]

DomEvent(d, e) ==
  LET open(v) == LET h == HandleValue(d, v)
                 IN  [h.d EXCEPT !.ref_stack = Append(@, h.at)]
  IN  CASE e.event = "value" -> HandleValue(d, e.value).d
        [] e.event = "start_array" -> open(Array(<<>>))
        [] e.event = "start_object" -> open(Object(Empty))
        [] e.event = "key" -> SetKey(d, Last(d.ref_stack), e.value.string, Null)
        [] e.event \in {"end_array", "end_object"} ->
             [d EXCEPT !.ref_stack = Front(@)]
        [] OTHER -> d

(* parser::parse without a callback, exceptions off.                       *)
ParseTokens(tokens) ==
  LET r == SaxParse(tokens)
  IN  IF r.ok /\ Ended(tokens, r)
      THEN FoldLeft(DomEvent, Dom, r.events).root ELSE Discarded

Parse(text) == ParseTokens(Tokens(text))

-----------------------------------------------------------------------------
(* json_sax_dom_callback_parser *)

(* The callback, by the calls it answers with false; a discarded value in  *)
(* one of them stands for any.                                             *)
Keeps(cb, depth, event, v) ==
  \A x \in {v, Discarded} : [depth |-> depth, event |-> event, v |-> x] \notin cb

(* A pointer is the set of its path, {} for nullptr.                       *)
CbDom == [root |-> Null, ref_stack |-> <<>>, keep_stack |-> <<TRUE>>,
          key_keep_stack |-> <<>>, object_element |-> <<>>]

Appended(d, path, v) ==
  LET a == Deref(d.root, path).array
  IN  [d |-> [d EXCEPT !.root = Store(@, path, Array(Append(a, v)))],
       at |-> {Append(path, Len(a) + 1)}]

(* handle_value: nothing is handled in a container that is not kept; the   *)
(* decision on the key is taken off its stack only when an object is there *)
(* to store into.                                                          *)
CbHandle(cb, d, v, skip) ==
  LET handled(path) ==
        LET popped == [d EXCEPT !.key_keep_stack = Front(@)]
        IN  IF Is(Deref(d.root, path), "array") THEN Appended(d, path, v)
            ELSE IF ~Last(d.key_keep_stack) THEN [d |-> popped, at |-> {}]
            ELSE [d |-> [popped EXCEPT !.root = Store(@, d.object_element, v)],
                  at |-> {d.object_element}]
  IN  IF ~Last(d.keep_stack) \/ ~(skip \/ Keeps(cb, Len(d.ref_stack), "value", v))
         \/ (d.ref_stack # <<>> /\ Last(d.ref_stack) = {})
      THEN [d |-> d, at |-> {}]
      ELSE IF d.ref_stack = <<>> THEN [d |-> [d EXCEPT !.root = v], at |-> {<<>>}]
      ELSE handled(CHOOSE path \in Last(d.ref_stack) : TRUE)

(* Mutant: the decision is pushed after the container has been handled.    *)
CbStartPushedLate(cb, d, event, v) ==
  LET keep == Keeps(cb, Len(d.ref_stack), event, Discarded)
      h == CbHandle(cb, d, v, TRUE)
  IN  [h.d EXCEPT !.ref_stack = Append(@, h.at), !.keep_stack = Append(@, keep)]

CbStart(cb, d, event, v) ==
  LET keep == Keeps(cb, Len(d.ref_stack), event, Discarded)
      h == CbHandle(cb, [d EXCEPT !.keep_stack = Append(@, keep)], v, TRUE)
  IN  [h.d EXCEPT !.ref_stack = Append(@, h.at)]

CbKey(cb, d, key) ==
  LET keep == Keeps(cb, Len(d.ref_stack), "key", String(key))
      noted == [d EXCEPT !.key_keep_stack = Append(@, keep)]
  IN  IF ~keep \/ Last(d.ref_stack) = {} THEN noted
      ELSE SetKey(noted, CHOOSE path \in Last(d.ref_stack) : TRUE, key, Discarded)

(* What end_array and end_object have in common: the container is          *)
(* discarded when the callback says so, and both stacks are popped.        *)
CbClosed(cb, d, event) ==
  LET gone == {path \in Last(d.ref_stack) :
                 ~Keeps(cb, Len(d.ref_stack) - 1, event, Deref(d.root, path))}
  IN  [kept |-> gone = {},
       d |-> [d EXCEPT !.root = FoldSet(LAMBDA path, root : Store(root, path, Discarded),
                                        @, gone),
                       !.ref_stack = Front(@), !.keep_stack = Front(@)]]

(* The parent, if it is there and of that type.                            *)
Parents(d, type) ==
  IF d.ref_stack = <<>> THEN {}
  ELSE {path \in Last(d.ref_stack) : Is(Deref(d.root, path), type)}

(* end_object: the first discarded element of the parent goes.             *)
CbEndObject(cb, d) ==
  LET c == CbClosed(cb, d, "object_end").d
      first(o) == SelectSeq(Keys(o), LAMBDA k : Is(o[k], "discarded"))
      erased(root, path) ==
        LET o == Deref(root, path).object
        IN  IF first(o) = <<>> THEN root
            ELSE Store(root, path, Object(Without(o, first(o)[1])))
  IN  [c EXCEPT !.root = FoldSet(LAMBDA path, root : erased(root, path), @,
                                 Parents(c, "object"))]

(* end_array: the array goes when its parent is an array.                  *)
CbEndArray(cb, d) ==
  LET c == CbClosed(cb, d, "array_end")
      popped(root, path) == Store(root, path, Array(Front(Deref(root, path).array)))
  IN  IF c.kept THEN c.d
      ELSE [c.d EXCEPT !.root = FoldSet(LAMBDA path, root : popped(root, path), @,
                                        Parents(c.d, "array"))]

CbEvent(cb, d, e) ==
  CASE e.event = "value" -> CbHandle(cb, d, e.value, FALSE).d
    [] e.event = "start_array" -> CbStart(cb, d, "array_start", Array(<<>>))
    [] e.event = "start_object" -> CbStart(cb, d, "object_start", Object(Empty))
    [] e.event = "key" -> CbKey(cb, d, e.value.string)
    [] e.event = "end_array" -> CbEndArray(cb, d)
    [] e.event = "end_object" -> CbEndObject(cb, d)
    [] OTHER -> d

(* parse with a callback; a root that was discarded becomes null.          *)
ParseFiltered(cb, tokens) ==
  LET r == SaxParse(tokens)
      root == FoldLeft(LAMBDA d, e : CbEvent(cb, d, e), CbDom, r.events).root
  IN  IF ~(r.ok /\ Ended(tokens, r)) THEN Discarded
      ELSE IF Is(root, "discarded") THEN Null ELSE root
=============================================================================
