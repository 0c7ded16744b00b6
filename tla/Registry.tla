------------------------------ MODULE Registry ------------------------------
(***************************************************************************)
(* The web server's table of resources: register_resource and              *)
(* unregister_resource over two maps, registered_resources, keyed by the   *)
(* normalised pattern, and registered_resources_str, keyed by the path as  *)
(* it was spelled, and the search of finalize_answer that uses both.       *)
(*                                                                         *)
(* A path is a sequence of pieces.  A piece is a literal or, in a pattern, *)
(* a parameter; Fold maps the spellings that differ in case, and all       *)
(* parameters, to one representative.                                      *)
(***************************************************************************)
EXTENDS Integers, Sequences, FiniteSets, FiniteSetsExt, Functions

CONSTANTS
  Patterns,    (* paths that are registered and unregistered               *)
  Paths,       (* paths that are asked for                                 *)
  Params,      (* the pieces {x}                                           *)
  Fold,        (* a piece as url_normalized compares it                    *)
  Rank,        (* the place of a folded piece in the alphabet              *)
  Width,       (* its characters                                           *)
  Resources,
  MaxCalls     (* bound: registrations and unregistrations                 *)

ASSUME RegistryAssumption ==
  /\ Patterns \cup Paths \subseteq Seq(DOMAIN Fold)
  /\ Fold \in [DOMAIN Fold -> DOMAIN Rank \ {"none"}]
  /\ Rank \in [DOMAIN Rank -> Nat]
  /\ \A p, q \in DOMAIN Rank : Rank[p] = Rank[q] => p = q
  /\ \A p \in DOMAIN Fold \cup DOMAIN Rank : Width[p] \in Nat

VARIABLES
  mode,                      (* "plain", "regex" or "single"               *)
  registered_resources,      (* key -> [url, family, resource]             *)
  registered_resources_str,  (* url -> resource                            *)
  calls,
  respelled    (* a pattern was removed in another spelling than its own   *)

tables == <<registered_resources, registered_resources_str>>
regVars == <<mode, tables, calls, respelled>>

(* url_normalized: case and the names of parameters do not count.          *)
Key(url) == [i \in 1 .. Len(url) |-> Fold[url[i]]]

(* Characters of the path as it is spelled, one slash before each piece.   *)
Length(url) ==
  LET upto[i \in 0 .. Len(url)] ==
        IF i = 0 THEN 0 ELSE upto[i - 1] + 1 + Width[url[i]]
  IN  upto[Len(url)]

Drop(f, x) == [y \in DOMAIN f \ {x} |-> f[y]]
Add(f, x, v) == [y \in DOMAIN f \cup {x} |-> IF y = x THEN v ELSE f[y]]

RegInit ==
  /\ mode \in {"plain", "regex", "single"}
  /\ registered_resources = [k \in {} |-> 0]
  /\ registered_resources_str = [u \in {} |-> 0]
  /\ calls = 0
  /\ respelled = FALSE

(* Mutant: the second map is written although the first refused.           *)
RegisterStrAnyway(url, resource, family) ==
  LET k == Key(url)
  IN  /\ registered_resources' =
           IF k \in DOMAIN registered_resources THEN registered_resources
           ELSE Add(registered_resources, k,
                    [url |-> url, family |-> family, resource |-> resource])
      /\ registered_resources_str' = Add(registered_resources_str, url, resource)

(* Neither insert replaces an entry, and the second is skipped when the    *)
(* first was refused.                                                      *)
Insert(url, resource, family) ==
  LET k == Key(url)
  IN  IF k \in DOMAIN registered_resources THEN UNCHANGED tables
      ELSE /\ registered_resources' =
                Add(registered_resources, k,
                    [url |-> url, family |-> family, resource |-> resource])
           /\ registered_resources_str' =
                IF url \in DOMAIN registered_resources_str
                THEN registered_resources_str
                ELSE Add(registered_resources_str, url, resource)

(* A single resource has to be a family at the root.                       *)
RegisterResource ==
  /\ calls < MaxCalls
  /\ \E url \in Patterns, resource \in Resources, family \in BOOLEAN :
       IF mode = "single" /\ ~(url = <<>> /\ family) THEN UNCHANGED tables
       ELSE Insert(url, resource, family)
  /\ calls' = calls + 1
  /\ UNCHANGED <<mode, respelled>>

(* Mutant: only the map of patterns is cleared.                            *)
EraseKeyOnly(url) ==
  /\ registered_resources' = Drop(registered_resources, Key(url))
  /\ UNCHANGED registered_resources_str

(* Each map drops what its own comparison finds.                           *)
Erase(url) ==
  /\ registered_resources' = Drop(registered_resources, Key(url))
  /\ registered_resources_str' = Drop(registered_resources_str, url)

UnregisterResource ==
  /\ calls < MaxCalls
  /\ \E url \in Patterns :
       /\ Erase(url)
       /\ respelled' = (respelled \/
            /\ Key(url) \in DOMAIN registered_resources
            /\ registered_resources[Key(url)].url # url)
  /\ calls' = calls + 1
  /\ UNCHANGED mode

-----------------------------------------------------------------------------
(* The search, as it stands in each state of the two maps. *)

(* match: the regular expression ignores case; a family is matched against *)
(* as many pieces as it has, if there are so many.                         *)
Match(key, family, path) ==
  LET given == IF family /\ Len(path) >= Len(key)
               THEN SubSeq(path, 1, Len(key)) ELSE path
  IN  /\ Len(given) = Len(key)
      /\ \A i \in 1 .. Len(key) : key[i] \in {"{}", Fold[given[i]]}

(* The order of the map: by the length of the normalised pattern, then     *)
(* character by character.                                                 *)
KeyBefore(a, b) ==
  \/ Length(a) < Length(b)
  \/ /\ Length(a) = Length(b)
     /\ \E i \in 1 .. Min({Len(a), Len(b)}) :
          /\ SubSeq(a, 1, i - 1) = SubSeq(b, 1, i - 1)
          /\ Rank[a[i]] < Rank[b[i]]

None == "none"
NoKey == <<"none">>

(* Mutant: of patterns with as many pieces the later one wins.             *)
BetterOrLater(key, best) ==
  best = NoKey \/ Len(key) >= Len(best)

(* More pieces win, then more characters.                                  *)
Better(key, best) ==
  \/ best = NoKey
  \/ Len(key) > Len(best)
  \/ /\ Len(key) = Len(best)
     /\ Length(registered_resources[key].url)
          > Length(registered_resources[best].url)

InOrder(keys) ==
  CHOOSE order \in [1 .. Cardinality(keys) -> keys] :
    \A i, j \in 1 .. Cardinality(keys) : i < j => KeyBefore(order[i], order[j])

(* The loop over the map.                                                  *)
Search(path) ==
  LET order == InOrder(DOMAIN registered_resources)
      best[i \in 0 .. Len(order)] ==
        IF i = 0 THEN NoKey
        ELSE IF /\ Better(order[i], best[i - 1])
                /\ Match(order[i], registered_resources[order[i]].family, path)
        THEN order[i] ELSE best[i - 1]
  IN  best[Len(order)]

(* A single resource is the first of the map, whatever is asked for; of an *)
(* empty map that is undefined, neither a resource nor the lack of one.    *)
Undefined == "undefined"
Find(path) ==
  IF mode = "single"
  THEN (IF DOMAIN registered_resources = {} THEN Undefined
        ELSE (CHOOSE e \in {registered_resources[k] :
                              k \in DOMAIN registered_resources} : TRUE).resource)
  ELSE IF path \in DOMAIN registered_resources_str
  THEN registered_resources_str[path]
  ELSE IF mode = "regex" /\ Search(path) # NoKey
  THEN registered_resources[Search(path)].resource
  ELSE None

(* set_arg: each parameter gets the piece at its place, the last one of    *)
(* two with one name stays.                                                *)
Args(key, path) ==
  LET url == registered_resources[key].url
      at(p) == {i \in 1 .. Len(url) : url[i] = p}
  IN  [p \in Params \cap {url[i] : i \in 1 .. Len(url)} |->
         path[CHOOSE i \in at(p) : \A j \in at(p) : j <= i]]

RegNext == RegisterResource \/ UnregisterResource

-----------------------------------------------------------------------------
(* Properties *)

(* As long as a resource is unregistered in the spelling it was registered *)
(* in, the two maps hold the same resources under the same paths, whatever *)
(* sequence of registrations and refused registrations led there.          *)
TablesAgree ==
  ~respelled =>
    /\ \A k \in DOMAIN registered_resources :
         LET e == registered_resources[k]
         IN  /\ e.url \in DOMAIN registered_resources_str
             /\ registered_resources_str[e.url] = e.resource
    /\ \A u \in DOMAIN registered_resources_str :
         /\ Key(u) \in DOMAIN registered_resources
         /\ registered_resources[Key(u)].url = u

(* A request goes to the resource registered under its very path, or else  *)
(* to one whose pattern matches, and no other matching pattern has more    *)
(* pieces, or as many and more characters; parameters get pieces of the    *)
(* request.  Without a match there is no resource.                         *)
MostSpecificWins ==
  mode = "regex" =>
    \A path \in Paths :
      LET matching == {k \in DOMAIN registered_resources :
                         Match(k, registered_resources[k].family, path)}
          size(k) == Length(registered_resources[k].url)
          found == Search(path)
      IN  IF path \in DOMAIN registered_resources_str
          THEN Find(path) = registered_resources_str[path]
          ELSE IF matching = {} THEN Find(path) = None
          ELSE /\ found \in matching
               /\ Find(path) = registered_resources[found].resource
               /\ \A k \in matching :
                    \/ Len(k) < Len(found)
                    \/ Len(k) = Len(found) /\ size(k) <= size(found)
               /\ \A p \in DOMAIN Args(found, path) :
                    Args(found, path)[p] \in Range(path)
=============================================================================
