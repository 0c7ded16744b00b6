------------------------------ MODULE IpAddress -----------------------------
(***************************************************************************)
(* ip_representation(const std::string&): the text of an address into      *)
(* sixteen pieces.  A text is the sequence of its fields between colons,   *)
(* the empty ones included, and without a colon it is one field.  A field  *)
(* is [kind, value]: "empty", "any" (a star), "hex" (one to four digits),  *)
(* "long" (more), "dotted" (its value is the sequence of its own fields,   *)
(* of kind "any" or "dec").                                                *)
(***************************************************************************)
EXTENDS Integers, Sequences, FiniteSets

CONSTANT AddressTexts

Octet == [kind : {"any"}] \cup [kind : {"dec"}, value : Nat]
Field == [kind : {"empty", "any", "long"}] \cup [kind : {"hex"}, value : Nat]
           \cup [kind : {"dotted"}, value : Seq(Octet)]

ASSUME AddressAssumption ==
  \A text \in AddressTexts : text \in Seq(Field) /\ text # <<>>

VARIABLES
  address,         (* the code's ip                                       *)
  verdict,         (* "unread", "filling", "accepted", "refused" (thrown) *)
  parts, part,     (* the fields as they are looped over, and where (the  *)
                   (* code's i)                                           *)
  omitted,         (* how many fields an empty one stands for             *)
  pieces, filled,  (* the pieces, and how many are written (the code's y) *)
  starred          (* the pieces whose bit in mask is cleared             *)

written == <<pieces, filled, starred>>
addressVars == <<address, verdict, parts, part, omitted, written>>

AddressInit ==
  /\ address \in AddressTexts
  /\ verdict = "unread"
  /\ parts = <<>> /\ part = 1 /\ omitted = 0
  /\ pieces = [k \in 0 .. 15 |-> 0] /\ filled = 0 /\ starred = {}

Kind(fields, j) == fields[j].kind
Empties(fields) == {j \in 1 .. Len(fields) : Kind(fields, j) = "empty"}
LastIsDotted(fields) == Kind(fields, Len(fields)) = "dotted"
Refuses == verdict' = "refused" /\ UNCHANGED <<address, parts, part, omitted, written>>

-----------------------------------------------------------------------------
(* IPv4, by itself or nested *)

(* strtol into an unsigned short, then the test against 255.               *)
OctetsOk(octets) ==
  /\ Len(octets) = 4
  /\ \A k \in 1 .. 4 : octets[k].kind = "dec" => octets[k].value % 65536 <= 255

PutOctets(octets) ==
  /\ pieces' = [k \in DOMAIN pieces |->
                  IF k >= 12 /\ octets[k - 11].kind = "dec"
                  THEN octets[k - 11].value % 65536 ELSE pieces[k]]
  /\ starred' = starred \cup {k \in 12 .. 15 : octets[k - 11].kind = "any"}

ReadIPv4 ==
  /\ verdict = "unread" /\ Len(address) = 1
  /\ IF Kind(address, 1) = "dotted" /\ OctetsOk(address[1].value)
     THEN PutOctets(address[1].value) /\ verdict' = "accepted"
     ELSE UNCHANGED <<pieces, starred>> /\ verdict' = "refused"
  /\ UNCHANGED <<address, parts, part, omitted, filled>>

-----------------------------------------------------------------------------
(* IPv6 *)

(* string_split drops an empty last field.                                 *)
AllButLast(fields) == SubSeq(fields, 1, Len(fields) - 1)
Fields == IF Kind(address, Len(address)) = "empty" THEN AllButLast(address) ELSE address

Several(fields) == Cardinality(Empties(fields)) > 1
Leading(fields) == Len(fields) >= 2 /\ Empties(fields) = {1, 2}

(* Mutant: the field that a leading "::" drops is not made up for.         *)
OmittedTooFew(fields) ==
  8 - (Len(fields) - 1)
    - (IF Several(fields) /\ LastIsDotted(fields) THEN 1 ELSE 0)

Omitted(fields) ==
  8 - (Len(fields) - 1)
    - (IF Several(fields) /\ LastIsDotted(fields) THEN 1 ELSE 0)
    + (IF Several(fields) THEN 1 ELSE 0)

Split ==
  /\ verdict = "unread" /\ Len(address) > 1
  /\ IF Len(Fields) > 8 \/ (Several(Fields) /\ ~Leading(Fields))
     THEN verdict' = "refused" /\ UNCHANGED <<parts, omitted>>
     ELSE /\ verdict' = "filling"
          /\ parts' = IF Several(Fields) THEN Tail(Fields) ELSE Fields
          /\ omitted' = Omitted(Fields)
  /\ UNCHANGED <<address, part, written>>

(* One turn of the loop over the parts, by their kind.                     *)
Fills(kind) == verdict = "filling" /\ part <= Len(parts) /\ Kind(parts, part) = kind

NextPart(n) ==
  /\ part' = part + 1 /\ filled' = filled + n
  /\ UNCHANGED <<address, verdict, parts, omitted>>

(* The pieces from filled on; what lies behind the last is memory, too.    *)
Put(bytes) ==
  pieces' = [k \in DOMAIN pieces \cup (filled .. filled + Len(bytes) - 1) |->
               IF k >= filled /\ k < filled + Len(bytes) THEN bytes[k - filled + 1] ELSE pieces[k]]

FillHex ==
  /\ Fills("hex")
  /\ Put(<<parts[part].value \div 256, parts[part].value % 256>>)
  /\ NextPart(2) /\ UNCHANGED starred

FillAny ==
  /\ Fills("any")
  /\ starred' = starred \cup {filled, filled + 1}
  /\ NextPart(2) /\ UNCHANGED pieces

FillOmitted ==
  /\ Fills("empty")
  /\ Put([k \in 1 .. 2 * omitted |-> 0])
  /\ NextPart(2 * omitted) /\ UNCHANGED starred

Nested ==
  /\ filled = 12 /\ part = Len(parts)
  /\ \A k \in 0 .. 9 : pieces[k] = 0
  /\ \A k \in {10, 11} : pieces[k] \in {0, 255}
  /\ OctetsOk(parts[part].value)

FillDotted ==
  /\ Fills("dotted") /\ Nested
  /\ PutOctets(parts[part].value)
  /\ NextPart(0)

RefusePart ==
  /\ Fills("long") \/ (Fills("dotted") /\ ~Nested)
  /\ Refuses

FillEnds ==
  /\ verdict = "filling" /\ part > Len(parts)
  /\ verdict' = "accepted"
  /\ UNCHANGED <<address, parts, part, omitted, written>>

AddressNext ==
  \/ ReadIPv4 \/ Split
  \/ FillHex \/ FillAny \/ FillOmitted \/ FillDotted \/ RefusePart \/ FillEnds

-----------------------------------------------------------------------------
(* Properties *)

(* Where a field stands: counted from the left before the first empty one  *)
(* and from the right behind it.                                           *)
Stop == IF Kind(address, Len(address)) = "empty" THEN Len(address) - 1 ELSE Len(address)
Spot(j) ==
  CASE Kind(address, j) = "dotted" -> 12
    [] \A k \in 1 .. j : Kind(address, k) # "empty" -> 2 * (j - 1)
    [] OTHER -> 16 - 2 * (Stop + 1 - j) - (IF Kind(address, Stop) = "dotted" THEN 2 ELSE 0)
Covers(j) ==
  CASE Kind(address, j) = "empty" -> {}
    [] Kind(address, j) = "dotted" -> 12 .. 15
    [] OTHER -> {Spot(j), Spot(j) + 1}

Holds(k, byte) == pieces[k] = byte /\ k \notin starred
HoldsAny(k) == pieces[k] = 0 /\ k \in starred

(* A field has put its bytes, or its star, where it stands.                *)
Stands(j) ==
  /\ Kind(address, j) = "hex" =>
       /\ Holds(Spot(j), address[j].value \div 256)
       /\ Holds(Spot(j) + 1, address[j].value % 256)
  /\ Kind(address, j) = "any" =>
       HoldsAny(Spot(j)) /\ HoldsAny(Spot(j) + 1)
  /\ Kind(address, j) = "dotted" =>
       \A k \in 1 .. 4 :
         LET octet == address[j].value[k]
         IN  /\ octet.kind = "any" => HoldsAny(11 + k)
             /\ octet.kind = "dec" => Holds(11 + k, octet.value % 65536)
  /\ Kind(address, j) # "long"

(* An address that is accepted has sixteen pieces, never more: each of its *)
(* fields is at its place, counted from the end that no omission separates *)
(* it from, a star names its pieces and no others, and what is omitted is  *)
(* zero.  An IPv4 address has the same meaning by itself and nested.       *)
AddressesFill ==
  /\ DOMAIN pieces = 0 .. 15 /\ starred \subseteq 0 .. 15
  /\ verdict = "accepted" =>
       /\ \A j \in 1 .. Len(address) : Stands(j)
       /\ \A k \in 0 .. 15 :
            k \notin UNION {Covers(j) : j \in 1 .. Len(address)} => Holds(k, 0)
=============================================================================
