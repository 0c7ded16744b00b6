---------------------------- MODULE AccessPolicy ----------------------------
(***************************************************************************)
(* The web server's bans and allowances: two std::set of                   *)
(* ip_representation, whose operator< compares weighted sums of the pieces *)
(* both sides name.  A "*" in an address names no piece, so that operator< *)
(* is no order once patterns are in the set, and what a search finds       *)
(* depends on the shape of the tree.  A set is therefore the sequence of   *)
(* its elements from left to right, and a search may end at every place    *)
(* between two elements at which a walk down some tree ends.               *)
(*                                                                         *)
(* The addresses are IPv4: pieces 12 to 15.                                *)
(***************************************************************************)
EXTENDS Integers, Sequences, FiniteSets, SequencesExt

CONSTANTS
  Addresses,   (* peers that connect: four octets each                     *)
  IpPatterns,  (* what is banned or allowed: four octets, or Star          *)
  Star,        (* the piece "*"                                            *)
  MaxEntries   (* bound: elements in one set                               *)

Place == 1 .. 4

ASSUME PolicyAssumption ==
  /\ Star \notin Nat
  /\ Addresses \subseteq [Place -> Nat]
  /\ IpPatterns \subseteq [Place -> Nat \cup {Star}]

VARIABLES
  default_policy,      (* "ACCEPT" or "REJECT"                              *)
  ban_system_enabled,
  bans, allowances,
  banned, allowed,     (* history: the sums banned and allowed by the calls *)
  patterned            (* history: a call named a pattern                   *)

polSettings == <<default_policy, ban_system_enabled>>
polVars == <<polSettings, bans, allowances, banned, allowed, patterned>>

Named(a, b) == {i \in Place : a[i] # Star /\ b[i] # Star}

(* Piece 12 weighs 4, piece 15 weighs 1.                                   *)
Score(a, places) ==
  LET part(i) == IF i \in places THEN (5 - i) * a[i] ELSE 0
  IN  part(1) + part(2) + part(3) + part(4)

Sum(a) == Score(a, Place)

Before(a, b) == Score(a, Named(a, b)) < Score(b, Named(a, b))

(* weight: the pieces an address names.                                    *)
Weight(a) == Cardinality({i \in Place : a[i] # Star})

IsPattern(a) == Weight(a) < 4

-----------------------------------------------------------------------------
(* std::set: the places where a walk down the tree may end. *)

LowerBounds(set, ip) ==
  {i \in 1 .. Len(set) + 1 :
     /\ i > 1 => Before(set[i - 1], ip)
     /\ i <= Len(set) => ~Before(set[i], ip)}

UpperBounds(set, ip) ==
  {i \in 1 .. Len(set) + 1 :
     /\ i > 1 => ~Before(ip, set[i - 1])
     /\ i <= Len(set) => Before(ip, set[i])}

(* find: 0 stands for end().                                               *)
Finds(set, ip) ==
  {IF i <= Len(set) /\ ~Before(ip, set[i]) THEN i ELSE 0 :
     i \in LowerBounds(set, ip)}

(* insert: refused next to an element that is not smaller.                 *)
Inserted(set, ip) ==
  {IF i > 1 /\ ~Before(set[i - 1], ip) THEN set ELSE InsertAt(set, i, ip) :
     i \in UpperBounds(set, ip)}

(* Mutant: the element found is the one after the address.                 *)
ErasedNext(set, ip) ==
  {IF i <= Len(set) THEN RemoveAt(set, i) ELSE set :
     i \in UpperBounds(set, ip)}

(* erase(key): what equal_range delimits.                                  *)
Erased(set, ip) ==
  {SubSeq(set, 1, r[1] - 1) \o SubSeq(set, r[2], Len(set)) :
     r \in {q \in LowerBounds(set, ip) \X UpperBounds(set, ip) :
              q[1] <= q[2]}}

(* ban_ip and allow_ip: an element that names more is replaced.            *)
AfterAdding(set, ip) ==
  UNION {IF at # 0 /\ Weight(ip) < Weight(set[at])
         THEN Inserted(RemoveAt(set, at), ip)
         ELSE Inserted(set, ip) : at \in Finds(set, ip)}

-----------------------------------------------------------------------------
PolInit ==
  /\ default_policy \in {"ACCEPT", "REJECT"}
  /\ ban_system_enabled \in BOOLEAN
  /\ bans = <<>> /\ allowances = <<>>
  /\ banned = {} /\ allowed = {}
  /\ patterned = FALSE

Noted(ip) == patterned' = (patterned \/ IsPattern(ip))

BanIp ==
  \E ip \in IpPatterns :
    /\ Len(bans) < MaxEntries
    /\ bans' \in AfterAdding(bans, ip)
    /\ banned' = IF IsPattern(ip) THEN banned ELSE banned \cup {Sum(ip)}
    /\ Noted(ip)
    /\ UNCHANGED <<polSettings, allowances, allowed>>

AllowIp ==
  \E ip \in IpPatterns :
    /\ Len(allowances) < MaxEntries
    /\ allowances' \in AfterAdding(allowances, ip)
    /\ allowed' = IF IsPattern(ip) THEN allowed ELSE allowed \cup {Sum(ip)}
    /\ Noted(ip)
    /\ UNCHANGED <<polSettings, bans, banned>>

UnbanIp ==
  \E ip \in IpPatterns :
    /\ bans' \in Erased(bans, ip)
    /\ banned' = IF IsPattern(ip) THEN banned ELSE banned \ {Sum(ip)}
    /\ Noted(ip)
    /\ UNCHANGED <<polSettings, allowances, allowed>>

DisallowIp ==
  \E ip \in IpPatterns :
    /\ allowances' \in Erased(allowances, ip)
    /\ allowed' = IF IsPattern(ip) THEN allowed ELSE allowed \ {Sum(ip)}
    /\ Noted(ip)
    /\ UNCHANGED <<polSettings, bans, banned>>

(* count, by one search each: every outcome a tree allows.                 *)
Counts(set, ip) == {at # 0 : at \in Finds(set, ip)}

(* policy_callback: the answers a connection from ip may get.              *)
Admits(ip) ==
  IF ~ban_system_enabled THEN {TRUE}
  ELSE {~(\/ default_policy = "ACCEPT" /\ b /\ ~a
          \/ default_policy = "REJECT" /\ (~a \/ b)) :
        b \in Counts(bans, ip), a \in Counts(allowances, ip)}

PolNext == BanIp \/ AllowIp \/ UnbanIp \/ DisallowIp

-----------------------------------------------------------------------------
(* As long as every call names whole addresses, a peer is admitted or      *)
(* refused, and always the same, by what was last said of the addresses    *)
(* with its weighted sum, in whatever order bans, allowances and their     *)
(* withdrawals came: bans win where the rule is to refuse, allowances      *)
(* where it is to admit.                                                   *)
PolicyFollowsCalls ==
  (ban_system_enabled /\ ~patterned) =>
    \A ip \in Addresses :
      LET said == <<Sum(ip) \in banned, Sum(ip) \in allowed>>
      IN  Admits(ip) =
            {CASE default_policy = "ACCEPT" -> said # <<TRUE, FALSE>>
               [] default_policy = "REJECT" -> said = <<FALSE, TRUE>>}
=============================================================================
