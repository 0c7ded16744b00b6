---------------------------- MODULE RegistryProofs ----------------------------
(***************************************************************************)
(* The two maps of the web server's registry, for any patterns, resources  *)
(* and number of calls: what one map holds the other holds too, until a    *)
(* pattern is removed in another spelling than it was registered in; and   *)
(* the search over the first map ends with the most specific match.        *)
(***************************************************************************)
EXTENDS Registry, Iteration, SequenceTheorems, TLAPS

RegSpec == RegInit /\ [][RegNext]_regVars

(* What the properties need to be inductive, and what the search needs of  *)
(* the map: finitely many patterns, each under the key of its own path.    *)
(* Without the key, removing a path could take another entry's path out of *)
(* the second map.                                                         *)
MapOfPatterns ==
  /\ IsFiniteSet(DOMAIN registered_resources)
  /\ \A k \in DOMAIN registered_resources :
       /\ registered_resources[k].url \in Patterns
       /\ Key(registered_resources[k].url) = k

RegInv ==
  /\ respelled \in BOOLEAN
  /\ MapOfPatterns
  /\ TablesAgree

LEMMA InitRegInv == RegInit => RegInv
BY FS_EmptySet DEF RegInit, RegInv, MapOfPatterns, TablesAgree

LEMMA InsertKeeps ==
  ASSUME RegInv, NEW url \in Patterns, NEW resource, NEW family,
         Insert(url, resource, family), UNCHANGED respelled
  PROVE  RegInv'
<1> DEFINE k == Key(url)
           e == [url |-> url, family |-> family, resource |-> resource]
<1>1. CASE k \in DOMAIN registered_resources
  BY <1>1 DEF Insert, tables, RegInv, MapOfPatterns, TablesAgree
<1>2. CASE k \notin DOMAIN registered_resources
  <2>1. registered_resources' = Add(registered_resources, k, e)
    BY <1>2 DEF Insert
  <2> HIDE DEF e
  <2>2. /\ DOMAIN registered_resources' = DOMAIN registered_resources \cup {k}
        /\ registered_resources'[k] = e
        /\ \A l \in DOMAIN registered_resources :
             registered_resources'[l] = registered_resources[l]
    BY <1>2, <2>1 DEF Add
  <2>3. MapOfPatterns'
    <3>1. IsFiniteSet(DOMAIN registered_resources \cup {k})
      BY FS_AddElement DEF RegInv, MapOfPatterns
    <3> QED
      BY <2>2, <3>1 DEF RegInv, MapOfPatterns, Key, e
  <2>4. ASSUME ~respelled PROVE TablesAgree'
    <3>1. url \notin DOMAIN registered_resources_str
      BY <1>2, <2>4 DEF RegInv, TablesAgree
    <3>2. registered_resources_str' = Add(registered_resources_str, url, resource)
      BY <1>2, <3>1 DEF Insert
    <3>3. /\ DOMAIN registered_resources_str' = DOMAIN registered_resources_str \cup {url}
          /\ registered_resources_str'[url] = resource
          /\ \A u \in DOMAIN registered_resources_str :
               registered_resources_str'[u] = registered_resources_str[u]
      BY <3>1, <3>2 DEF Add
    <3> HIDE DEF k
    <3>4. \A l \in DOMAIN registered_resources' :
            /\ registered_resources'[l].url \in DOMAIN registered_resources_str'
            /\ registered_resources_str'[registered_resources'[l].url]
                 = registered_resources'[l].resource
      BY <2>2, <2>4, <3>1, <3>3 DEF RegInv, TablesAgree, e
    <3>5. \A u \in DOMAIN registered_resources_str' :
            /\ Key(u) \in DOMAIN registered_resources'
            /\ registered_resources'[Key(u)].url = u
      BY <2>2, <2>4, <3>3 DEF RegInv, TablesAgree, k, e
    <3> QED
      BY <3>4, <3>5 DEF TablesAgree, Key
  <2> QED
    BY <2>3, <2>4 DEF RegInv, TablesAgree
<1> QED
  BY <1>1, <1>2

LEMMA EraseKeeps ==
  ASSUME RegInv, NEW url, Erase(url),
         respelled' = (respelled \/
            /\ Key(url) \in DOMAIN registered_resources
            /\ registered_resources[Key(url)].url # url)
  PROVE  RegInv'
<1> DEFINE k == Key(url)
<1>1. /\ DOMAIN registered_resources' = DOMAIN registered_resources \ {k}
      /\ \A l \in DOMAIN registered_resources' :
           registered_resources'[l] = registered_resources[l]
  BY DEF Erase, Drop
<1>2. /\ DOMAIN registered_resources_str' = DOMAIN registered_resources_str \ {url}
      /\ \A u \in DOMAIN registered_resources_str' :
           registered_resources_str'[u] = registered_resources_str[u]
  BY DEF Erase, Drop
<1>3. MapOfPatterns'
  <2>1. IsFiniteSet(DOMAIN registered_resources \ {k})
    BY FS_RemoveElement DEF RegInv, MapOfPatterns
  <2> QED
    BY <1>1, <2>1 DEF RegInv, MapOfPatterns, Key
<1>4. ASSUME ~respelled' PROVE TablesAgree'
  <2>1. ~respelled /\ (k \in DOMAIN registered_resources => registered_resources[k].url = url)
    BY <1>4 DEF RegInv
  (* Another entry has another path: an entry is found under its path's key. *)
  <2>2. \A l \in DOMAIN registered_resources' :
          /\ registered_resources'[l].url \in DOMAIN registered_resources_str'
          /\ registered_resources_str'[registered_resources'[l].url]
               = registered_resources'[l].resource
    BY <1>1, <1>2, <2>1 DEF RegInv, TablesAgree, MapOfPatterns
  (* A path of the same key is the path removed.                             *)
  <2>3. \A u \in DOMAIN registered_resources_str' :
          /\ Key(u) \in DOMAIN registered_resources'
          /\ registered_resources'[Key(u)].url = u
    BY <1>1, <1>2, <2>1 DEF RegInv, TablesAgree
  <2> QED
    BY <2>2, <2>3 DEF TablesAgree, Key
<1> QED
  BY <1>3, <1>4 DEF RegInv, TablesAgree

LEMMA NextRegInv == RegInv /\ [RegNext]_regVars => RegInv'
<1> SUFFICES ASSUME RegInv, [RegNext]_regVars PROVE RegInv'
  OBVIOUS
<1>1. ASSUME UNCHANGED <<tables, respelled>> PROVE RegInv'
  BY <1>1 DEF tables, RegInv, MapOfPatterns, TablesAgree
<1>2. CASE RegisterResource
  <2>1. PICK url \in Patterns, resource \in Resources, family \in BOOLEAN :
          UNCHANGED tables \/ Insert(url, resource, family)
    BY <1>2 DEF RegisterResource
  <2> QED
    BY <1>1, <1>2, <2>1, InsertKeeps DEF RegisterResource
<1>3. CASE UnregisterResource
  BY <1>3, EraseKeeps DEF UnregisterResource
<1> QED
  BY <1>1, <1>2, <1>3 DEF RegNext, regVars

(* register_resource's two inserts and unregister_resource's two erases    *)
(* keep the maps one table, as long as nobody removes a pattern in another *)
(* spelling than its own.                                                  *)
THEOREM TablesStayOne == RegSpec => []TablesAgree
<1>1. RegInv => TablesAgree
  BY DEF RegInv
<1> QED
  BY <1>1, InitRegInv, NextRegInv, PTL DEF RegSpec

-----------------------------------------------------------------------------
(* The comparison of endpoints *)

Spelled == DOMAIN Fold \cup DOMAIN Rank
Keys == Seq(DOMAIN Rank)

LEMMA KeyOfPattern ==
  ASSUME NEW url \in Patterns \cup Paths
  PROVE  /\ url \in Seq(Spelled) /\ Len(url) \in Nat
         /\ Key(url) \in Keys /\ Len(Key(url)) = Len(url)
         /\ Key(url) # NoKey
<1>1. url \in Seq(DOMAIN Fold)
  BY RegistryAssumption
<1>2. /\ Len(url) \in Nat
      /\ \A i \in 1 .. Len(url) : url[i] \in DOMAIN Fold /\ Fold[url[i]] \in DOMAIN Rank \ {"none"}
  BY <1>1, RegistryAssumption
<1>3. Key(url) \in Seq(DOMAIN Rank) /\ Len(Key(url)) = Len(url)
  BY <1>2 DEF Key
<1>4. url \in Seq(Spelled)
  BY <1>1, SeqMonotonic DEF Spelled
<1>5. ASSUME Key(url) = NoKey PROVE FALSE
  <2>1. Len(url) = 1 /\ Key(url)[1] = "none"
    BY <1>3, <1>5 DEF NoKey
  <2> QED
    BY <1>2, <2>1 DEF Key
<1> QED
  BY <1>2, <1>3, <1>4, <1>5 DEF Keys

(* The characters up to each piece.                                        *)
CountsUp(u, url) ==
  /\ u \in [0 .. Len(url) -> Nat]
  /\ u[0] = 0
  /\ \A i \in 1 .. Len(url) : u[i] = u[i - 1] + 1 + Width[url[i]]

LEMMA LengthCounts ==
  ASSUME NEW url \in Seq(Spelled)
  PROVE  \E u : CountsUp(u, url) /\ Length(url) = u[Len(url)]
<1> DEFINE n == Len(url)
           step == [p \in Nat \X (1 .. n) |-> p[1] + 1 + Width[url[p[2]]]]
           IsUpTo(f) == f = [i \in 0 .. Len(url) |->
                               IF i = 0 THEN 0 ELSE f[i - 1] + 1 + Width[url[i]]]
<1>1. n \in Nat /\ \A i \in 1 .. n : Width[url[i]] \in Nat
  BY RegistryAssumption DEF Spelled
<1>2. step \in [Nat \X (1 .. n) -> Nat]
  BY <1>1
<1>3. PICK g : IsLoop(g, n, Nat, 0, step)
  <2>1. 0 \in Nat
    OBVIOUS
  <2> HIDE DEF step, n
  <2> QED
    BY <1>1, <1>2, <2>1, LoopExists
<1>4. ASSUME NEW i \in 1 .. n PROVE g[i] = g[i - 1] + 1 + Width[url[i]]
  <2>1. i - 1 \in 0 .. n
    BY <1>1
  <2>2. <<g[i - 1], i>> \in Nat \X (1 .. n)
    BY <1>3, <2>1 DEF IsLoop
  <2> QED
    BY <1>3, <2>2 DEF IsLoop
<1>5. IsUpTo(g)
  BY <1>1, <1>3, <1>4 DEF IsLoop
<1>6. Length(url) = (CHOOSE f : IsUpTo(f))[Len(url)]
  BY DEF Length
<1>7. PICK f : IsUpTo(f) /\ Length(url) = f[Len(url)]
  <2> HIDE DEF IsUpTo
  <2> QED
    BY <1>5, <1>6
<1>8. f[0] = 0 /\ \A i \in 1 .. n : f[i] = f[i - 1] + 1 + Width[url[i]]
  BY <1>1, <1>7
<1>9. \A i \in 0 .. n : f[i] \in Nat
  <2> DEFINE T == {i \in 0 .. n : f[i] \in Nat}
  <2>1. 0 \in T /\ \A i \in 0 .. n - 1 : i \in T => i + 1 \in T
    <3>1. \A i \in 0 .. n - 1 : i + 1 \in 1 .. n /\ i + 1 - 1 = i
      BY <1>1
    <3> QED
      BY <1>1, <1>8, <3>1
  <2>2. \A i \in 0 .. n : i \in T
    <3> HIDE DEF T, n
    <3> QED
      BY <1>1, <2>1, AfterEveryTurn
  <2> QED
    BY <2>2
<1>10. CountsUp(f, url)
  BY <1>7, <1>8, <1>9 DEF CountsUp
<1> QED
  BY <1>7, <1>10

LEMMA LengthIsNatural == \A url \in Seq(Spelled) : Length(url) \in Nat
<1> SUFFICES ASSUME NEW url \in Seq(Spelled) PROVE Length(url) \in Nat
  OBVIOUS
<1>1. PICK u : CountsUp(u, url) /\ Length(url) = u[Len(url)]
  BY LengthCounts
<1>2. Len(url) \in 0 .. Len(url)
  OBVIOUS
<1> QED
  BY <1>1, <1>2 DEF CountsUp

(* Each piece has at least its slash.                                      *)
LEMMA PrefixIsShorter ==
  ASSUME NEW a \in Seq(Spelled), NEW b \in Seq(Spelled), Len(a) < Len(b),
         \A i \in 1 .. Len(a) : a[i] = b[i]
  PROVE  Length(a) < Length(b)
<1>1. PICK u : CountsUp(u, a) /\ Length(a) = u[Len(a)]
  BY LengthCounts
<1>2. PICK v : CountsUp(v, b) /\ Length(b) = v[Len(b)]
  BY LengthCounts
<1> DEFINE m == Len(a)
           d == Len(b) - Len(a)
<1>3. m \in Nat /\ d \in Nat \ {0} /\ Len(b) = m + d
  OBVIOUS
<1>4. u[m] = v[m]
  <2> DEFINE T == {i \in 0 .. m : u[i] = v[i]}
  <2>1. 0 \in T
    BY <1>1, <1>2, <1>3 DEF CountsUp
  <2>2. ASSUME NEW i \in 0 .. m - 1, i \in T PROVE i + 1 \in T
    <3>1. i + 1 \in 1 .. m /\ i + 1 \in 1 .. Len(b) /\ i + 1 - 1 = i
      BY <1>3
    <3>2. u[i + 1] = u[i] + 1 + Width[a[i + 1]] /\ v[i + 1] = v[i] + 1 + Width[b[i + 1]]
      BY <1>1, <1>2, <3>1 DEF CountsUp
    <3> QED
      BY <2>2, <3>1, <3>2
  <2>3. \A i \in 0 .. m : i \in T
    <3> HIDE DEF T, m
    <3> QED
      BY <1>3, <2>1, <2>2, AfterEveryTurn
  <2> QED
    BY <1>3, <2>3
<1>5. v[m + d] >= v[m] + d
  <2> DEFINE T == {k \in 0 .. d : v[m + k] >= v[m] + k}
  <2>1. \A k \in 0 .. d : m + k \in 0 .. Len(b) /\ v[m + k] \in Nat
    BY <1>2, <1>3 DEF CountsUp
  <2>2. 0 \in T
    BY <1>3, <2>1
  <2>3. ASSUME NEW k \in 0 .. d - 1, k \in T PROVE k + 1 \in T
    <3>1. m + (k + 1) \in 1 .. Len(b) /\ m + (k + 1) - 1 = m + k /\ k + 1 \in 0 .. d
      BY <1>3
    <3>2. v[m + (k + 1)] = v[m + k] + 1 + Width[b[m + (k + 1)]]
      BY <1>2, <3>1 DEF CountsUp
    <3>3. Width[b[m + (k + 1)]] \in Nat
      <4> DEFINE i == m + (k + 1)
      <4>1. i \in 1 .. Len(b)
        BY <3>1
      <4> HIDE DEF i
      <4>2. b[i] \in Spelled
        BY <4>1
      <4>3. Width[b[i]] \in Nat
        BY <4>2, RegistryAssumption DEF Spelled
      <4> QED
        BY <4>3 DEF i
    <3>4. v[m + k] \in Nat /\ v[m] \in Nat /\ v[m + k] >= v[m] + k
      BY <1>3, <2>1, <2>3
    <3>5. v[m + (k + 1)] >= v[m] + (k + 1)
      BY <3>2, <3>3, <3>4
    <3> QED
      BY <3>1, <3>5
  <2>4. \A k \in 0 .. d : k \in T
    <3> HIDE DEF T, d, m
    <3> QED
      BY <1>3, <2>2, <2>3, AfterEveryTurn
  <2> QED
    BY <1>3, <2>4
<1>6. v[m] \in Nat /\ v[m + d] \in Nat
  BY <1>2, <1>3 DEF CountsUp
<1>7. Length(a) = v[m] /\ Length(b) = v[m + d]
  BY <1>1, <1>2, <1>3, <1>4
<1> HIDE DEF m, d
<1> QED
  BY <1>3, <1>5, <1>6, <1>7

(* The first piece in which two keys differ comes earlier in a.            *)
DiffersAt(a, b, i) ==
  /\ i \in 1 .. Len(a) /\ i \in 1 .. Len(b)
  /\ \A j \in 1 .. i - 1 : a[j] = b[j]
  /\ Rank[a[i]] < Rank[b[i]]

LEMMA KeyBeforeMeans ==
  ASSUME NEW a \in Keys, NEW b \in Keys
  PROVE  KeyBefore(a, b) <=>
           \/ Length(a) < Length(b)
           \/ Length(a) = Length(b) /\ \E i \in Nat : DiffersAt(a, b, i)
<1> DEFINE m == Min({Len(a), Len(b)})
<1>1. Len(a) \in Nat /\ Len(b) \in Nat
  BY DEF Keys
<1>2. m \in {Len(a), Len(b)} /\ m <= Len(a) /\ m <= Len(b)
  BY <1>1 DEF Min
<1>3. ASSUME NEW i \in 1 .. m
      PROVE  SubSeq(a, 1, i - 1) = SubSeq(b, 1, i - 1) <=> \A j \in 1 .. i - 1 : a[j] = b[j]
  <2>1. \A j \in 1 .. i - 1 : a[j] \in DOMAIN Rank /\ b[j] \in DOMAIN Rank
    BY <1>1, <1>2 DEF Keys
  <2>2. /\ SubSeq(a, 1, i - 1) \in Keys /\ Len(SubSeq(a, 1, i - 1)) = i - 1
        /\ \A j \in 1 .. i - 1 : SubSeq(a, 1, i - 1)[j] = a[j]
    BY <1>1, <1>2, <2>1 DEF Keys
  <2>3. /\ SubSeq(b, 1, i - 1) \in Keys /\ Len(SubSeq(b, 1, i - 1)) = i - 1
        /\ \A j \in 1 .. i - 1 : SubSeq(b, 1, i - 1)[j] = b[j]
    BY <1>1, <1>2, <2>1 DEF Keys
  <2>4. (\A j \in 1 .. i - 1 : a[j] = b[j]) => SubSeq(a, 1, i - 1) = SubSeq(b, 1, i - 1)
    BY <2>2, <2>3, SeqEqual DEF Keys
  <2> QED
    BY <2>2, <2>3, <2>4
<1>4. \A i : i \in 1 .. m <=> i \in 1 .. Len(a) /\ i \in 1 .. Len(b)
  BY <1>1, <1>2
<1> HIDE DEF m
<1>5. (\E i \in 1 .. m : /\ SubSeq(a, 1, i - 1) = SubSeq(b, 1, i - 1)
                         /\ Rank[a[i]] < Rank[b[i]])
        <=> \E i \in Nat : DiffersAt(a, b, i)
  BY <1>1, <1>3, <1>4 DEF DiffersAt
<1> QED
  BY <1>5 DEF KeyBefore, m

LEMMA KeysAreSpelled == \A a \in Keys : a \in Seq(Spelled) /\ Length(a) \in Nat /\ Len(a) \in Nat
BY LengthIsNatural, SeqMonotonic DEF Keys, Spelled

LEMMA KeyBeforeIrreflexive == \A a \in Keys : ~KeyBefore(a, a)
<1> SUFFICES ASSUME NEW a \in Keys, KeyBefore(a, a) PROVE FALSE
  OBVIOUS
<1>1. PICK i \in Nat : DiffersAt(a, a, i)
  BY KeyBeforeMeans, KeysAreSpelled
<1>2. Rank[a[i]] \in Nat
  BY <1>1, RegistryAssumption DEF DiffersAt, Keys
<1> QED
  BY <1>1, <1>2 DEF DiffersAt

LEMMA KeyBeforeTransitive ==
  ASSUME NEW a \in Keys, NEW b \in Keys, NEW c \in Keys,
         KeyBefore(a, b), KeyBefore(b, c)
  PROVE  KeyBefore(a, c)
<1>1. /\ Length(a) \in Nat /\ Length(b) \in Nat /\ Length(c) \in Nat
      /\ Len(a) \in Nat /\ Len(b) \in Nat /\ Len(c) \in Nat
  BY KeysAreSpelled
<1>2. CASE Length(a) < Length(b) \/ Length(b) < Length(c)
  <2>1. Length(a) < Length(c)
    BY <1>1, <1>2, KeyBeforeMeans
  <2> QED
    BY <2>1, KeyBeforeMeans
<1>3. CASE ~(Length(a) < Length(b)) /\ ~(Length(b) < Length(c))
  <2>1. /\ Length(a) = Length(b) /\ \E i \in Nat : DiffersAt(a, b, i)
        /\ Length(b) = Length(c) /\ \E i \in Nat : DiffersAt(b, c, i)
    BY <1>1, <1>3, KeyBeforeMeans
  <2>2. PICK i \in Nat : DiffersAt(a, b, i)
    BY <2>1
  <2>3. PICK j \in Nat : DiffersAt(b, c, j)
    BY <2>1
  <2>4. \A s \in Keys : \A k \in 1 .. Len(s) : Rank[s[k]] \in Nat
    BY RegistryAssumption DEF Keys
  <2>5. CASE i < j
    <3>1. DiffersAt(a, c, i)
      BY <1>1, <2>2, <2>3, <2>5 DEF DiffersAt
    <3> QED
      BY <2>1, <3>1, KeyBeforeMeans
  <2>6. CASE i = j
    <3>1. Rank[a[i]] < Rank[c[i]]
      BY <2>2, <2>3, <2>4, <2>6 DEF DiffersAt
    <3>2. DiffersAt(a, c, i)
      BY <1>1, <2>2, <2>3, <2>6, <3>1 DEF DiffersAt
    <3> QED
      BY <2>1, <3>2, KeyBeforeMeans
  <2>7. CASE i > j
    <3>1. DiffersAt(a, c, j)
      BY <1>1, <2>2, <2>3, <2>7 DEF DiffersAt
    <3> QED
      BY <2>1, <3>1, KeyBeforeMeans
  <2> QED
    BY <2>5, <2>6, <2>7
<1> QED
  BY <1>2, <1>3

LEMMA KeyBeforeTotal ==
  ASSUME NEW a \in Keys, NEW b \in Keys, a # b
  PROVE  KeyBefore(a, b) \/ KeyBefore(b, a)
<1>1. /\ Length(a) \in Nat /\ Length(b) \in Nat
      /\ Len(a) \in Nat /\ Len(b) \in Nat
      /\ a \in Seq(Spelled) /\ b \in Seq(Spelled)
  BY KeysAreSpelled
<1>2. CASE Length(a) # Length(b)
  BY <1>1, <1>2, KeyBeforeMeans
<1>3. CASE Length(a) = Length(b)
  <2> DEFINE D == {i \in Nat : i \in 1 .. Len(a) /\ i \in 1 .. Len(b) /\ a[i] # b[i]}
  <2>1. CASE D # {}
    <3>1. PICK i \in D : \A j \in D : i <= j
      <4>1. D \subseteq Nat
        OBVIOUS
      <4> HIDE DEF D
      <4> QED
        BY <2>1, <4>1, LeastNatural
    <3>2. \A j \in 1 .. i - 1 : a[j] = b[j]
      <4> SUFFICES ASSUME NEW j \in 1 .. i - 1, a[j] # b[j] PROVE FALSE
        OBVIOUS
      <4>1. j \in D /\ j < i
        BY <1>1
      <4> QED
        BY <3>1, <4>1
    <3>3. /\ a[i] \in DOMAIN Rank /\ b[i] \in DOMAIN Rank /\ a[i] # b[i]
      BY DEF Keys
    <3>4. Rank[a[i]] < Rank[b[i]] \/ Rank[b[i]] < Rank[a[i]]
      BY <3>3, RegistryAssumption
    <3>5. DiffersAt(a, b, i) \/ DiffersAt(b, a, i)
      BY <3>2, <3>4 DEF DiffersAt
    <3> QED
      BY <1>3, <3>5, KeyBeforeMeans
  <2>2. CASE D = {}
    <3>1. \A i \in 1 .. Len(a) : i \in 1 .. Len(b) => a[i] = b[i]
      BY <1>1, <2>2
    <3>2. Len(a) # Len(b)
      <4> SUFFICES ASSUME Len(a) = Len(b) PROVE FALSE
        OBVIOUS
      <4> QED
        BY <1>1, <3>1, SeqEqual
    <3>3. CASE Len(a) < Len(b)
      <4>1. \A i \in 1 .. Len(a) : a[i] = b[i]
        BY <1>1, <3>1, <3>3
      <4>2. Length(a) < Length(b)
        BY <1>1, <3>3, <4>1, PrefixIsShorter
      <4> QED
        BY <1>1, <1>3, <4>2
    <3>4. CASE Len(b) < Len(a)
      <4>1. \A i \in 1 .. Len(b) : b[i] = a[i]
        BY <1>1, <3>1, <3>4
      <4>2. Length(b) < Length(a)
        BY <1>1, <3>4, <4>1, PrefixIsShorter
      <4> QED
        BY <1>1, <1>3, <4>2
    <3> QED
      BY <1>1, <3>2, <3>3, <3>4
  <2> QED
    BY <2>1, <2>2
<1> QED
  BY <1>2, <1>3

-----------------------------------------------------------------------------
(* The map's enumeration of its keys *)

(* f lists the n elements of keys in the map's order.                      *)
Lists(f, n, keys) ==
  /\ f \in [1 .. n -> keys]
  /\ \A i, j \in 1 .. n : i < j => KeyBefore(f[i], f[j])

InsertedAt(f, n, p, x) ==
  [i \in 1 .. n + 1 |-> IF i < p THEN f[i] ELSE IF i = p THEN x ELSE f[i - 1]]

(* One more key goes before the first that it precedes.                    *)
LEMMA OneMoreListed ==
  ASSUME NEW keys, keys \subseteq Keys, NEW n \in Nat, NEW f, Lists(f, n, keys),
         NEW x \in Keys, x \notin keys
  PROVE  \E h : Lists(h, n + 1, keys \cup {x})
<1> DEFINE P == {p \in 1 .. n + 1 : \A i \in p .. n : KeyBefore(x, f[i])}
<1>1. PICK p \in P : \A q \in P : p <= q
  <2>1. P \subseteq Nat /\ n + 1 \in P
    OBVIOUS
  <2> HIDE DEF P
  <2> QED
    BY <2>1, LeastNatural
<1>2. p \in 1 .. n + 1 /\ \A i \in p .. n : KeyBefore(x, f[i])
  OBVIOUS
<1>3. \A i \in 1 .. n : f[i] \in keys /\ f[i] \in Keys /\ f[i] # x
  BY DEF Lists
<1>4. \A i, j \in 1 .. n : i < j => KeyBefore(f[i], f[j])
  BY DEF Lists
<1>5. ASSUME NEW i \in 1 .. p - 1 PROVE KeyBefore(f[i], x)
  <2>1. p - 1 \in 1 .. n /\ i \in 1 .. n
    BY <1>2
  <2>2. ~KeyBefore(x, f[p - 1])
    <3> SUFFICES ASSUME KeyBefore(x, f[p - 1]) PROVE FALSE
      OBVIOUS
    <3>1. \A k \in p - 1 .. n : KeyBefore(x, f[k])
      BY <1>2
    <3>2. p - 1 \in P
      BY <2>1, <3>1
    <3>3. p <= p - 1
      BY <1>1, <3>2
    <3> QED
      BY <1>2, <3>3
  <2>3. KeyBefore(f[p - 1], x)
    BY <1>3, <2>1, <2>2, KeyBeforeTotal
  <2>4. CASE i = p - 1
    BY <2>3, <2>4
  <2>5. CASE i # p - 1
    <3>1. KeyBefore(f[i], f[p - 1])
      BY <1>2, <1>4, <2>1, <2>5
    <3> QED
      BY <1>3, <2>1, <2>3, <3>1, KeyBeforeTransitive
  <2> QED
    BY <2>4, <2>5
<1> HIDE DEF P
<1> DEFINE h == InsertedAt(f, n, p, x)
<1>6. /\ \A i \in 1 .. n + 1 : i < p => i \in 1 .. n /\ h[i] = f[i]
      /\ h[p] = x
      /\ \A i \in 1 .. n + 1 : i > p => i - 1 \in 1 .. n /\ h[i] = f[i - 1]
  BY <1>2 DEF InsertedAt
<1>7. h \in [1 .. n + 1 -> keys \cup {x}]
  <2>1. ASSUME NEW i \in 1 .. n + 1 PROVE h[i] \in keys \cup {x}
    <3>1. i < p \/ i = p \/ i > p
      BY <1>2
    <3> QED
      BY <1>3, <1>6, <3>1
  <2>2. h = [i \in 1 .. n + 1 |-> h[i]]
    BY DEF InsertedAt
  <2> HIDE DEF h
  <2> QED
    BY <2>1, <2>2
<1> HIDE DEF h
<1>8. ASSUME NEW i \in 1 .. n + 1, NEW j \in 1 .. n + 1, i < j
      PROVE  KeyBefore(h[i], h[j])
  <2>1. CASE j < p
    <3>1. i < p /\ i \in 1 .. n /\ j \in 1 .. n
      BY <1>2, <1>8, <2>1
    <3> QED
      BY <1>4, <1>6, <1>8, <2>1, <3>1
  <2>2. CASE j = p
    <3>1. i < p /\ i \in 1 .. p - 1
      BY <1>2, <1>8, <2>2
    <3> QED
      BY <1>5, <1>6, <2>2, <3>1
  <2>3. CASE j > p /\ i < p
    <3>1. i \in 1 .. n /\ j - 1 \in 1 .. n /\ i < j - 1
      BY <1>2, <2>3
    <3> QED
      BY <1>4, <1>6, <2>3, <3>1
  <2>4. CASE j > p /\ i = p
    <3>1. j - 1 \in p .. n
      BY <1>2, <2>4
    <3> QED
      BY <1>2, <1>6, <2>4, <3>1
  <2>5. CASE j > p /\ i > p
    <3>1. i - 1 \in 1 .. n /\ j - 1 \in 1 .. n /\ i - 1 < j - 1
      BY <1>2, <1>8, <2>5
    <3> QED
      BY <1>4, <1>6, <2>5, <3>1
  <2> QED
    BY <1>2, <2>1, <2>2, <2>3, <2>4, <2>5
<1>9. Lists(h, n + 1, keys \cup {x})
  BY <1>7, <1>8 DEF Lists
<1> QED
  BY <1>9

LEMMA SomeListing ==
  ASSUME NEW keys, keys \subseteq Keys, IsFiniteSet(keys)
  PROVE  \E f : Lists(f, Cardinality(keys), keys)
<1> DEFINE T == {X \in SUBSET keys : \E f : Lists(f, Cardinality(X), X)}
<1>1. {} \in T
  <2>1. Lists([i \in 1 .. 0 |-> 0], 0, {})
    BY DEF Lists
  <2> QED
    BY <2>1, FS_EmptySet
<1>2. ASSUME NEW X \in SUBSET keys, NEW x \in keys \ X, X \in T PROVE X \cup {x} \in T
  <2>1. PICK f : Lists(f, Cardinality(X), X)
    BY <1>2
  <2>2. IsFiniteSet(X)
    BY FS_Subset
  <2>3. Cardinality(X) \in Nat /\ Cardinality(X \cup {x}) = Cardinality(X) + 1
    BY <2>2, FS_CardinalityType, FS_AddElement
  <2>4. \E h : Lists(h, Cardinality(X) + 1, X \cup {x})
    BY <2>1, <2>3, OneMoreListed
  <2> QED
    BY <2>3, <2>4
<1>3. keys \in T
  <2> HIDE DEF T
  <2> QED
    BY <1>1, <1>2, ElementByElement
<1> QED
  BY <1>3

(* What the loop over the map visits: every key once.                      *)
LEMMA OrderVisits ==
  ASSUME NEW keys, keys \subseteq Keys, IsFiniteSet(keys)
  PROVE  /\ Len(InOrder(keys)) \in Nat
         /\ \A i \in 1 .. Len(InOrder(keys)) : InOrder(keys)[i] \in keys
         /\ \A k \in keys : \E i \in 1 .. Len(InOrder(keys)) : InOrder(keys)[i] = k
<1> DEFINE n == Cardinality(keys)
           order == InOrder(keys)
<1>1. n \in Nat /\ Cardinality(1 .. n) = n /\ IsFiniteSet(1 .. n)
  BY FS_CardinalityType, FS_Interval
<1>2. Lists(order, n, keys)
  <2>1. \E f \in [1 .. n -> keys] : \A i, j \in 1 .. n : i < j => KeyBefore(f[i], f[j])
    BY SomeListing DEF Lists
  <2> QED
    BY <2>1 DEF InOrder, Lists
<1> HIDE DEF n, order
<1>3. order \in [1 .. n -> keys]
  BY <1>2 DEF Lists
<1>4. ASSUME NEW i \in 1 .. n, NEW j \in 1 .. n, order[i] = order[j] PROVE i = j
  <2>1. order[i] \in Keys
    BY <1>3
  <2>2. ~(i < j) /\ ~(j < i)
    BY <1>2, <1>4, <2>1, KeyBeforeIrreflexive DEF Lists
  <2> QED
    BY <2>2
<1>5. order \in Injection(1 .. n, keys)
  BY <1>3, <1>4 DEF Injection, IsInjective
<1>6. order \in Surjection(1 .. n, keys)
  BY <1>1, <1>5, FS_Injection DEF n
<1>7. \A k \in keys : \E i \in 1 .. n : order[i] = k
  BY <1>6 DEF Surjection
<1>8. Len(order) = n
  BY <1>1, <1>3
<1> QED
  BY <1>1, <1>3, <1>7, <1>8 DEF order

-----------------------------------------------------------------------------
(* The search *)

Matches(k, path) == Match(k, registered_resources[k].family, path)
Size(k) == Length(registered_resources[k].url)
AsGood(b, k) ==
  \/ Len(k) < Len(b)
  \/ Len(k) = Len(b) /\ Size(k) <= Size(b)

LEMMA EntryIsPattern ==
  ASSUME MapOfPatterns, NEW k \in DOMAIN registered_resources
  PROVE  /\ k \in Keys /\ k # NoKey
         /\ Len(k) \in Nat /\ Len(k) = Len(registered_resources[k].url)
         /\ Size(k) \in Nat
<1> DEFINE url == registered_resources[k].url
<1>1. url \in Patterns \cup Paths /\ Key(url) = k
  BY DEF MapOfPatterns
<1> HIDE DEF url
<1>2. /\ url \in Seq(Spelled) /\ Len(url) \in Nat
      /\ k \in Keys /\ Len(k) = Len(url) /\ k # NoKey
  BY <1>1, KeyOfPattern
<1>3. Length(url) \in Nat
  BY <1>2, LengthIsNatural
<1> QED
  BY <1>2, <1>3 DEF Size, url

LEMMA GoodIsOrder ==
  ASSUME MapOfPatterns
  PROVE  /\ \A a, b \in DOMAIN registered_resources : AsGood(a, b) \/ AsGood(b, a)
         /\ \A a, b, c \in DOMAIN registered_resources :
              AsGood(a, b) /\ AsGood(b, c) => AsGood(a, c)
         /\ \A a, b \in DOMAIN registered_resources : Better(a, b) <=> ~AsGood(b, a)
<1>1. \A l \in DOMAIN registered_resources : l # NoKey /\ Len(l) \in Nat /\ Size(l) \in Nat
  BY EntryIsPattern
<1>2. \A a, b \in DOMAIN registered_resources :
        Better(a, b) <=> Len(a) > Len(b) \/ (Len(a) = Len(b) /\ Size(a) > Size(b))
  BY <1>1 DEF Better, Size
<1> QED
  BY <1>1, <1>2 DEF AsGood

(* The best of the keys order[1 .. i], if one of them matches.             *)
BestSoFar(b, i, order, path) ==
  \/ /\ b = NoKey
     /\ \A j \in 1 .. i : ~Matches(order[j], path)
  \/ /\ b \in DOMAIN registered_resources
     /\ Matches(b, path)
     /\ \A j \in 1 .. i : Matches(order[j], path) => AsGood(b, order[j])

Turn(b, k, path) == IF Better(k, b) /\ Matches(k, path) THEN k ELSE b

LEMMA TurnKeepsBest ==
  ASSUME MapOfPatterns, NEW path, NEW order, NEW n \in Nat,
         \A j \in 1 .. n : order[j] \in DOMAIN registered_resources,
         NEW i \in 1 .. n, NEW b, BestSoFar(b, i - 1, order, path)
  PROVE  BestSoFar(Turn(b, order[i], path), i, order, path)
<1> DEFINE k == order[i]
           D == DOMAIN registered_resources
<1>1. \A l \in D : l # NoKey /\ Len(l) \in Nat /\ Size(l) \in Nat
  BY EntryIsPattern
<1>2. k \in D
  OBVIOUS
<1>3. \A j \in 1 .. i : order[j] \in D /\ (j \in 1 .. i - 1 \/ j = i)
  OBVIOUS
<1>4. CASE ~Matches(k, path)
  BY <1>3, <1>4 DEF BestSoFar, Turn
<1>5. CASE Matches(k, path) /\ b = NoKey
  <2>1. Turn(b, k, path) = k
    BY <1>5 DEF Turn, Better
  <2>2. \A j \in 1 .. i - 1 : ~Matches(order[j], path)
    BY <1>1, <1>5 DEF BestSoFar
  <2>3. AsGood(k, k)
    BY <1>1, <1>2 DEF AsGood
  <2> QED
    BY <1>2, <1>3, <1>5, <2>1, <2>2, <2>3 DEF BestSoFar
<1>6. CASE Matches(k, path) /\ b # NoKey
  <2>1. /\ b \in D /\ Matches(b, path)
        /\ \A j \in 1 .. i - 1 : Matches(order[j], path) => AsGood(b, order[j])
    BY <1>6 DEF BestSoFar
  <2> HIDE DEF k, D
  <2>2. CASE Better(k, b)
    <3>1. AsGood(k, b) /\ \A l \in D : AsGood(b, l) => AsGood(k, l)
      BY <1>2, <2>1, <2>2, GoodIsOrder DEF D
    <3>2. AsGood(k, k)
      BY <1>1, <1>2 DEF AsGood
    <3>3. Turn(b, k, path) = k
      BY <1>6, <2>2 DEF Turn
    <3>4. \A j \in 1 .. i : Matches(order[j], path) => AsGood(k, order[j])
      BY <1>3, <2>1, <3>1, <3>2 DEF k
    <3>5. BestSoFar(k, i, order, path)
      BY <1>2, <1>6, <3>4 DEF BestSoFar, D
    <3> QED
      BY <3>3, <3>5 DEF k
  <2>3. CASE ~Better(k, b)
    <3>1. AsGood(b, k)
      BY <1>2, <2>1, <2>3, GoodIsOrder DEF D
    <3>2. Turn(b, k, path) = b
      BY <2>3 DEF Turn
    <3>3. \A j \in 1 .. i : Matches(order[j], path) => AsGood(b, order[j])
      BY <1>3, <2>1, <3>1 DEF k
    <3> QED
      BY <2>1, <3>2, <3>3 DEF BestSoFar, k, D
  <2> QED
    BY <2>2, <2>3 DEF k
<1> QED
  BY <1>4, <1>5, <1>6

LEMMA SearchFindsBest ==
  ASSUME MapOfPatterns, NEW path
  PROVE  \/ /\ Search(path) = NoKey
            /\ \A k \in DOMAIN registered_resources : ~Matches(k, path)
         \/ /\ Search(path) \in DOMAIN registered_resources
            /\ Matches(Search(path), path)
            /\ \A k \in DOMAIN registered_resources :
                 Matches(k, path) => AsGood(Search(path), k)
<1> DEFINE D == DOMAIN registered_resources
           order == InOrder(D)
           n == Len(order)
           V == D \cup {NoKey}
           step == [p \in V \X (1 .. n) |-> Turn(p[1], order[p[2]], path)]
           IsBest(f) == f = [i \in 0 .. Len(order) |->
             IF i = 0 THEN NoKey
             ELSE IF /\ Better(order[i], f[i - 1])
                     /\ Match(order[i], registered_resources[order[i]].family, path)
             THEN order[i] ELSE f[i - 1]]
<1>1. D \subseteq Keys /\ IsFiniteSet(D)
  BY EntryIsPattern DEF MapOfPatterns
<1>2. /\ n \in Nat
      /\ \A i \in 1 .. n : order[i] \in D
      /\ \A k \in D : \E i \in 1 .. n : order[i] = k
  BY <1>1, OrderVisits
<1>3. step \in [V \X (1 .. n) -> V]
  <2>1. ASSUME NEW v \in V, NEW i \in 1 .. n PROVE Turn(v, order[i], path) \in V
    BY <1>2 DEF Turn
  <2> HIDE DEF V, order, n
  <2> QED
    BY <2>1
<1>4. PICK g : IsLoop(g, n, V, NoKey, step)
  <2>1. NoKey \in V
    OBVIOUS
  <2> HIDE DEF V, n, step
  <2> QED
    BY <1>2, <1>3, <2>1, LoopExists
<1>5. ASSUME NEW i \in 1 .. n PROVE g[i] = Turn(g[i - 1], order[i], path)
  <2>1. i - 1 \in 0 .. n
    BY <1>2
  <2>2. g[i - 1] \in V
    BY <1>4, <2>1 DEF IsLoop
  <2> HIDE DEF V, n, order
  <2>3. g[i] = step[<<g[i - 1], i>>]
    BY <1>4 DEF IsLoop
  <2> QED
    BY <2>2, <2>3
<1>6. IsBest(g)
  <2>1. g = [i \in 0 .. n |-> g[i]] /\ g[0] = NoKey
    BY <1>4 DEF IsLoop
  <2>2. \A i \in 0 .. n : i = 0 \/ i \in 1 .. n
    BY <1>2
  <2> HIDE DEF order
  <2> QED
    BY <1>5, <2>1, <2>2 DEF Turn, Matches
<1>7. Search(path) = (CHOOSE f : IsBest(f))[n]
  BY DEF Search
<1>8. PICK f : IsBest(f) /\ Search(path) = f[n]
  <2> HIDE DEF IsBest
  <2> QED
    BY <1>6, <1>7
<1>9. /\ f[0] = NoKey
      /\ \A i \in 1 .. n : f[i] = Turn(f[i - 1], order[i], path)
  <2> HIDE DEF order
  <2>1. f[0] = NoKey
    BY <1>2, <1>8
  <2>2. ASSUME NEW i \in 1 .. n PROVE f[i] = Turn(f[i - 1], order[i], path)
    <3>1. i \in 0 .. n /\ i # 0
      BY <1>2
    <3> QED
      BY <1>8, <3>1 DEF Turn, Matches
  <2> QED
    BY <2>1, <2>2
<1> HIDE DEF IsBest, order, n
<1>10. \A i \in 0 .. n : BestSoFar(f[i], i, order, path)
  <2> DEFINE T == {i \in 0 .. n : BestSoFar(f[i], i, order, path)}
  <2>1. 0 \in T
    BY <1>2, <1>9 DEF BestSoFar
  <2>2. ASSUME NEW i \in 0 .. n - 1, i \in T PROVE i + 1 \in T
    <3> DEFINE j == i + 1
    <3>1. j \in 1 .. n /\ j - 1 = i
      BY <1>2
    <3> HIDE DEF j
    <3>2. BestSoFar(f[j - 1], j - 1, order, path)
      BY <2>2, <3>1
    <3>3. f[j] = Turn(f[j - 1], order[j], path)
      BY <1>9, <3>1
    <3>4. BestSoFar(Turn(f[j - 1], order[j], path), j, order, path)
      BY <1>2, <3>1, <3>2, TurnKeepsBest
    <3>5. j \in T
      BY <3>1, <3>3, <3>4
    <3> QED
      BY <3>5 DEF j
  <2>3. \A i \in 0 .. n : i \in T
    <3> HIDE DEF T
    <3> QED
      BY <1>2, <2>1, <2>2, AfterEveryTurn
  <2> QED
    BY <2>3
<1>11. BestSoFar(Search(path), n, order, path)
  BY <1>2, <1>8, <1>10
<1> QED
  BY <1>2, <1>11 DEF BestSoFar

LEMMA ArgsAreOfRequest ==
  ASSUME MapOfPatterns, NEW path \in Paths,
         NEW k \in DOMAIN registered_resources, Matches(k, path),
         NEW p \in DOMAIN Args(k, path)
  PROVE  Args(k, path)[p] \in Range(path)
<1> DEFINE url == registered_resources[k].url
           at == {i \in 1 .. Len(url) : url[i] = p}
<1>1. path \in Seq(Spelled) /\ Len(path) \in Nat
  BY KeyOfPattern
<1>2. Len(k) \in Nat /\ Len(k) = Len(url)
  BY EntryIsPattern
<1>3. Len(k) <= Len(path)
  <2> SUFFICES ASSUME ~(Len(path) >= Len(k)) PROVE FALSE
    BY <1>1, <1>2
  <2>1. Len(path) = Len(k)
    BY Zenon DEF Matches, Match
  <2> QED
    BY <1>1, <1>2, <2>1
<1>4. at # {} /\ at \subseteq 1 .. Len(k)
  BY <1>2 DEF Args
<1>5. PICK i \in at : \A j \in at : j <= i
  <2> DEFINE T == {m \in Nat : \A j \in at : j <= m}
  <2>1. T \subseteq Nat /\ Len(k) \in T
    BY <1>2, <1>4
  <2>2. PICK m \in T : \A l \in T : m <= l
    <3> HIDE DEF T
    <3> QED
      BY <2>1, LeastNatural
  <2>3. m \in at
    <3> SUFFICES ASSUME m \notin at PROVE FALSE
      OBVIOUS
    <3>1. \A j \in at : j \in Nat /\ j >= 1 /\ j <= m /\ j # m
      BY <1>2, <1>4
    <3>2. m - 1 \in Nat /\ \A j \in at : j <= m - 1
      BY <1>4, <3>1
    <3>3. m - 1 \in T
      BY <3>2
    <3> HIDE DEF T
    <3>4. m <= m - 1 /\ m \in Nat
      BY <2>1, <2>2, <3>3
    <3> QED
      BY <3>4
  <2> QED
    BY <2>3
<1> DEFINE last == CHOOSE l \in at : \A j \in at : j <= l
<1>6. last \in at
  BY <1>5
<1>7. Args(k, path)[p] = path[last]
  BY DEF Args
<1> HIDE DEF last
<1>8. last \in DOMAIN path
  BY <1>1, <1>2, <1>3, <1>4, <1>6
<1> QED
  BY <1>7, <1>8 DEF Range

(* Whatever patterns the map holds.                                        *)
LEMMA SearchIsRight == MapOfPatterns => MostSpecificWins
<1> SUFFICES ASSUME MapOfPatterns, mode = "regex", NEW path \in Paths
    PROVE  LET matching == {k \in DOMAIN registered_resources :
                         Match(k, registered_resources[k].family, path)}
               size(k) == Length(registered_resources[k].url)
               found == Search(path)
           IN  IF path \in DOMAIN registered_resources_str
               THEN Find(path) = registered_resources_str[path]
               ELSE IF matching = {} THEN Find(path) = None
               ELSE /\ found \in matching
                    /\ Find(path) = registered_resources[found].resource
                    /\ \A k \in matching :
                         \/ Len(k) < Len(found)
                         \/ Len(k) = Len(found) /\ size(k) <= size(found)
                    /\ \A p \in DOMAIN Args(found, path) :
                         Args(found, path)[p] \in Range(path)
  BY DEF MostSpecificWins
<1> DEFINE matching == {k \in DOMAIN registered_resources : Matches(k, path)}
           found == Search(path)
<1>1. CASE path \in DOMAIN registered_resources_str
  BY <1>1 DEF Find
<1>2. CASE path \notin DOMAIN registered_resources_str /\ matching = {}
  <2>1. found = NoKey
    BY <1>2, SearchFindsBest
  <2>2. Find(path) = None
    BY <1>2, <2>1 DEF Find
  <2> QED
    BY <1>2, <2>2 DEF Matches
<1>3. CASE path \notin DOMAIN registered_resources_str /\ matching # {}
  <2>1. found \in matching /\ \A k \in matching : AsGood(found, k)
    BY <1>3, SearchFindsBest
  <2>2. found # NoKey
    BY <2>1, EntryIsPattern
  <2>3. Find(path) = registered_resources[found].resource
    BY <1>3, <2>2 DEF Find
  <2>4. \A p \in DOMAIN Args(found, path) : Args(found, path)[p] \in Range(path)
    <3> HIDE DEF found
    <3> QED
      BY <2>1, ArgsAreOfRequest
  <2> QED
    BY <1>3, <2>1, <2>3, <2>4 DEF Matches, AsGood, Size
<1> QED
  BY <1>1, <1>2, <1>3

(* finalize_answer's search ends with a match than which no other has more *)
(* pieces, or as many and more characters, whatever was registered and     *)
(* removed before, and its parameters get pieces of the request's path.    *)
THEOREM MostSpecificIsFound == RegSpec => []MostSpecificWins
<1>1. RegInv => MostSpecificWins
  BY SearchIsRight DEF RegInv
<1> QED
  BY <1>1, InitRegInv, NextRegInv, PTL DEF RegSpec
=============================================================================
