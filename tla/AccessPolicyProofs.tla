-------------------------- MODULE AccessPolicyProofs --------------------------
(***************************************************************************)
(* The bans and allowances of the web server, for any addresses and any    *)
(* sequence of calls.  As long as no call names a pattern, operator< is an *)
(* order on what the two sets hold, each set is sorted by it, and its      *)
(* elements have exactly the weighted sums the calls left in it: a peer is *)
(* then judged by what was last said of its sum, whatever the shape of the *)
(* two trees.  And the addresses themselves: what ip_representation makes  *)
(* of a text of any length.                                                *)
(***************************************************************************)
EXTENDS AccessPolicy, IpAddress, FiniteSetTheorems, SequenceTheorems, TLAPS

PolSpec == PolInit /\ [][PolNext]_polVars

(* An address without a star.                                              *)
Whole == [Place -> Nat]

(* What one set holds when sums were put in and none of them taken out.    *)
HasSums(set, sums) ==
  /\ set \in Seq(Whole)
  /\ \A i, j \in 1 .. Len(set) : i < j => Sum(set[i]) < Sum(set[j])
  /\ \A i \in 1 .. Len(set) : Sum(set[i]) \in sums
  /\ \A n \in sums : \E i \in 1 .. Len(set) : Sum(set[i]) = n

PolInv ==
  /\ default_policy \in {"ACCEPT", "REJECT"}
  /\ patterned \in BOOLEAN
  /\ ~patterned => HasSums(bans, banned) /\ HasSums(allowances, allowed)

-----------------------------------------------------------------------------
(* The comparison *)

LEMMA SumIsNatural == ASSUME NEW a \in Whole PROVE Sum(a) \in Nat
<1>1. /\ a[1] \in Nat /\ a[2] \in Nat /\ a[3] \in Nat /\ a[4] \in Nat
      /\ 1 \in Place /\ 2 \in Place /\ 3 \in Place /\ 4 \in Place
  BY DEF Whole, Place
<1> QED
  BY <1>1 DEF Sum, Score

(* operator< compares whole addresses by their sums, and nothing else.     *)
LEMMA WholeOrder ==
  ASSUME NEW a \in Whole, NEW b \in Whole
  PROVE  Before(a, b) <=> Sum(a) < Sum(b)
<1>1. Named(a, b) = Place
  BY PolicyAssumption DEF Named, Whole
<1> QED
  BY <1>1 DEF Before, Sum

LEMMA FourPlaces == IsFiniteSet(Place) /\ Cardinality(Place) = 4
<1>1. 1 \in Int /\ 4 \in Int
  OBVIOUS
<1>2. IsFiniteSet(1 .. 4) /\ Cardinality(1 .. 4) = IF 1 > 4 THEN 0 ELSE 4 - 1 + 1
  BY <1>1, FS_Interval, Zenon
<1>3. (IF 1 > 4 THEN 0 ELSE 4 - 1 + 1) = 4
  OBVIOUS
<1> QED
  BY <1>2, <1>3 DEF Place

LEMMA WholeWeight == ASSUME NEW a \in Whole PROVE Weight(a) = 4
<1>1. {i \in Place : a[i] # Star} = Place
  BY PolicyAssumption DEF Whole
<1> QED
  BY <1>1, FourPlaces DEF Weight

LEMMA NotPatternIsWhole ==
  ASSUME NEW ip \in IpPatterns, ~IsPattern(ip)
  PROVE  ip \in Whole
<1> DEFINE named == {i \in Place : ip[i] # Star}
<1>2. Cardinality(named) = 4
  <2>1. IsFiniteSet(named) /\ Cardinality(named) <= 4
    BY FourPlaces, FS_Subset
  <2>2. Cardinality(named) \in Nat
    BY <2>1, FS_CardinalityType
  <2> QED
    BY <2>1, <2>2 DEF IsPattern, Weight
<1>3. named = Place
  BY <1>2, FourPlaces, FS_Subset
<1> QED
  BY <1>3, PolicyAssumption DEF Whole

-----------------------------------------------------------------------------
(* The searches *)

LEMMA HeldSums ==
  ASSUME NEW set, NEW sums, HasSums(set, sums)
  PROVE  /\ Len(set) \in Nat
         /\ \A i \in 1 .. Len(set) : set[i] \in Whole /\ Sum(set[i]) \in Nat
         /\ \A i, j \in 1 .. Len(set) : i < j => Sum(set[i]) < Sum(set[j])
BY SumIsNatural DEF HasSums

(* A walk down some tree ends: left of it smaller sums, right of it not.   *)
LEMMA LowerBoundSplits ==
  ASSUME NEW set, NEW sums, HasSums(set, sums), NEW ip \in Whole,
         NEW i \in LowerBounds(set, ip)
  PROVE  /\ i \in 1 .. Len(set) + 1
         /\ \A j \in 1 .. Len(set) : Sum(set[j]) < Sum(ip) <=> j < i
<1>1. /\ i \in 1 .. Len(set) + 1
      /\ i > 1 => Before(set[i - 1], ip)
      /\ i <= Len(set) => ~Before(set[i], ip)
  BY DEF LowerBounds
<1>2. Sum(ip) \in Nat
  BY SumIsNatural
<1>3. i > 1 => Sum(set[i - 1]) < Sum(ip)
  BY <1>1, HeldSums, WholeOrder
<1>4. i <= Len(set) => Sum(ip) <= Sum(set[i])
  BY <1>1, <1>2, HeldSums, WholeOrder
<1>5. ASSUME NEW j \in 1 .. Len(set), j < i PROVE Sum(set[j]) < Sum(ip)
  <2>1. i > 1 /\ i - 1 \in 1 .. Len(set) /\ (j = i - 1 \/ j < i - 1)
    BY <1>1, <1>5, HeldSums
  <2> QED
    BY <1>2, <1>3, <2>1, HeldSums
<1>6. ASSUME NEW j \in 1 .. Len(set), ~(j < i) PROVE ~(Sum(set[j]) < Sum(ip))
  <2>1. i \in 1 .. Len(set) /\ (j = i \/ i < j)
    BY <1>1, <1>6, HeldSums
  <2> QED
    BY <1>2, <1>4, <2>1, HeldSums
<1> QED
  BY <1>1, <1>5, <1>6

LEMMA UpperBoundSplits ==
  ASSUME NEW set, NEW sums, HasSums(set, sums), NEW ip \in Whole,
         NEW i \in UpperBounds(set, ip)
  PROVE  /\ i \in 1 .. Len(set) + 1
         /\ \A j \in 1 .. Len(set) : Sum(ip) < Sum(set[j]) <=> i <= j
<1>1. /\ i \in 1 .. Len(set) + 1
      /\ i > 1 => ~Before(ip, set[i - 1])
      /\ i <= Len(set) => Before(ip, set[i])
  BY DEF UpperBounds
<1>2. Sum(ip) \in Nat
  BY SumIsNatural
<1>3. i > 1 => Sum(set[i - 1]) <= Sum(ip)
  BY <1>1, <1>2, HeldSums, WholeOrder
<1>4. i <= Len(set) => Sum(ip) < Sum(set[i])
  BY <1>1, HeldSums, WholeOrder
<1>5. ASSUME NEW j \in 1 .. Len(set), ~(i <= j) PROVE ~(Sum(ip) < Sum(set[j]))
  <2>1. i > 1 /\ i - 1 \in 1 .. Len(set) /\ (j = i - 1 \/ j < i - 1)
    BY <1>1, <1>5, HeldSums
  <2> QED
    BY <1>2, <1>3, <2>1, HeldSums
<1>6. ASSUME NEW j \in 1 .. Len(set), i <= j PROVE Sum(ip) < Sum(set[j])
  <2>1. i \in 1 .. Len(set) /\ (j = i \/ i < j)
    BY <1>1, <1>6, HeldSums
  <2> QED
    BY <1>2, <1>4, <2>1, HeldSums
<1> QED
  BY <1>1, <1>5, <1>6

(* There is a place where the search ends: the first sum not less.         *)
LEMMA LowerBoundExists ==
  ASSUME NEW set, NEW sums, HasSums(set, sums), NEW ip \in Whole
  PROVE  LowerBounds(set, ip) # {}
<1> DEFINE T == {i \in 1 .. Len(set) + 1 : i <= Len(set) => ~Before(set[i], ip)}
<1>1. Len(set) \in Nat /\ T \subseteq Nat /\ Len(set) + 1 \in T
  BY HeldSums
<1>2. PICK i \in T : \A j \in T : ~(<<j, i>> \in OpToRel(<, Nat))
  <2> HIDE DEF T
  <2> QED
    BY <1>1, WFMin, NatLessThanWellFounded
<1>3. \A j \in T : ~(j < i)
  BY <1>1, <1>2 DEF OpToRel
<1>4. ASSUME i > 1 PROVE Before(set[i - 1], ip)
  <2>1. i - 1 \in 1 .. Len(set) /\ i - 1 < i
    BY <1>1, <1>4
  <2>2. i - 1 \notin T
    BY <1>3, <2>1
  <2> QED
    BY <1>1, <2>1, <2>2
<1> QED
  BY <1>1, <1>4 DEF LowerBounds

(* find: an element with the sum asked for, or end() when there is none.   *)
LEMMA FindDecides ==
  ASSUME NEW set, NEW sums, HasSums(set, sums), NEW ip \in Whole,
         NEW at \in Finds(set, ip)
  PROVE  /\ at # 0 => at \in 1 .. Len(set)
         /\ at # 0 <=> Sum(ip) \in sums
<1>1. PICK i \in LowerBounds(set, ip) :
        at = IF i <= Len(set) /\ ~Before(ip, set[i]) THEN i ELSE 0
  BY DEF Finds
<1>2. /\ i \in 1 .. Len(set) + 1
      /\ \A j \in 1 .. Len(set) : Sum(set[j]) < Sum(ip) <=> j < i
  BY LowerBoundSplits
<1>3. Sum(ip) \in Nat
  BY SumIsNatural
<1>4. i <= Len(set) => (Before(ip, set[i]) <=> Sum(ip) < Sum(set[i]))
  BY <1>2, HeldSums, WholeOrder
<1>5. i <= Len(set) /\ ~Before(ip, set[i]) => Sum(ip) \in sums
  <2> SUFFICES ASSUME i <= Len(set), ~Before(ip, set[i]) PROVE Sum(ip) \in sums
    OBVIOUS
  <2>1. i \in 1 .. Len(set) /\ ~(Sum(ip) < Sum(set[i])) /\ ~(Sum(set[i]) < Sum(ip))
    BY <1>2, <1>4, HeldSums
  <2>2. Sum(set[i]) = Sum(ip)
    BY <1>3, <2>1, HeldSums
  <2> QED
    BY <2>1, <2>2 DEF HasSums
<1>6. Sum(ip) \in sums => i <= Len(set) /\ ~Before(ip, set[i])
  <2> SUFFICES ASSUME Sum(ip) \in sums PROVE i <= Len(set) /\ ~Before(ip, set[i])
    OBVIOUS
  <2>1. PICK j \in 1 .. Len(set) : Sum(set[j]) = Sum(ip)
    BY DEF HasSums
  <2>2. ~(j < i)
    BY <1>2, <1>3, <2>1
  <2>3. i \in 1 .. Len(set) /\ (i = j \/ i < j)
    BY <1>2, <2>1, <2>2, HeldSums
  <2>4. ~(Sum(ip) < Sum(set[i]))
    BY <1>3, <2>1, <2>3, HeldSums
  <2> QED
    BY <1>4, <2>3, <2>4, HeldSums
<1>7. i # 0 /\ (i <= Len(set) => i \in 1 .. Len(set))
  BY <1>2, HeldSums
<1> QED
  BY <1>1, <1>5, <1>6, <1>7

-----------------------------------------------------------------------------
(* Elements that come and go *)

LEMMA InsertAtPlace ==
  ASSUME NEW S, NEW s \in Seq(S), NEW i \in 1 .. Len(s) + 1, NEW e \in S
  PROVE  /\ InsertAt(s, i, e) \in Seq(S)
         /\ Len(InsertAt(s, i, e)) = Len(s) + 1
         /\ \A j \in 1 .. Len(s) + 1 :
              InsertAt(s, i, e)[j] = IF j < i THEN s[j] ELSE IF j = i THEN e ELSE s[j - 1]
<1> DEFINE left == SubSeq(s, 1, i - 1)
           right == SubSeq(s, i, Len(s))
<1>1. Len(s) \in Nat /\ \A j \in 1 .. Len(s) : s[j] \in S
  OBVIOUS
<1>2. /\ left \in Seq(S) /\ Len(left) = i - 1
      /\ \A j \in 1 .. i - 1 : left[j] = s[j]
  BY <1>1
<1>3. /\ right \in Seq(S) /\ Len(right) = Len(s) - i + 1
      /\ \A j \in 1 .. Len(s) - i + 1 : right[j] = s[i + j - 1]
  BY <1>1
<1> HIDE DEF left, right
<1>4. InsertAt(s, i, e) = (left \o <<e>>) \o right
  BY DEF InsertAt, left, right
<1>5. /\ left \o <<e>> \in Seq(S) /\ Len(left \o <<e>>) = i
      /\ \A j \in 1 .. i : (left \o <<e>>)[j] = IF j < i THEN s[j] ELSE e
  BY <1>1, <1>2
<1> DEFINE front == left \o <<e>>
<1> HIDE DEF front
<1>6. front \in Seq(S) /\ Len(front) = i /\ InsertAt(s, i, e) = front \o right
  BY <1>4, <1>5 DEF front
<1>7. /\ front \o right \in Seq(S)
      /\ Len(front \o right) = Len(front) + Len(right)
      /\ \A j \in 1 .. Len(front) + Len(right) :
           (front \o right)[j] = IF j <= Len(front) THEN front[j] ELSE right[j - Len(front)]
  BY <1>3, <1>6, ConcatProperties
<1>8. Len(front) + Len(right) = Len(s) + 1
  BY <1>1, <1>3, <1>6
<1>9. ASSUME NEW j \in 1 .. Len(s) + 1
      PROVE  (front \o right)[j] = IF j < i THEN s[j] ELSE IF j = i THEN e ELSE s[j - 1]
  <2>1. CASE j <= i
    BY <1>5, <1>6, <1>7, <1>8, <2>1 DEF front
  <2>2. CASE j > i
    <3>1. j - i \in 1 .. Len(s) - i + 1 /\ i + (j - i) - 1 = j - 1
      BY <1>1, <2>2
    <3> QED
      BY <1>3, <1>6, <1>7, <1>8, <2>2, <3>1
  <2>3. j <= i \/ j > i
    BY <1>1
  <2> QED
    BY <2>1, <2>2, <2>3
<1> QED
  BY <1>6, <1>7, <1>8, <1>9

(* What is left of s without the elements from p to before q.              *)
Cut(s, p, q) == SubSeq(s, 1, p - 1) \o SubSeq(s, q, Len(s))

LEMMA CutPlaces ==
  ASSUME NEW S, NEW s \in Seq(S), NEW p \in 1 .. Len(s) + 1, NEW q \in p .. Len(s) + 1
  PROVE  /\ Cut(s, p, q) \in Seq(S)
         /\ Len(Cut(s, p, q)) = Len(s) - (q - p)
         /\ \A j \in 1 .. Len(s) - (q - p) :
              Cut(s, p, q)[j] = IF j < p THEN s[j] ELSE s[j + (q - p)]
<1> DEFINE left == SubSeq(s, 1, p - 1)
           right == SubSeq(s, q, Len(s))
<1>1. Len(s) \in Nat /\ \A j \in 1 .. Len(s) : s[j] \in S
  OBVIOUS
<1>2. /\ left \in Seq(S) /\ Len(left) = p - 1
      /\ \A j \in 1 .. p - 1 : left[j] = s[j]
  BY <1>1
<1>3. /\ right \in Seq(S) /\ Len(right) = Len(s) - q + 1
      /\ \A j \in 1 .. Len(s) - q + 1 : right[j] = s[q + j - 1]
  BY <1>1
<1> HIDE DEF left, right
<1>4. Cut(s, p, q) = left \o right
  BY DEF Cut, left, right
<1>5. /\ left \o right \in Seq(S)
      /\ Len(left \o right) = Len(left) + Len(right)
      /\ \A j \in 1 .. Len(left) + Len(right) :
           (left \o right)[j] = IF j <= Len(left) THEN left[j] ELSE right[j - Len(left)]
  BY <1>2, <1>3, ConcatProperties
<1>6. Len(left) + Len(right) = Len(s) - (q - p)
  BY <1>1, <1>2, <1>3
<1>7. ASSUME NEW j \in 1 .. Len(s) - (q - p)
      PROVE  Cut(s, p, q)[j] = IF j < p THEN s[j] ELSE s[j + (q - p)]
  <2>1. CASE j < p
    <3>1. j \in 1 .. p - 1 /\ j <= Len(left) /\ j \in 1 .. Len(left) + Len(right)
      BY <1>1, <1>2, <1>6, <2>1
    <3> QED
      BY <1>2, <1>4, <1>5, <2>1, <3>1
  <2>2. CASE j >= p
    <3>1. /\ j - Len(left) \in 1 .. Len(s) - q + 1
          /\ q + (j - Len(left)) - 1 = j + (q - p)
          /\ ~(j <= Len(left)) /\ j \in 1 .. Len(left) + Len(right)
      BY <1>1, <1>2, <1>6, <2>2
    <3>2. Cut(s, p, q)[j] = right[j - Len(left)]
      BY <1>4, <1>5, <3>1
    <3>3. right[j - Len(left)] = s[j + (q - p)]
      BY <1>3, <3>1
    <3>4. ~(j < p)
      BY <1>1, <2>2
    <3> QED
      BY <3>2, <3>3, <3>4
  <2>3. j < p \/ j >= p
    BY <1>1
  <2> QED
    BY <2>1, <2>2, <2>3
<1> QED
  BY <1>4, <1>5, <1>6, <1>7

(* insert: the set stays sorted and gains the sum, if it had it not.       *)
LEMMA InsertHolds ==
  ASSUME NEW set, NEW sums, HasSums(set, sums), NEW ip \in Whole,
         NEW new \in Inserted(set, ip)
  PROVE  HasSums(new, sums \cup {Sum(ip)})
<1>1. PICK i \in UpperBounds(set, ip) :
        new = IF i > 1 /\ ~Before(set[i - 1], ip) THEN set ELSE InsertAt(set, i, ip)
  BY DEF Inserted
<1>2. /\ i \in 1 .. Len(set) + 1
      /\ \A j \in 1 .. Len(set) : Sum(ip) < Sum(set[j]) <=> i <= j
  BY UpperBoundSplits
<1>3. Sum(ip) \in Nat
  BY SumIsNatural
<1>4. /\ Len(set) \in Nat
      /\ \A j \in 1 .. Len(set) : set[j] \in Whole /\ Sum(set[j]) \in Nat
      /\ \A j, k \in 1 .. Len(set) : j < k => Sum(set[j]) < Sum(set[k])
  BY HeldSums
<1>5. i > 1 => /\ i - 1 \in 1 .. Len(set)
               /\ Before(set[i - 1], ip) <=> Sum(set[i - 1]) < Sum(ip)
  BY <1>2, <1>4, WholeOrder
<1>6. CASE i > 1 /\ ~Before(set[i - 1], ip)
  <2>1. Sum(set[i - 1]) = Sum(ip)
    <3>1. ~(Sum(ip) < Sum(set[i - 1])) /\ ~(Sum(set[i - 1]) < Sum(ip))
      BY <1>2, <1>4, <1>5, <1>6
    <3> QED
      BY <1>3, <1>4, <1>5, <1>6, <3>1
  <2>2. Sum(ip) \in sums
    BY <1>5, <1>6, <2>1 DEF HasSums
  <2>3. new = set /\ sums \cup {Sum(ip)} = sums
    BY <1>1, <1>6, <2>2
  <2> QED
    BY <2>3
<1>7. CASE ~(i > 1 /\ ~Before(set[i - 1], ip))
  <2>1. new = InsertAt(set, i, ip)
    BY <1>1, <1>7
  <2>2. /\ new \in Seq(Whole) /\ Len(new) = Len(set) + 1
        /\ \A j \in 1 .. Len(set) + 1 :
             new[j] = IF j < i THEN set[j] ELSE IF j = i THEN ip ELSE set[j - 1]
    BY <1>2, <2>1, InsertAtPlace DEF HasSums
  <2>3. \A j \in 1 .. Len(set) : j < i => Sum(set[j]) < Sum(ip)
    <3> SUFFICES ASSUME NEW j \in 1 .. Len(set), j < i PROVE Sum(set[j]) < Sum(ip)
      OBVIOUS
    <3>1. i > 1 /\ i - 1 \in 1 .. Len(set) /\ (j = i - 1 \/ j < i - 1)
      BY <1>2, <1>4
    <3> QED
      BY <1>3, <1>4, <1>5, <1>7, <3>1
  <2>4. \A j \in 1 .. Len(set) : j >= i => Sum(ip) < Sum(set[j])
    BY <1>2, <1>4
  <2>5. \A j, k \in 1 .. Len(new) : j < k => Sum(new[j]) < Sum(new[k])
    <3> SUFFICES ASSUME NEW j \in 1 .. Len(new), NEW k \in 1 .. Len(new), j < k
                 PROVE  Sum(new[j]) < Sum(new[k])
      OBVIOUS
    <3>1. CASE k < i
      BY <1>2, <1>4, <2>2, <3>1
    <3>2. CASE k = i
      BY <1>2, <1>4, <2>2, <2>3, <3>2
    <3>3. CASE k > i /\ j = i
      BY <1>2, <1>4, <2>2, <2>4, <3>3
    <3>4. CASE k > i /\ j > i
      <4>1. k - 1 \in 1 .. Len(set) /\ j - 1 \in 1 .. Len(set) /\ j - 1 < k - 1
        BY <1>2, <1>4, <2>2, <3>4
      <4>2. new[k] = set[k - 1] /\ new[j] = set[j - 1]
        BY <1>2, <1>4, <2>2, <3>4
      <4> QED
        BY <1>4, <4>1, <4>2
    <3>5. CASE k > i /\ j < i
      <4>1. k - 1 \in 1 .. Len(set) /\ j \in 1 .. Len(set) /\ j < k - 1
        BY <1>2, <1>4, <2>2, <3>5
      <4> QED
        BY <1>2, <1>4, <2>2, <3>5, <4>1
    <3> QED
      BY <1>2, <2>2, <3>1, <3>2, <3>3, <3>4, <3>5
  <2>6. \A j \in 1 .. Len(new) : Sum(new[j]) \in sums \cup {Sum(ip)}
    <3> SUFFICES ASSUME NEW j \in 1 .. Len(new) PROVE Sum(new[j]) \in sums \cup {Sum(ip)}
      OBVIOUS
    <3>1. \A k \in 1 .. Len(set) : Sum(set[k]) \in sums
      BY DEF HasSums
    <3>2. CASE j < i
      <4>1. j \in 1 .. Len(set) /\ new[j] = set[j]
        BY <1>2, <1>4, <2>2, <3>2
      <4> QED
        BY <3>1, <4>1
    <3>3. CASE j = i
      <4>1. new[j] = ip
        BY <1>2, <1>4, <2>2, <3>3
      <4> QED
        BY <4>1
    <3>4. CASE j > i
      <4>1. j - 1 \in 1 .. Len(set) /\ new[j] = set[j - 1]
        BY <1>2, <1>4, <2>2, <3>4
      <4> QED
        BY <3>1, <4>1
    <3> QED
      BY <1>2, <1>4, <2>2, <3>2, <3>3, <3>4
  <2>7. \A n \in sums \cup {Sum(ip)} : \E j \in 1 .. Len(new) : Sum(new[j]) = n
    <3> SUFFICES ASSUME NEW n \in sums \cup {Sum(ip)}
                 PROVE  \E j \in 1 .. Len(new) : Sum(new[j]) = n
      OBVIOUS
    <3>1. CASE n = Sum(ip)
      <4>1. i \in 1 .. Len(new) /\ new[i] = ip
        BY <1>2, <1>4, <2>2
      <4> QED
        BY <3>1, <4>1
    <3>2. CASE n \in sums
      <4>1. PICK j \in 1 .. Len(set) : Sum(set[j]) = n
        BY <3>2 DEF HasSums
      <4>2. CASE j < i
        <5>1. j \in 1 .. Len(new) /\ new[j] = set[j]
          BY <1>2, <1>4, <2>2, <4>2
        <5> QED
          BY <4>1, <5>1
      <4>3. CASE j >= i
        <5>1. j + 1 \in 1 .. Len(new) /\ new[j + 1] = set[j]
          BY <1>2, <1>4, <2>2, <4>3
        <5> QED
          BY <4>1, <5>1
      <4> QED
        BY <1>2, <4>2, <4>3
    <3> QED
      BY <3>1, <3>2
  <2> QED
    BY <2>2, <2>5, <2>6, <2>7 DEF HasSums
<1> QED
  BY <1>6, <1>7

(* erase: the elements with the sum of the address go, the others stay.    *)
LEMMA EraseHolds ==
  ASSUME NEW set, NEW sums, HasSums(set, sums), NEW ip \in Whole,
         NEW new \in Erased(set, ip)
  PROVE  HasSums(new, sums \ {Sum(ip)})
<1>1. PICK p \in LowerBounds(set, ip), q \in UpperBounds(set, ip) :
        p <= q /\ new = SubSeq(set, 1, p - 1) \o SubSeq(set, q, Len(set))
  <2>1. PICK r \in LowerBounds(set, ip) \X UpperBounds(set, ip) :
          /\ r[1] <= r[2]
          /\ new = SubSeq(set, 1, r[1] - 1) \o SubSeq(set, r[2], Len(set))
    BY DEF Erased
  <2> QED
    BY <2>1
<1>2. /\ p \in 1 .. Len(set) + 1
      /\ \A j \in 1 .. Len(set) : Sum(set[j]) < Sum(ip) <=> j < p
  BY LowerBoundSplits
<1>3. /\ q \in 1 .. Len(set) + 1
      /\ \A j \in 1 .. Len(set) : Sum(ip) < Sum(set[j]) <=> q <= j
  BY UpperBoundSplits
<1>4. Sum(ip) \in Nat
  BY SumIsNatural
<1>5. /\ Len(set) \in Nat
      /\ \A j \in 1 .. Len(set) : set[j] \in Whole /\ Sum(set[j]) \in Nat
      /\ \A j, k \in 1 .. Len(set) : j < k => Sum(set[j]) < Sum(set[k])
  BY HeldSums
<1> DEFINE n == Len(set) - (q - p)
           from(j) == IF j < p THEN j ELSE j + (q - p)
<1>6. q \in p .. Len(set) + 1 /\ n \in Nat
  BY <1>1, <1>2, <1>3, <1>5
<1>7. /\ new \in Seq(Whole) /\ Len(new) = n
      /\ \A j \in 1 .. n : new[j] = IF j < p THEN set[j] ELSE set[j + (q - p)]
  <2>1. set \in Seq(Whole)
    BY DEF HasSums
  <2>2. /\ p \in 1 .. Len(set) + 1 /\ q \in p .. Len(set) + 1
        /\ new = Cut(set, p, q)
    BY <1>1, <1>2, <1>6 DEF Cut
  <2> QED
    BY <2>1, <2>2, CutPlaces
<1>8. \A j \in 1 .. n : /\ from(j) \in 1 .. Len(set)
                        /\ new[j] = set[from(j)]
                        /\ ~(from(j) >= p /\ from(j) < q)
  BY <1>2, <1>3, <1>5, <1>6, <1>7
<1>9. \A j, k \in 1 .. n : j < k => from(j) < from(k)
  BY <1>2, <1>3, <1>5, <1>6
<1>10. \A j, k \in 1 .. Len(new) : j < k => Sum(new[j]) < Sum(new[k])
  <2> HIDE DEF n, from
  <2> QED
    BY <1>5, <1>7, <1>8, <1>9
<1>11. \A j \in 1 .. Len(new) : Sum(new[j]) \in sums \ {Sum(ip)}
  <2> SUFFICES ASSUME NEW j \in 1 .. Len(new)
               PROVE  Sum(new[j]) \in sums /\ Sum(new[j]) # Sum(ip)
    OBVIOUS
  <2> HIDE DEF n, from
  <2>1. /\ from(j) \in 1 .. Len(set) /\ new[j] = set[from(j)]
        /\ from(j) < p \/ from(j) >= q
    BY <1>2, <1>3, <1>7, <1>8
  <2> QED
    BY <1>2, <1>3, <1>4, <1>5, <2>1 DEF HasSums
<1>12. \A m \in sums \ {Sum(ip)} : \E j \in 1 .. Len(new) : Sum(new[j]) = m
  <2> SUFFICES ASSUME NEW m \in sums, m # Sum(ip)
               PROVE  \E j \in 1 .. Len(new) : Sum(new[j]) = m
    OBVIOUS
  <2>1. PICK k \in 1 .. Len(set) : Sum(set[k]) = m
    BY DEF HasSums
  <2>2. CASE k < p
    <3>1. k \in 1 .. Len(new) /\ new[k] = set[k]
      BY <1>2, <1>5, <1>6, <1>7, <2>2
    <3> QED
      BY <2>1, <3>1
  <2>3. CASE k >= q
    <3>1. k - (q - p) \in 1 .. n /\ ~(k - (q - p) < p) /\ k - (q - p) + (q - p) = k
      BY <1>2, <1>3, <1>5, <1>6, <2>3
    <3>2. new[k - (q - p)] = set[k]
      BY <1>7, <3>1
    <3> QED
      BY <1>7, <2>1, <3>1, <3>2
  <2>4. k < p \/ k >= q
    BY <1>2, <1>3, <1>4, <1>5, <2>1
  <2> QED
    BY <2>2, <2>3, <2>4
<1> QED
  BY <1>7, <1>10, <1>11, <1>12 DEF HasSums

(* ban_ip and allow_ip: an element found weighs no more than the address.  *)
LEMMA AddHolds ==
  ASSUME NEW set, NEW sums, HasSums(set, sums), NEW ip \in Whole,
         NEW new \in AfterAdding(set, ip)
  PROVE  HasSums(new, sums \cup {Sum(ip)})
<1>1. PICK at \in Finds(set, ip) :
        new \in IF at # 0 /\ Weight(ip) < Weight(set[at])
                THEN Inserted(RemoveAt(set, at), ip) ELSE Inserted(set, ip)
  BY DEF AfterAdding
<1>2. at # 0 => at \in 1 .. Len(set)
  BY FindDecides
<1>3. at # 0 => Weight(ip) = 4 /\ Weight(set[at]) = 4
  BY <1>2, HeldSums, WholeWeight
<1>4. new \in Inserted(set, ip)
  BY <1>1, <1>3
<1> QED
  BY <1>4, InsertHolds
-----------------------------------------------------------------------------
(* The calls *)

LEMMA InitPolInv == PolInit => PolInv
<1> SUFFICES ASSUME PolInit PROVE PolInv
  OBVIOUS
<1>1. HasSums(<<>>, {})
  BY DEF HasSums
<1> QED
  BY <1>1 DEF PolInit, PolInv

(* A call that leaves patterned FALSE named a whole address.               *)
LEMMA NotedWhole ==
  ASSUME PolInv, NEW ip \in IpPatterns, Noted(ip), ~patterned'
  PROVE  /\ ~patterned /\ ~IsPattern(ip) /\ ip \in Whole
         /\ HasSums(bans, banned) /\ HasSums(allowances, allowed)
<1>1. ~patterned /\ ~IsPattern(ip)
  BY DEF Noted
<1> QED
  BY <1>1, NotPatternIsWhole DEF PolInv

LEMMA NextPolInv == PolInv /\ [PolNext]_polVars => PolInv'
<1> SUFFICES ASSUME PolInv, [PolNext]_polVars PROVE PolInv'
  OBVIOUS
<1>1. ASSUME NEW ip \in IpPatterns, Noted(ip), UNCHANGED polSettings,
             ~patterned' => HasSums(bans', banned') /\ HasSums(allowances', allowed')
      PROVE  PolInv'
  <2>1. patterned' \in BOOLEAN
    BY <1>1 DEF Noted, PolInv, IsPattern
  <2> QED
    BY <1>1, <2>1 DEF PolInv, polSettings, HasSums
<1>2. CASE BanIp
  <2>1. PICK ip \in IpPatterns :
          /\ bans' \in AfterAdding(bans, ip)
          /\ banned' = IF IsPattern(ip) THEN banned ELSE banned \cup {Sum(ip)}
          /\ Noted(ip)
          /\ UNCHANGED <<polSettings, allowances, allowed>>
    BY <1>2 DEF BanIp
  <2>2. ~patterned' => HasSums(bans', banned') /\ HasSums(allowances', allowed')
    BY <2>1, NotedWhole, AddHolds
  <2> QED
    BY <1>1, <2>1, <2>2
<1>3. CASE AllowIp
  <2>1. PICK ip \in IpPatterns :
          /\ allowances' \in AfterAdding(allowances, ip)
          /\ allowed' = IF IsPattern(ip) THEN allowed ELSE allowed \cup {Sum(ip)}
          /\ Noted(ip)
          /\ UNCHANGED <<polSettings, bans, banned>>
    BY <1>3 DEF AllowIp
  <2>2. ~patterned' => HasSums(bans', banned') /\ HasSums(allowances', allowed')
    BY <2>1, NotedWhole, AddHolds
  <2> QED
    BY <1>1, <2>1, <2>2
<1>4. CASE UnbanIp
  <2>1. PICK ip \in IpPatterns :
          /\ bans' \in Erased(bans, ip)
          /\ banned' = IF IsPattern(ip) THEN banned ELSE banned \ {Sum(ip)}
          /\ Noted(ip)
          /\ UNCHANGED <<polSettings, allowances, allowed>>
    BY <1>4 DEF UnbanIp
  <2>2. ~patterned' => HasSums(bans', banned') /\ HasSums(allowances', allowed')
    BY <2>1, NotedWhole, EraseHolds
  <2> QED
    BY <1>1, <2>1, <2>2
<1>5. CASE DisallowIp
  <2>1. PICK ip \in IpPatterns :
          /\ allowances' \in Erased(allowances, ip)
          /\ allowed' = IF IsPattern(ip) THEN allowed ELSE allowed \ {Sum(ip)}
          /\ Noted(ip)
          /\ UNCHANGED <<polSettings, bans, banned>>
    BY <1>5 DEF DisallowIp
  <2>2. ~patterned' => HasSums(bans', banned') /\ HasSums(allowances', allowed')
    BY <2>1, NotedWhole, EraseHolds
  <2> QED
    BY <1>1, <2>1, <2>2
<1>6. CASE UNCHANGED polVars
  BY <1>6 DEF polVars, polSettings, PolInv, HasSums
<1> QED
  BY <1>2, <1>3, <1>4, <1>5, <1>6 DEF PolNext

(* Whatever the shape of the tree, a search gives the one answer.          *)
LEMMA CountDecides ==
  ASSUME NEW set, NEW sums, HasSums(set, sums), NEW ip \in Whole
  PROVE  Counts(set, ip) = {Sum(ip) \in sums}
<1>1. \A at \in Finds(set, ip) : (at # 0) = (Sum(ip) \in sums)
  BY FindDecides
<1>2. Finds(set, ip) # {}
  BY LowerBoundExists DEF Finds
<1> QED
  BY <1>1, <1>2 DEF Counts

LEMMA InvDecides == PolInv => PolicyFollowsCalls
<1> SUFFICES ASSUME PolInv, ban_system_enabled, ~patterned, NEW ip \in Addresses
             PROVE  LET said == <<Sum(ip) \in banned, Sum(ip) \in allowed>>
                    IN  Admits(ip) =
                          {CASE default_policy = "ACCEPT" -> said # <<TRUE, FALSE>>
                             [] default_policy = "REJECT" -> said = <<FALSE, TRUE>>}
  BY DEF PolicyFollowsCalls
<1> DEFINE b == Sum(ip) \in banned
           a == Sum(ip) \in allowed
<1>1. ip \in Whole
  BY PolicyAssumption DEF Whole
<1>2. Counts(bans, ip) = {b} /\ Counts(allowances, ip) = {a}
  BY <1>1, CountDecides DEF PolInv
<1>3. b \in BOOLEAN /\ a \in BOOLEAN
  OBVIOUS
<1> HIDE DEF a, b
<1>4. Admits(ip) = {~(\/ default_policy = "ACCEPT" /\ b /\ ~a
                      \/ default_policy = "REJECT" /\ (~a \/ b))}
  BY <1>2 DEF Admits
<1>5. CASE default_policy = "ACCEPT"
  <2>1. (~(\/ default_policy = "ACCEPT" /\ b /\ ~a
           \/ default_policy = "REJECT" /\ (~a \/ b))) = (<<b, a>> # <<TRUE, FALSE>>)
    BY <1>3, <1>5
  <2> QED
    BY <1>4, <1>5, <2>1 DEF a, b
<1>6. CASE default_policy = "REJECT"
  <2>1. (~(\/ default_policy = "ACCEPT" /\ b /\ ~a
           \/ default_policy = "REJECT" /\ (~a \/ b))) = (<<b, a>> = <<FALSE, TRUE>>)
    BY <1>3, <1>6
  <2> QED
    BY <1>4, <1>6, <2>1 DEF a, b
<1> QED
  BY <1>5, <1>6 DEF PolInv

(* policy_callback judges a peer by the calls that named its sum, in       *)
(* whatever order they came and however the trees of the sets grew.        *)
THEOREM PolicyIsWhatWasSaid == PolSpec => []PolicyFollowsCalls
BY InitPolInv, NextPolInv, InvDecides, PTL DEF PolSpec

-----------------------------------------------------------------------------
(* The text of an address                                                  *)

AddressSpec == AddressInit /\ [][AddressNext]_addressVars

(* The fields that are looked at, those a leading "::" drops, and the one  *)
(* the loop is at.                                                         *)
Many == Len(Fields)
Skipped == IF Several(Fields) THEN 1 ELSE 0
Here == part + Skipped
(* The two pieces an IPv4 address takes beyond those of a field.           *)
EndRoom == IF Several(Fields) /\ LastIsDotted(Fields) THEN 2 ELSE 0
NoGap(j) == \A k \in 1 .. j - 1 : k > Skipped => Kind(address, k) # "empty"
(* The pieces that are written before field j is read.                     *)
Due(j) == IF NoGap(j) THEN 2 * (j - 1 - Skipped) ELSE 16 - 2 * (Many + 1 - j) - EndRoom

(* The code makes room for an IPv4 address at the end only behind a        *)
(* leading "::"; with an omission elsewhere it refuses one.                *)
HasRoom == LastIsDotted(Fields) /\ ~Several(Fields) => Empties(Fields) = {}

(* The fields read stand where they belong, and the rest is zero.          *)
Written ==
  /\ \A j \in 1 .. Here - 1 :
       /\ Stands(j)
       /\ Kind(address, j) \in {"hex", "any"} => Spot(j) \in Int /\ Spot(j) >= 0 /\ Spot(j) + 1 < filled
  /\ \A k \in 0 .. 15 :
       (\A j \in 1 .. Here - 1 : k \notin Covers(j)) => Holds(k, 0)

(* The loop over the parts.                                                *)
Progress ==
  /\ Len(address) > 1 /\ Many <= 8
  /\ Several(Fields) => Leading(Fields)
  /\ parts = IF Several(Fields) THEN Tail(Fields) ELSE Fields
  /\ omitted = Omitted(Fields)
  /\ part \in Nat /\ part >= 1 /\ Here <= Many + 1
  /\ \A j \in 1 .. Here - 1 :
       Kind(address, j) # "long" /\ (Kind(address, j) = "dotted" => j = Many)
  /\ IF Here = Many + 1 /\ LastIsDotted(Fields) THEN filled = 12 /\ HasRoom ELSE filled = Due(Here)
  /\ HasRoom => Written

(* The invariant: what holds before, during and after the loop.            *)
AddressInv ==
  /\ address \in AddressTexts
  /\ pieces = [k \in 0 .. 15 |-> pieces[k]]
  /\ AddressesFill
  /\ verdict = "unread" =>
       /\ parts = <<>> /\ part = 1 /\ filled = 0
       /\ starred = {} /\ \A k \in 0 .. 15 : pieces[k] = 0
  /\ verdict = "filling" => Progress

(* Nothing is written yet.                                                 *)
LEMMA InitAddressInv == AddressInit => AddressInv
  BY DEF AddressInit, AddressInv, AddressesFill

(* The fields that are looked at are those of the text, but for an empty   *)
(* one at its end.                                                         *)
LEMMA FieldsOfAddress ==
  ASSUME address \in AddressTexts, Len(address) > 1
  PROVE  /\ address \in Seq(Field) /\ Len(address) \in Nat
         /\ Fields \in Seq(Field) /\ Many \in Nat /\ Many >= 1 /\ Stop = Many
         /\ Many <= Len(address) /\ Len(address) <= Many + 1
         /\ Many < Len(address) => Kind(address, Len(address)) = "empty"
         /\ \A j \in 1 .. Many : Kind(Fields, j) = Kind(address, j) /\ Fields[j] = address[j]
<1>1. address \in Seq(Field) /\ Len(address) \in Nat
  BY AddressAssumption
<1>2. CASE Kind(address, Len(address)) = "empty"
  BY <1>1, <1>2 DEF Fields, AllButLast, Many, Stop, Kind
<1>3. CASE Kind(address, Len(address)) # "empty"
  BY <1>1, <1>3 DEF Fields, Many, Stop, Kind
<1> QED
  BY <1>1, <1>2, <1>3

(* Without a leading "::" one field at most is empty.                      *)
LEMMA OneEmpty ==
  ASSUME address \in AddressTexts, Len(address) > 1, ~Several(Fields),
         NEW a \in 1 .. Many, NEW b \in 1 .. Many,
         Kind(address, a) = "empty", Kind(address, b) = "empty"
  PROVE  a = b
<1> SUFFICES ASSUME a # b PROVE FALSE
  OBVIOUS
<1>1. a \in Empties(Fields) /\ b \in Empties(Fields)
  BY FieldsOfAddress DEF Empties, Many
<1>2. IsFiniteSet(1 .. Many) /\ Empties(Fields) \in SUBSET (1 .. Many)
  BY FieldsOfAddress, FS_Interval DEF Empties, Many
<1>3. IsFiniteSet(Empties(Fields))
  BY <1>2, FS_Subset
<1>4. {a, b} \in SUBSET Empties(Fields)
  BY <1>1
<1>5. Cardinality({a, b}) <= Cardinality(Empties(Fields)) /\ Cardinality(Empties(Fields)) \in Nat
  BY <1>3, <1>4, FS_Subset, FS_CardinalityType
<1>6. Cardinality({a} \cup {b}) = 2
  <2> DEFINE One == {a}
  <2>1. IsFiniteSet(One) /\ Cardinality(One) = 1 /\ b \notin One
    BY FS_Singleton
  <2> HIDE DEF One
  <2>2. Cardinality(One \cup {b}) = Cardinality(One) + 1
    BY <2>1, FS_AddElement
  <2> QED
    BY <2>1, <2>2 DEF One
<1>7. {a} \cup {b} = {a, b}
  OBVIOUS
<1> QED
  BY <1>5, <1>6, <1>7 DEF Several

(* The parts are the fields, without the first if it is dropped.           *)
LEMMA PartsOfFields ==
  ASSUME address \in AddressTexts, Progress
  PROVE  /\ Skipped \in {0, 1} /\ Here \in Nat /\ Here > Skipped
         /\ Len(parts) = Many - Skipped
         /\ \A i \in 1 .. Len(parts) :
              parts[i] = address[i + Skipped] /\ Kind(parts, i) = Kind(address, i + Skipped)
         /\ Several(Fields) =>
              Many >= 2 /\ \A j \in 1 .. Many : Kind(address, j) = "empty" <=> j \in {1, 2}
<1>1. /\ Fields \in Seq(Field) /\ Len(Fields) = Many /\ Many \in Nat /\ Many >= 1
      /\ \A j \in 1 .. Many : Kind(Fields, j) = Kind(address, j) /\ Fields[j] = address[j]
  BY FieldsOfAddress DEF Progress, Many
<1>2. CASE Several(Fields)
  <2>1. Tail(Fields) \in Seq(Field) /\ Len(Tail(Fields)) = Many - 1
        /\ \A i \in 1 .. Many - 1 : Tail(Fields)[i] = Fields[i + 1]
    BY <1>1
  <2>2. Leading(Fields) /\ parts = Tail(Fields) /\ Skipped = 1
    BY <1>2 DEF Progress, Skipped
  <2>3. Many >= 2 /\ \A j \in 1 .. Many : Kind(address, j) = "empty" <=> j \in {1, 2}
    BY <1>1, <2>2 DEF Leading, Empties
  <2> QED
    BY <1>1, <2>1, <2>2, <2>3 DEF Progress, Here, Kind
<1>3. CASE ~Several(Fields)
  BY <1>1, <1>3 DEF Progress, Here, Kind, Skipped
<1> QED
  BY <1>2, <1>3

(* The turn that puts two bytes, or a star, has room for them, and puts    *)
(* them where the field stands.                                            *)
LEMMA TwoMore ==
  ASSUME address \in AddressTexts, Progress, part <= Len(parts),
         Kind(address, Here) \notin {"empty", "dotted", "long"}
  PROVE  /\ filled = Due(Here) /\ filled \in Nat /\ filled + 2 <= 16
         /\ Due(Here + 1) = filled + 2
         /\ Here <= Many /\ (HasRoom => Spot(Here) = filled)
         /\ Here + 1 = Many + 1 => ~LastIsDotted(Fields)
<1> DEFINE j == Here
<1>1. /\ Skipped \in {0, 1} /\ j \in Nat /\ j > Skipped /\ j <= Many
      /\ Many \in Nat /\ Many <= 8 /\ Many <= Len(address) /\ Many = Stop
      /\ Len(address) \in Nat /\ EndRoom \in {0, 2}
  BY PartsOfFields, FieldsOfAddress DEF Progress, Here, EndRoom
<1>2. filled = Due(j)
  BY <1>1 DEF Progress
<1>3. NoGap(j + 1) <=> NoGap(j)
  BY <1>1 DEF NoGap
<1>4. LastIsDotted(Fields) <=> Kind(address, Many) = "dotted"
  BY <1>1, FieldsOfAddress DEF LastIsDotted, Many, Progress
<1>5. ~NoGap(j) => j >= 2
  BY <1>1 DEF NoGap
<1>6. Due(j + 1) = Due(j) + 2 /\ Due(j) \in Nat /\ Due(j) + 2 <= 16
  BY <1>1, <1>3, <1>5 DEF Due
<1>7. Skipped = 1 => ~NoGap(j)
  BY <1>1, PartsOfFields DEF NoGap, Skipped
<1>8. ASSUME HasRoom PROVE Spot(j) = filled
  <2>1. CASE NoGap(j)
    <3>1. Skipped = 0 /\ \A k \in 1 .. j : Kind(address, k) # "empty"
      BY <1>1, <1>7, <2>1 DEF NoGap
    <3> QED
      BY <1>1, <1>2, <2>1, <3>1 DEF Spot, Due
  <2>2. CASE ~NoGap(j)
    <3>1. PICK k \in 1 .. j - 1 : Kind(address, k) = "empty"
      BY <2>2 DEF NoGap
    <3>2. Spot(j) = 16 - 2 * (Many + 1 - j) - (IF Kind(address, Many) = "dotted" THEN 2 ELSE 0)
      BY <1>1, <3>1 DEF Spot
    <3>3. k \in Empties(Fields)
      BY <1>1, <3>1, FieldsOfAddress DEF Empties, Many, Progress
    <3>4. EndRoom = IF Kind(address, Many) = "dotted" THEN 2 ELSE 0
      BY <1>4, <1>8, <3>3 DEF EndRoom, HasRoom
    <3> QED
      BY <1>2, <2>2, <3>2, <3>4 DEF Due
  <2> QED
    BY <2>1, <2>2
<1> QED
  BY <1>1, <1>2, <1>4, <1>6, <1>8

Same(k) == pieces'[k] = pieces[k] /\ (k \in starred' <=> k \in starred)

(* What is written behind the last piece filled leaves the fields that     *)
(* were read where they stand.                                             *)
LEMMA StandingStays ==
  ASSUME address \in AddressTexts, Progress, Written, part <= Len(parts),
         UNCHANGED address,
         filled \in Nat, filled <= 16,
         \A k \in 0 .. filled - 1 : Same(k),
         NEW j \in 1 .. Here - 1
  PROVE  Stands(j)' /\ Kind(address, j) # "dotted" /\ Spot(j)' = Spot(j) /\ Covers(j)' = Covers(j)
<1>1. Many \in Nat /\ Here <= Many /\ Here \in Nat
  BY PartsOfFields, FieldsOfAddress DEF Progress, Here
<1>2. Kind(address, j) # "dotted"
  BY <1>1 DEF Progress
<1>3. Spot(j)' = Spot(j) /\ Covers(j)' = Covers(j)
  BY DEF Spot, Covers, Stop, Kind
<1>4. Stands(j)
  BY DEF Written
<1>5. Kind(address, j) \in {"hex", "any"} => Spot(j) \in 0 .. filled - 1 /\ Spot(j) + 1 \in 0 .. filled - 1
  BY DEF Written
<1>6. Kind(address, j)' = Kind(address, j)
  OBVIOUS
<1>7. Kind(address, j) \in {"hex", "any"} => Same(Spot(j)) /\ Same(Spot(j) + 1)
  BY <1>5
<1>8. Stands(j)'
  BY <1>2, <1>3, <1>4, <1>6, <1>7 DEF Stands, Holds, HoldsAny, Same
<1> QED
  BY <1>2, <1>3, <1>8

(* What only depends on the text does not change.                          *)
LEMMA TextStays ==
  ASSUME UNCHANGED address
  PROVE  /\ Fields' = Fields /\ Many' = Many /\ Skipped' = Skipped /\ HasRoom' = HasRoom
         /\ Several(Fields)' = Several(Fields) /\ LastIsDotted(Fields)' = LastIsDotted(Fields)
         /\ Leading(Fields)' = Leading(Fields) /\ Omitted(Fields)' = Omitted(Fields)
         /\ Tail(Fields)' = Tail(Fields)
         /\ \A j : Kind(address, j)' = Kind(address, j) /\ Spot(j)' = Spot(j)
                  /\ Covers(j)' = Covers(j) /\ Due(j)' = Due(j)
  BY DEF Fields, AllButLast, Kind, Many, Skipped, Several, Empties, HasRoom, LastIsDotted,
       Spot, Stop, Covers, Due, NoGap, EndRoom, Leading, Omitted

(* One more field is read: what it leaves for the next.                    *)
LEMMA NextProgress ==
  ASSUME address \in AddressTexts, Progress, part <= Len(parts), NEW n, NextPart(n),
         Kind(address, Here) # "long", Kind(address, Here) = "dotted" => Here = Many,
         Kind(address, Here) = "dotted" => filled' = 12 /\ HasRoom,
         Kind(address, Here) # "dotted" => filled' = Due(Here + 1),
         HasRoom => Written'
  PROVE  Progress'
<1>1. UNCHANGED <<address, verdict, parts, omitted>> /\ part' = part + 1
  BY DEF NextPart
<1>2. /\ Fields' = Fields /\ Many' = Many /\ Skipped' = Skipped /\ HasRoom' = HasRoom
      /\ Several(Fields)' = Several(Fields) /\ LastIsDotted(Fields)' = LastIsDotted(Fields)
      /\ Leading(Fields)' = Leading(Fields) /\ Omitted(Fields)' = Omitted(Fields)
      /\ Tail(Fields)' = Tail(Fields)
  BY <1>1, TextStays
<1>3. Here' = Here + 1 /\ Here \in Nat /\ Here >= 1 /\ Here <= Many /\ Many \in Nat
  BY <1>1, <1>2, PartsOfFields, FieldsOfAddress DEF Here, Progress
<1>4. Here = Many => (LastIsDotted(Fields) <=> Kind(address, Here) = "dotted")
  BY <1>3, FieldsOfAddress DEF LastIsDotted, Many, Progress
<1>5. \A j : Kind(address, j)' = Kind(address, j) /\ Due(j)' = Due(j)
  BY <1>1, TextStays
<1>6. IF Here' = Many' + 1 /\ LastIsDotted(Fields)' THEN filled' = 12 /\ HasRoom' ELSE filled' = Due(Here)'
  BY <1>2, <1>3, <1>4, <1>5
<1>7. \A j \in 1 .. Here' - 1 :
       Kind(address, j)' # "long" /\ (Kind(address, j)' = "dotted" => j = Many')
  BY <1>2, <1>3, <1>5 DEF Progress
<1> QED
  BY <1>1, <1>2, <1>3, <1>6, <1>7 DEF Progress

(* A field with two bytes or a star is read, and its pieces stand.         *)
LEMMA ReadsOn ==
  ASSUME address \in AddressTexts, Progress, part <= Len(parts),
         Kind(address, Here) \in {"hex", "any"},
         NextPart(2),
         \A k \in 0 .. 15 : Same(k) \/ k \in {filled, filled + 1},
         NEW CONSTANT here, here = Here,
         HasRoom /\ Spot(here) = filled => Stands(here)'
  PROVE  Progress'
<1>1. /\ filled = Due(Here) /\ filled \in Nat /\ filled + 2 <= 16
      /\ Due(Here + 1) = filled + 2
      /\ Here <= Many /\ (HasRoom => Spot(Here) = filled)
  BY TwoMore
<1>2. UNCHANGED address /\ part' = part + 1 /\ filled' = filled + 2
  BY DEF NextPart
<1>3. \A j : Kind(address, j)' = Kind(address, j) /\ Spot(j)' = Spot(j) /\ Covers(j)' = Covers(j)
  BY <1>2, TextStays
<1>4. Here' = Here + 1 /\ Here \in Nat /\ Here >= 1
  BY <1>2, TextStays, PartsOfFields DEF Here, Progress
<1>5. ASSUME HasRoom PROVE Written'
  <2>1. Written /\ Spot(Here) = filled
    BY <1>1, <1>5 DEF Progress
  <2>2. ASSUME NEW j \in 1 .. Here PROVE Stands(j)'
    <3>1. CASE j = Here
      BY <1>1, <1>5, <3>1
    <3>2. CASE j # Here
      <4>1. j \in 1 .. Here - 1 /\ filled <= 16
        BY <1>1, <1>4, <3>2
      <4>2. ASSUME NEW k \in 0 .. filled - 1 PROVE Same(k)
        <5>1. k \in 0 .. 15 /\ k # filled /\ k # filled + 1
          BY <1>1
        <5> QED
          BY <5>1
      <4> QED
        BY <1>1, <1>2, <2>1, <4>1, <4>2, StandingStays
    <3> QED
      BY <3>1, <3>2
  <2>3. ASSUME NEW j \in 1 .. Here, Kind(address, j) \in {"hex", "any"}
        PROVE  Spot(j) \in Int /\ Spot(j) >= 0 /\ Spot(j) + 1 < filled + 2
    BY <1>1, <1>4, <2>1, <2>3 DEF Written
  <2>4. ASSUME NEW k \in 0 .. 15, \A j \in 1 .. Here : k \notin Covers(j)
        PROVE  Holds(k, 0)'
    <3>1. Covers(Here) = {filled, filled + 1}
      BY <2>1 DEF Covers
    <3>2. k # filled /\ k # filled + 1
      BY <1>4, <2>4, <3>1
    <3>3. Same(k)
      BY <3>2
    <3>4. \A j \in 1 .. Here - 1 : k \notin Covers(j)
      BY <1>4, <2>4
    <3>5. Holds(k, 0)
      BY <2>1, <3>4 DEF Written
    <3> QED
      BY <3>3, <3>5 DEF Same, Holds
  <2>5. Here' - 1 = Here
    BY <1>4
  <2> QED
    BY <1>2, <1>3, <2>2, <2>3, <2>4, <2>5 DEF Written
<1> QED
  BY <1>1, <1>2, <1>5, NextProgress

(* A field is of one of five kinds.                                        *)
LEMMA KindOfField ==
  ASSUME address \in AddressTexts, NEW j \in 1 .. Len(address)
  PROVE  Kind(address, j) \in {"empty", "any", "long", "hex", "dotted"}
<1>1. address[j] \in Field
  BY AddressAssumption
<1> QED
  BY <1>1 DEF Field, Kind

(* Behind the last piece filled there is nothing yet.                      *)
LEMMA RestIsZero ==
  ASSUME address \in AddressTexts, Progress, Written, part <= Len(parts),
         filled \in Nat, NEW k \in filled .. 15
  PROVE  Holds(k, 0)
<1>1. ASSUME NEW j \in 1 .. Here - 1 PROVE k \notin Covers(j)
  <2>1. Kind(address, j) \in {"empty", "any", "hex"}
    <3>1. Here \in Nat /\ Here <= Many /\ Many \in Nat /\ Many <= Len(address) /\ Len(address) \in Nat
      BY PartsOfFields, FieldsOfAddress DEF Progress, Here
    <3>2. j \in 1 .. Len(address) /\ j # Many
      BY <3>1
    <3> QED
      BY <3>2, KindOfField DEF Progress
  <2>2. Kind(address, j) \in {"hex", "any"} => Spot(j) \in Int /\ Spot(j) + 1 < filled
    BY DEF Written
  <2> QED
    BY <2>1, <2>2 DEF Covers
<1>2. k \in 0 .. 15
  OBVIOUS
<1> QED
  BY <1>1, <1>2 DEF Written

(* Four hexadecimal digits make two pieces.                                *)
LEMMA HexKeeps ==
  ASSUME AddressInv, FillHex PROVE AddressInv'
<1>1. /\ address \in AddressTexts /\ Progress /\ part <= Len(parts) /\ verdict = "filling"
      /\ pieces = [k \in 0 .. 15 |-> pieces[k]]
  BY DEF AddressInv, FillHex, Fills
<1>2. /\ Kind(parts, part) = Kind(address, Here) /\ parts[part] = address[Here]
      /\ Here = part + Skipped /\ part \in Nat /\ part >= 1
  BY <1>1, PartsOfFields DEF Here, Progress
<1>3. Kind(address, Here) = "hex"
  BY <1>2 DEF FillHex, Fills
<1>4. filled \in Nat /\ filled + 2 <= 16
  BY <1>1, <1>3, TwoMore
<1> DEFINE high == parts[part].value \div 256
           low == parts[part].value % 256
<1>5. pieces' = [k \in 0 .. 15 |-> IF k = filled THEN high ELSE IF k = filled + 1 THEN low ELSE pieces[k]]
  <2>1. Len(<<high, low>>) = 2 /\ <<high, low>>[1] = high /\ <<high, low>>[2] = low
    OBVIOUS
  <2> HIDE DEF high, low
  <2>2. pieces' = [k \in DOMAIN pieces \cup (filled .. filled + 2 - 1) |->
               IF k >= filled /\ k < filled + 2 THEN <<high, low>>[k - filled + 1] ELSE pieces[k]]
    BY <2>1 DEF FillHex, Put, high, low
  <2>3. DOMAIN pieces \cup (filled .. filled + 2 - 1) = 0 .. 15
    <3>1. DOMAIN pieces = 0 .. 15
      BY <1>1
    <3>2. \A k \in filled .. filled + 2 - 1 : k \in 0 .. 15
      BY <1>4
    <3> QED
      BY <3>1, <3>2
  <2>4. \A k \in 0 .. 15 : k >= filled /\ k < filled + 2 <=> k = filled \/ k = filled + 1
    BY <1>4
  <2> QED
    BY <1>4, <2>2, <2>3, <2>4
<1>6. UNCHANGED <<starred, address>> /\ NextPart(2)
  BY DEF FillHex, NextPart
<1>7. \A k \in 0 .. 15 : Same(k) \/ k \in {filled, filled + 1}
  BY <1>1, <1>5, <1>6 DEF Same
<1>8. HasRoom => Written
  BY <1>1 DEF Progress
<1>9. ASSUME NEW CONSTANT here, here = Here, HasRoom, Spot(here) = filled PROVE Stands(here)'
  <2>1. Kind(address, here) = "hex" /\ Kind(address, here)' = "hex" /\ Spot(here)' = filled
    BY <1>3, <1>6, <1>9 DEF Spot, Stop, Kind
  <2>2. filled \notin starred /\ filled + 1 \notin starred
    <3>1. \A k \in filled .. 15 : Holds(k, 0)
      BY <1>1, <1>4, <1>8, <1>9, RestIsZero
    <3> QED
      BY <1>4, <3>1 DEF Holds
  <2> QED
    BY <1>2, <1>4, <1>5, <1>6, <1>9, <2>1, <2>2 DEF Stands, Holds
<1>10. Progress'
  BY <1>1, <1>3, <1>6, <1>7, <1>9, ReadsOn
<1>11. AddressesFill' /\ pieces' = [k \in 0 .. 15 |-> pieces'[k]]
  BY <1>1, <1>5, <1>6 DEF AddressInv, AddressesFill, NextPart
<1> QED
  BY <1>1, <1>6, <1>10, <1>11 DEF AddressInv, NextPart

(* A star names two pieces.                                                *)
LEMMA AnyKeeps ==
  ASSUME AddressInv, FillAny PROVE AddressInv'
<1>1. /\ address \in AddressTexts /\ Progress /\ part <= Len(parts) /\ verdict = "filling"
      /\ pieces = [k \in 0 .. 15 |-> pieces[k]] /\ starred \subseteq 0 .. 15
  BY DEF AddressInv, AddressesFill, FillAny, Fills
<1>2. Kind(address, Here) = "any"
  BY <1>1, PartsOfFields DEF Here, Progress, FillAny, Fills
<1>3. filled \in Nat /\ filled + 2 <= 16
  BY <1>1, <1>2, TwoMore
<1>4. UNCHANGED <<pieces, address>> /\ NextPart(2) /\ starred' = starred \cup {filled, filled + 1}
  BY DEF FillAny, NextPart
<1>5. \A k \in 0 .. 15 : Same(k) \/ k \in {filled, filled + 1}
  BY <1>3, <1>4 DEF Same
<1>6. HasRoom => Written
  BY <1>1 DEF Progress
<1>7. ASSUME NEW CONSTANT here, here = Here, HasRoom, Spot(here) = filled PROVE Stands(here)'
  <2>1. Kind(address, here) = "any" /\ Kind(address, here)' = "any" /\ Spot(here)' = filled
    BY <1>2, <1>4, <1>7 DEF Spot, Stop, Kind
  <2>2. \A k \in filled .. 15 : Holds(k, 0)
    BY <1>1, <1>3, <1>6, <1>7, RestIsZero
  <2>3. pieces[filled] = 0 /\ pieces[filled + 1] = 0
    BY <1>3, <2>2 DEF Holds
  <2> QED
    BY <1>4, <2>1, <2>3 DEF Stands, HoldsAny
<1>8. Progress'
  BY <1>1, <1>2, <1>4, <1>5, <1>7, ReadsOn
<1>9. starred' \subseteq 0 .. 15
  BY <1>1, <1>3, <1>4
<1> QED
  BY <1>1, <1>4, <1>8, <1>9 DEF AddressInv, AddressesFill, NextPart

(* An omission makes as many pieces as are missing.                        *)
LEMMA OmittedKeeps ==
  ASSUME AddressInv, FillOmitted PROVE AddressInv'
<1>1. /\ address \in AddressTexts /\ Progress /\ part <= Len(parts) /\ verdict = "filling"
      /\ pieces = [k \in 0 .. 15 |-> pieces[k]] /\ starred \subseteq 0 .. 15
  BY DEF AddressInv, AddressesFill, FillOmitted, Fills
<1>2. /\ Kind(address, Here) = "empty" /\ Skipped \in {0, 1} /\ Here \in Nat /\ Here > Skipped
      /\ Here <= Many /\ Many \in Nat /\ Many >= 1 /\ Many <= 8 /\ EndRoom \in {0, 2}
  BY <1>1, PartsOfFields, FieldsOfAddress DEF Here, Progress, FillOmitted, Fills, EndRoom
<1>3. filled = Due(Here)
  <2>1. LastIsDotted(Fields) => Here # Many + 1
    BY <1>2
  <2> QED
    BY <1>1, <2>1 DEF Progress
<1>4. /\ omitted \in Nat /\ filled \in Nat /\ filled + 2 * omitted <= 16
      /\ Due(Here + 1) = filled + 2 * omitted
  <2>1. ~NoGap(Here + 1)
    BY <1>2 DEF NoGap
  <2>2. Due(Here + 1) = 16 - 2 * (Many - Here) - EndRoom
    BY <1>2, <2>1 DEF Due
  <2>3. CASE Several(Fields)
    <3>1. Here = 2 /\ Many >= 2 /\ Skipped = 1
      BY <1>1, <1>2, <2>3, PartsOfFields DEF Skipped
    <3>2. NoGap(Here)
      BY <3>1 DEF NoGap
    <3>3. filled = 0
      BY <1>3, <3>1, <3>2 DEF Due
    <3>4. omitted = 10 - Many - (IF LastIsDotted(Fields) THEN 1 ELSE 0)
      BY <1>1, <1>2, <2>3 DEF Progress, Omitted, Many
    <3> QED
      BY <1>2, <2>2, <2>3, <3>1, <3>3, <3>4 DEF EndRoom
  <2>4. CASE ~Several(Fields)
    <3>1. NoGap(Here) /\ Skipped = 0 /\ EndRoom = 0
      BY <1>1, <1>2, <2>4, OneEmpty DEF NoGap, Skipped, EndRoom, Progress
    <3>2. filled = 2 * (Here - 1)
      BY <1>2, <1>3, <3>1 DEF Due
    <3>3. omitted = 9 - Many
      BY <1>1, <1>2, <2>4 DEF Progress, Omitted, Many
    <3> QED
      BY <1>2, <2>2, <3>1, <3>2, <3>3
  <2> QED
    BY <2>3, <2>4
<1>5. pieces' = [k \in 0 .. 15 |-> IF k >= filled /\ k < filled + 2 * omitted THEN 0 ELSE pieces[k]]
  <2> DEFINE zeros == [k \in 1 .. 2 * omitted |-> 0]
  <2>1. Len(zeros) = 2 * omitted /\ \A k \in 1 .. 2 * omitted : zeros[k] = 0
    BY <1>4
  <2>2. pieces' = [k \in DOMAIN pieces \cup (filled .. filled + Len(zeros) - 1) |->
               IF k >= filled /\ k < filled + Len(zeros) THEN zeros[k - filled + 1] ELSE pieces[k]]
    BY DEF FillOmitted, Put
  <2> HIDE DEF zeros
  <2>3. DOMAIN pieces \cup (filled .. filled + Len(zeros) - 1) = 0 .. 15
    <3>1. DOMAIN pieces = 0 .. 15
      BY <1>1
    <3>2. filled .. filled + Len(zeros) - 1 \subseteq 0 .. 15
      BY <1>4, <2>1
    <3> QED
      BY <3>1, <3>2
  <2>4. \A k \in 0 .. 15 : k >= filled /\ k < filled + 2 * omitted => zeros[k - filled + 1] = 0
    BY <1>4, <2>1
  <2> QED
    BY <2>1, <2>2, <2>3, <2>4
<1>6. UNCHANGED <<starred, address>> /\ NextPart(2 * omitted) /\ filled' = filled + 2 * omitted
  BY DEF FillOmitted, NextPart
<1>7. ASSUME HasRoom PROVE Written'
  <2>1. Written
    BY <1>1, <1>7 DEF Progress
  <2>2. \A j : Kind(address, j)' = Kind(address, j) /\ Spot(j)' = Spot(j) /\ Covers(j)' = Covers(j)
    BY <1>6, TextStays
  <2>3. Here' = Here + 1 /\ Here' - 1 = Here
    BY <1>1, <1>2, <1>6, TextStays DEF Here, NextPart, Progress
  <2>4. ASSUME NEW j \in 1 .. Here PROVE Stands(j)'
    <3>1. CASE j = Here
      BY <1>2, <2>2, <3>1 DEF Stands
    <3>2. CASE j # Here
      <4>1. j \in 1 .. Here - 1 /\ filled <= 16 /\ \A k \in 0 .. filled - 1 : Same(k)
        BY <1>2, <1>4, <1>5, <1>6, <3>2 DEF Same
      <4> QED
        BY <1>1, <1>4, <1>6, <2>1, <4>1, StandingStays
    <3> QED
      BY <3>1, <3>2
  <2>5. ASSUME NEW j \in 1 .. Here, Kind(address, j) \in {"hex", "any"}
        PROVE  Spot(j) \in Int /\ Spot(j) >= 0 /\ Spot(j) + 1 < filled'
    <3>1. j \in 1 .. Here - 1
      BY <1>2, <2>5
    <3> QED
      BY <1>4, <1>6, <2>1, <2>5, <3>1 DEF Written
  <2>6. ASSUME NEW k \in 0 .. 15, \A j \in 1 .. Here : k \notin Covers(j)
        PROVE  Holds(k, 0)'
    <3>1. \A j \in 1 .. Here - 1 : k \notin Covers(j)
      BY <1>2, <2>6
    <3>2. Holds(k, 0)
      BY <2>1, <3>1 DEF Written
    <3> QED
      BY <1>5, <1>6, <3>2 DEF Holds
  <2> QED
    BY <2>2, <2>3, <2>4, <2>5, <2>6 DEF Written
<1>8. Progress'
  BY <1>1, <1>2, <1>4, <1>6, <1>7, NextProgress
<1>9. AddressesFill' /\ pieces' = [k \in 0 .. 15 |-> pieces'[k]]
  BY <1>1, <1>5, <1>6 DEF AddressInv, AddressesFill, NextPart
<1> QED
  BY <1>1, <1>6, <1>8, <1>9 DEF AddressInv, NextPart

(* The text is split, or refused.                                          *)
LEMMA SplitKeeps ==
  ASSUME AddressInv, Split PROVE AddressInv'
<1>1. /\ address \in AddressTexts /\ Len(address) > 1
      /\ UNCHANGED <<address, part, pieces, filled, starred>>
      /\ part = 1 /\ filled = 0 /\ starred = {} /\ \A k \in 0 .. 15 : pieces[k] = 0
  BY DEF AddressInv, Split, written
<1>2. AddressesFill' /\ verdict' # "unread" /\ pieces' = [k \in 0 .. 15 |-> pieces'[k]]
  BY <1>1 DEF AddressInv, AddressesFill, Split
<1>3. ASSUME verdict' = "filling" PROVE Progress'
  <2>1. /\ Many <= 8 /\ (Several(Fields) => Leading(Fields)) /\ omitted' = Omitted(Fields)
        /\ parts' = IF Several(Fields) THEN Tail(Fields) ELSE Fields
    <3>1. ~(Len(Fields) > 8 \/ (Several(Fields) /\ ~Leading(Fields)))
      BY <1>3 DEF Split
    <3> QED
      BY <1>1, <3>1, FieldsOfAddress DEF Split, Many
  <2>2. /\ Fields' = Fields /\ Many' = Many /\ Skipped' = Skipped /\ HasRoom' = HasRoom
        /\ Several(Fields)' = Several(Fields) /\ LastIsDotted(Fields)' = LastIsDotted(Fields)
        /\ Leading(Fields)' = Leading(Fields) /\ Omitted(Fields)' = Omitted(Fields)
        /\ Tail(Fields)' = Tail(Fields)
    BY <1>1, TextStays
  <2>3. Skipped \in {0, 1} /\ Many \in Nat /\ Many >= 1 /\ Here' = 1 + Skipped /\ Here' <= Many
    <3>1. Skipped = 1 => Many >= 2
      BY <2>1 DEF Skipped, Leading, Many
    <3> QED
      BY <1>1, <2>2, <3>1, FieldsOfAddress DEF Skipped, Here
  <2>4. \A j \in 1 .. Here' - 1 : Kind(address, j)' = "empty"
    <3>1. ASSUME Skipped = 1 PROVE Kind(address, 1) = "empty"
      <4>1. 1 \in Empties(Fields)
        BY <2>1, <3>1 DEF Skipped, Leading
      <4> QED
        BY <1>1, <2>3, <4>1, FieldsOfAddress DEF Empties, Many
    <3> QED
      BY <1>1, <2>3, <3>1
  <2>5. Due(Here)' = 0
    <3>1. NoGap(1 + Skipped)
      BY <2>3 DEF NoGap
    <3>2. Due(1 + Skipped) = 0
      BY <2>3, <3>1 DEF Due
    <3> QED
      BY <1>1, <2>3, <3>2, TextStays
  <2>6. Written'
    <3>1. \A j \in 1 .. Here' - 1 : Stands(j)'
      BY <2>4 DEF Stands
    <3>2. \A k \in 0 .. 15 : Holds(k, 0)'
      BY <1>1 DEF Holds
    <3> QED
      BY <2>4, <3>1, <3>2 DEF Written
  <2> QED
    BY <1>1, <2>1, <2>2, <2>3, <2>4, <2>5, <2>6 DEF Progress
<1> QED
  BY <1>1, <1>2, <1>3 DEF AddressInv

(* Four octets, behind what is there, stand where an IPv4 address does.    *)
LEMMA OctetsStand ==
  ASSUME address \in AddressTexts, NEW CONSTANT j \in 1 .. Len(address),
         Kind(address, j) = "dotted", OctetsOk(address[j].value), PutOctets(address[j].value),
         UNCHANGED address,
         pieces = [k \in 0 .. 15 |-> pieces[k]],
         \A k \in 12 .. 15 : Holds(k, 0)
  PROVE  /\ pieces' = [k \in 0 .. 15 |-> pieces'[k]]
         /\ \A k \in 0 .. 11 : Same(k)
         /\ Stands(j)'
         /\ starred' \subseteq starred \cup 12 .. 15
<1> PICK octets : octets = address[j].value
  OBVIOUS
<1>1. octets \in Seq(Octet)
  <2>1. address[j] \in Field /\ address[j].kind = "dotted"
    BY AddressAssumption DEF Kind
  <2>2. address[j] \in [kind : {"dotted"}, value : Seq(Octet)]
    BY <2>1 DEF Field
  <2> QED
    BY <2>2
<1>2. Len(octets) = 4 /\ PutOctets(octets)
  BY DEF OctetsOk
<1>3. \A k \in 1 .. 4 : octets[k].kind \in {"any", "dec"}
  <2>1. \A k \in 1 .. 4 : octets[k] \in Octet
    BY <1>1, <1>2
  <2> QED
    BY <2>1 DEF Octet
<1>4. pieces' = [k \in 0 .. 15 |-> IF k >= 12 /\ octets[k - 11].kind = "dec"
                  THEN octets[k - 11].value % 65536 ELSE pieces[k]]
  <2>1. DOMAIN pieces = 0 .. 15
    OBVIOUS
  <2> QED
    BY <1>2, <2>1 DEF PutOctets
<1>5. starred' = starred \cup {k \in 12 .. 15 : octets[k - 11].kind = "any"}
  BY <1>2 DEF PutOctets
<1>6. \A k \in 0 .. 11 : Same(k)
  BY <1>4, <1>5 DEF Same
<1>7. ASSUME NEW k \in 1 .. 4
      PROVE  /\ octets[k].kind = "any" => HoldsAny(11 + k)'
             /\ octets[k].kind = "dec" => Holds(11 + k, octets[k].value % 65536)'
  <2>1. 11 + k \in 12 .. 15 /\ 11 + k - 11 = k
    OBVIOUS
  <2>2. pieces[11 + k] = 0 /\ 11 + k \notin starred
    BY <2>1 DEF Holds
  <2>3. pieces'[11 + k] = IF octets[k].kind = "dec" THEN octets[k].value % 65536 ELSE 0
    BY <1>4, <2>1, <2>2
  <2>4. 11 + k \in starred' <=> octets[k].kind = "any"
    BY <1>5, <2>1, <2>2
  <2> QED
    BY <2>3, <2>4 DEF Holds, HoldsAny
<1>8. Stands(j)'
  <2>1. Kind(address, j)' = "dotted" /\ address'[j].value = octets
    OBVIOUS
  <2> QED
    BY <1>7, <2>1 DEF Stands
<1> QED
  BY <1>4, <1>5, <1>6, <1>8

(* A nested IPv4 address makes the last four pieces.                       *)
LEMMA DottedKeeps ==
  ASSUME AddressInv, FillDotted PROVE AddressInv'
<1>1. /\ address \in AddressTexts /\ Progress /\ part <= Len(parts) /\ verdict = "filling"
      /\ pieces = [k \in 0 .. 15 |-> pieces[k]] /\ starred \subseteq 0 .. 15
  BY DEF AddressInv, AddressesFill, FillDotted, Fills
<1>2. /\ Kind(address, Here) = "dotted" /\ parts[part] = address[Here] /\ Here = Many
      /\ Skipped \in {0, 1} /\ part \in Nat /\ part >= 1 /\ Many \in Nat
      /\ Many >= 1 /\ Many <= Len(address) /\ Len(address) \in Nat
  <2>1. part = Len(parts) /\ Kind(parts, part) = "dotted"
    BY DEF FillDotted, Fills, Nested
  <2>2. part \in Nat /\ part >= 1 /\ Len(address) > 1
    BY <1>1 DEF Progress
  <2>3. part \in 1 .. Len(parts)
    BY <2>1, <2>2
  <2>4. /\ Skipped \in {0, 1} /\ Len(parts) = Many - Skipped
        /\ parts[part] = address[part + Skipped] /\ Kind(parts, part) = Kind(address, part + Skipped)
    BY <1>1, <2>3, PartsOfFields
  <2> QED
    BY <1>1, <2>1, <2>2, <2>4, FieldsOfAddress DEF Here
<1>3. filled = 12 /\ OctetsOk(parts[part].value) /\ PutOctets(parts[part].value)
      /\ NextPart(0) /\ filled' = 12 /\ UNCHANGED address
  BY DEF FillDotted, Nested, NextPart
<1>4. filled = Due(Many)
  BY <1>1, <1>2 DEF Progress
<1>5. HasRoom
  <2> SUFFICES ASSUME LastIsDotted(Fields), ~Several(Fields), Empties(Fields) # {} PROVE FALSE
    BY DEF HasRoom
  <2>1. PICK k \in 1 .. Many : Kind(address, k) = "empty"
    BY <1>1, <1>2, FieldsOfAddress DEF Empties, Many, Progress
  <2>2. ~NoGap(Many) /\ EndRoom = 0
    BY <1>2, <2>1 DEF NoGap, Skipped, EndRoom
  <2> QED
    BY <1>2, <1>3, <1>4, <2>2 DEF Due
<1>6. Written
  BY <1>1, <1>5 DEF Progress
<1>7. \A k \in 12 .. 15 : Holds(k, 0)
  BY <1>1, <1>3, <1>6, RestIsZero
<1>8. PICK here \in 1 .. Len(address) : here = Here
  BY <1>2
<1>9. /\ pieces' = [k \in 0 .. 15 |-> pieces'[k]]
      /\ \A k \in 0 .. 11 : Same(k)
      /\ Stands(here)'
      /\ starred' \subseteq starred \cup 12 .. 15
  BY <1>1, <1>2, <1>3, <1>7, <1>8, OctetsStand
<1>10. Written'
  <2>1. \A j : Kind(address, j)' = Kind(address, j) /\ Spot(j)' = Spot(j) /\ Covers(j)' = Covers(j)
    BY <1>3, TextStays
  <2>2. Here' - 1 = here /\ filled' = filled
    BY <1>2, <1>3, <1>8, TextStays DEF Here, NextPart
  <2>3. ASSUME NEW j \in 1 .. here - 1
        PROVE  /\ Stands(j)'
               /\ Kind(address, j) \in {"hex", "any"} =>
                    Spot(j) \in Int /\ Spot(j) >= 0 /\ Spot(j) + 1 < filled
    <3>1. \A k \in 0 .. filled - 1 : Same(k)
      BY <1>3, <1>9
    <3>2. j \in 1 .. Here - 1
      BY <1>8
    <3>3. Stands(j)'
      BY <1>1, <1>3, <1>6, <3>1, <3>2, StandingStays
    <3> QED
      BY <1>6, <3>2, <3>3 DEF Written
  <2>4. ASSUME NEW k \in 0 .. 15, \A j \in 1 .. here : k \notin Covers(j)
        PROVE  Holds(k, 0)'
    <3>1. Covers(here) = 12 .. 15
      BY <1>2, <1>8 DEF Covers
    <3>2. k \notin 12 .. 15
      BY <2>4, <3>1
    <3>3. k \in 0 .. 11
      BY <3>2
    <3>4. \A j \in 1 .. Here - 1 : k \notin Covers(j)
      BY <1>8, <2>4
    <3>5. Holds(k, 0)
      BY <1>6, <3>4 DEF Written
    <3> QED
      BY <1>9, <3>3, <3>5 DEF Same, Holds
  <2>5. ASSUME NEW j \in 1 .. here
        PROVE  /\ Stands(j)'
               /\ Kind(address, j) \in {"hex", "any"} =>
                    Spot(j) \in Int /\ Spot(j) >= 0 /\ Spot(j) + 1 < filled
    <3>1. CASE j = here
      BY <1>2, <1>8, <1>9, <3>1
    <3>2. CASE j # here
      BY <2>3, <3>2
    <3> QED
      BY <3>1, <3>2
  <2> QED
    BY <2>1, <2>2, <2>4, <2>5 DEF Written
<1>11. Progress'
  BY <1>1, <1>2, <1>3, <1>5, <1>10, NextProgress
<1>12. starred' \subseteq 0 .. 15
  BY <1>1, <1>9
<1>13. DOMAIN pieces' = 0 .. 15
  BY <1>9
<1> QED
  BY <1>1, <1>3, <1>9, <1>11, <1>12, <1>13 DEF AddressInv, AddressesFill, NextPart

(* At the end of the loop every field has been read.                       *)
LEMMA EndsKeep ==
  ASSUME AddressInv, FillEnds PROVE AddressInv'
<1>1. /\ address \in AddressTexts /\ Progress /\ part > Len(parts) /\ verdict = "filling"
      /\ UNCHANGED <<address, parts, part, omitted, pieces, filled, starred>>
  BY DEF AddressInv, FillEnds, written
<1>2. /\ Here = Many + 1 /\ Many \in Nat /\ Many <= Len(address) /\ Len(address) <= Many + 1
      /\ Len(address) \in Nat
  BY <1>1, PartsOfFields, FieldsOfAddress DEF Here, Progress
<1>3. Written
  BY <1>1, <1>2 DEF Progress, HasRoom
<1>4. ASSUME NEW j \in 1 .. Len(address) PROVE Stands(j)
  <2>1. CASE j <= Many
    BY <1>2, <1>3, <2>1 DEF Written
  <2>2. CASE j > Many
    <3>1. Kind(address, j) = "empty"
      BY <1>1, <1>2, <2>2, FieldsOfAddress DEF Progress
    <3> QED
      BY <3>1 DEF Stands
  <2> QED
    BY <1>2, <2>1, <2>2
<1>5. ASSUME NEW k \in 0 .. 15, \A j \in 1 .. Len(address) : k \notin Covers(j)
      PROVE  Holds(k, 0)
  <2>1. \A j \in 1 .. Here - 1 : k \notin Covers(j)
    BY <1>2, <1>5
  <2> QED
    BY <1>3, <2>1 DEF Written
<1>6. /\ \A j \in 1 .. Len(address) : Stands(j)'
      /\ \A k \in 0 .. 15 :
           (\A j \in 1 .. Len(address) : k \notin Covers(j)') => Holds(k, 0)'
  <2>1. \A j : Kind(address, j)' = Kind(address, j) /\ Spot(j)' = Spot(j) /\ Covers(j)' = Covers(j)
    BY <1>1, TextStays
  <2>2. \A k : Holds(k, 0)' <=> Holds(k, 0)
    BY <1>1 DEF Holds
  <2>3. \A j : Stands(j)' <=> Stands(j)
    BY <1>1, <2>1 DEF Stands, Holds, HoldsAny
  <2> QED
    BY <1>4, <1>5, <2>1, <2>2, <2>3
<1>7. AddressesFill'
  BY <1>1, <1>6 DEF AddressInv, AddressesFill
<1>8. verdict' = "accepted"
  BY DEF FillEnds
<1> QED
  BY <1>1, <1>7, <1>8 DEF AddressInv

(* An IPv4 address by itself.                                              *)
LEMMA IPv4Keeps ==
  ASSUME AddressInv, ReadIPv4 PROVE AddressInv'
<1>1. /\ address \in AddressTexts /\ address' = address /\ Len(address) = 1
      /\ pieces = [k \in 0 .. 15 |-> pieces[k]] /\ starred = {} /\ \A k \in 0 .. 15 : pieces[k] = 0
      /\ verdict' \in {"accepted", "refused"}
  BY DEF AddressInv, ReadIPv4
<1>2. CASE verdict' = "refused"
  BY <1>1, <1>2 DEF AddressInv, AddressesFill, ReadIPv4
<1>3. CASE verdict' = "accepted"
  <2>1. Kind(address, 1) = "dotted" /\ OctetsOk(address[1].value) /\ PutOctets(address[1].value)
    BY <1>3 DEF ReadIPv4
  <2>2. \A k \in 0 .. 15 : Holds(k, 0)
    BY <1>1 DEF Holds
  <2>3. /\ pieces' = [k \in 0 .. 15 |-> pieces'[k]]
        /\ \A k \in 0 .. 11 : Same(k)
        /\ Stands(1)'
        /\ starred' \subseteq starred \cup 12 .. 15
    BY <1>1, <2>1, <2>2, OctetsStand
  <2>4. Covers(1)' = 12 .. 15
    BY <1>1, <2>1 DEF Covers, Kind
  <2>5. \A k \in 0 .. 11 : Holds(k, 0)'
    BY <1>1, <2>3 DEF Same, Holds
  <2>6. \A k \in 0 .. 15 : k \in 0 .. 11 \/ k \in 12 .. 15
    OBVIOUS
  <2>7. DOMAIN pieces' = 0 .. 15 /\ starred' \subseteq 0 .. 15
    BY <1>1, <2>3
  <2>8. AddressesFill'
    <3>1. \A j \in 1 .. Len(address') : j = 1
      BY <1>1
    <3>2. 1 \in 1 .. Len(address')
      BY <1>1
    <3> QED
      BY <2>3, <2>4, <2>5, <2>6, <2>7, <3>1, <3>2 DEF AddressesFill
  <2> QED
    BY <1>1, <1>3, <2>3, <2>8 DEF AddressInv
<1> QED
  BY <1>1, <1>2, <1>3

(* Every step keeps the invariant.                                         *)
LEMMA NextAddressInv == AddressInv /\ [AddressNext]_addressVars => AddressInv'
<1> SUFFICES ASSUME AddressInv, [AddressNext]_addressVars PROVE AddressInv'
  OBVIOUS
<1>1. ASSUME UNCHANGED <<address, parts, part, omitted, written>>,
             verdict' = "refused" \/ verdict' = verdict
      PROVE  AddressInv'
  <2>1. \A j : Kind(address, j)' = Kind(address, j) /\ Spot(j)' = Spot(j) /\ Covers(j)' = Covers(j)
    BY <1>1, TextStays
  <2>2. \A j : (Stands(j)' <=> Stands(j)) /\ (Holds(j, 0)' <=> Holds(j, 0))
    BY <1>1, <2>1 DEF Stands, Holds, HoldsAny, written
  <2>3. AddressesFill'
    BY <1>1, <2>1, <2>2 DEF AddressInv, AddressesFill, written
  <2>4. Written' <=> Written
    BY <1>1, <2>1, <2>2, TextStays DEF Written, Here, written
  <2>5. verdict' = "filling" => Progress'
    BY <1>1, <2>1, <2>4, TextStays DEF AddressInv, Progress, Here, written
  <2> QED
    BY <1>1, <2>3, <2>5 DEF AddressInv, written
<1>2. CASE RefusePart
  BY <1>1, <1>2 DEF RefusePart, Refuses
<1>3. CASE UNCHANGED addressVars
  BY <1>1, <1>3 DEF addressVars
<1> QED
  BY <1>2, <1>3, IPv4Keeps, SplitKeeps, HexKeeps, AnyKeeps, OmittedKeeps, DottedKeeps, EndsKeep
     DEF AddressNext

(* An address of any length that ip_representation accepts has sixteen     *)
(* pieces, with each field where it belongs, and no step writes behind the *)
(* last.                                                                   *)
THEOREM AddressFillsPieces == AddressSpec => []AddressesFill
<1>1. AddressInv => AddressesFill
  BY DEF AddressInv
<1> QED
  BY <1>1, InitAddressInv, NextAddressInv, PTL DEF AddressSpec
=============================================================================
