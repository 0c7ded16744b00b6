------------------------------ MODULE Iteration ------------------------------
(***************************************************************************)
(* Induction stated with sets in place of predicates, so that the provers  *)
(* can use it, and what follows from it for loops: a recursive function    *)
(* over the turns of a loop exists.                                        *)
(***************************************************************************)
EXTENDS Integers, FiniteSets, FiniteSetTheorems, TLAPS

(* A set of naturals has a least one.                                      *)
LEMMA LeastNatural ==
  ASSUME NEW T, T \subseteq Nat, T # {}
  PROVE  \E n \in T : \A m \in T : n <= m
<1>1. PICK n \in T : \A m \in T : ~(<<m, n>> \in OpToRel(<, Nat))
  BY WFMin, NatLessThanWellFounded
<1>2. \A m \in T : ~(m < n)
  BY <1>1 DEF OpToRel
<1> QED
  BY <1>2

(* What holds at first and after each turn holds after every turn.         *)
LEMMA AfterEveryTurn ==
  ASSUME NEW n \in Nat, NEW T, 0 \in T,
         \A i \in 0 .. n - 1 : i \in T => i + 1 \in T
  PROVE  \A i \in 0 .. n : i \in T
<1> SUFFICES ASSUME {i \in 0 .. n : i \notin T} # {} PROVE FALSE
  OBVIOUS
<1> DEFINE U == {i \in 0 .. n : i \notin T}
<1>1. U \subseteq Nat /\ U # {}
  OBVIOUS
<1>2. PICK m \in U : \A k \in U : m <= k
  <2> HIDE DEF U
  <2> QED
    BY <1>1, LeastNatural
<1>3. m # 0 /\ m - 1 \in 0 .. n - 1 /\ m - 1 \notin U /\ m - 1 + 1 = m
  BY <1>2
<1> QED
  BY <1>2, <1>3

(* What holds of the empty set and is kept by one more element holds of    *)
(* every finite set.                                                       *)
LEMMA ElementByElement ==
  ASSUME NEW S, IsFiniteSet(S), NEW T, {} \in T,
         \A X \in SUBSET S : \A x \in S \ X : X \in T => X \cup {x} \in T
  PROVE  S \in T
<1> DEFINE Left(X) == Cardinality(S \ X)
           U == {n \in Nat : \E X \in SUBSET S : X \in T /\ Left(X) = n}
<1>1. \A X \in SUBSET S : IsFiniteSet(S \ X) /\ Left(X) \in Nat
  BY FS_Difference, FS_CardinalityType
<1>2. U \subseteq Nat /\ Left({}) \in U
  BY <1>1
<1>3. PICK n \in U : \A m \in U : n <= m
  <2> HIDE DEF U
  <2> QED
    BY <1>2, LeastNatural
<1>4. PICK X \in SUBSET S : X \in T /\ Left(X) = n
  BY <1>3
<1>5. ASSUME NEW x \in S \ X PROVE FALSE
  <2>1. X \cup {x} \in SUBSET S /\ X \cup {x} \in T
    BY <1>4, <1>5
  <2>2. S \ (X \cup {x}) = (S \ X) \ {x}
    OBVIOUS
  <2>3. Cardinality((S \ X) \ {x}) = Cardinality(S \ X) - 1
    BY <1>1, FS_RemoveElement
  <2>4. Left(X \cup {x}) = n - 1
    BY <1>4, <2>2, <2>3
  <2>5. n - 1 \in U /\ n \in Nat
    BY <1>1, <1>3, <2>1, <2>4
  <2> HIDE DEF U
  <2> QED
    BY <1>3, <2>5
<1> QED
  BY <1>4, <1>5

(* The values of a loop's variable in V: b at first, and step of the last  *)
(* value and the number of the turn after each.                            *)
IsLoop(g, n, V, b, step) ==
  /\ g \in [0 .. n -> V]
  /\ g[0] = b
  /\ \A i \in 1 .. n : g[i] = step[<<g[i - 1], i>>]

LEMMA LoopExists ==
  ASSUME NEW n \in Nat, NEW V, NEW b \in V, NEW step \in [V \X (1 .. n) -> V]
  PROVE  \E g : IsLoop(g, n, V, b, step)
<1> DEFINE Runs(g, m) == IsLoop(g, m, V, b, step)
           T == {m \in 0 .. n : \E g : Runs(g, m)}
<1>1. 0 \in T
  <2>1. Runs([i \in 0 .. 0 |-> b], 0)
    BY DEF IsLoop
  <2> HIDE DEF Runs
  <2> QED
    BY <2>1
<1>2. ASSUME NEW m \in 0 .. n - 1, m \in T PROVE m + 1 \in T
  <2>1. PICK g : Runs(g, m)
    BY <1>2
  <2>2. m + 1 \in 1 .. n /\ g[m] \in V
    BY <2>1 DEF IsLoop
  <2> DEFINE h == [i \in 0 .. m + 1 |-> IF i <= m THEN g[i] ELSE step[<<g[m], m + 1>>]]
  <2>3. step[<<g[m], m + 1>>] \in V
    BY <2>2
  <2>4. h \in [0 .. m + 1 -> V]
    BY <2>1, <2>3 DEF IsLoop
  <2>5. h[0] = b
    BY <2>1 DEF IsLoop
  <2>6. ASSUME NEW i \in 1 .. m + 1 PROVE h[i] = step[<<h[i - 1], i>>]
    <3>1. CASE i <= m
      <4>1. i \in 1 .. m /\ i - 1 \in 0 .. m
        BY <3>1
      <4>2. h[i] = g[i] /\ h[i - 1] = g[i - 1]
        BY <3>1, <4>1
      <4> QED
        BY <2>1, <4>1, <4>2 DEF IsLoop
    <3>2. CASE ~(i <= m)
      <4>1. i = m + 1 /\ i - 1 = m
        BY <3>2
      <4>2. h[m + 1] = step[<<g[m], m + 1>>] /\ h[m] = g[m]
        OBVIOUS
      <4> QED
        BY <4>1, <4>2
    <3> QED
      BY <3>1, <3>2
  <2>7. Runs(h, m + 1)
    <3> HIDE DEF h
    <3> QED
      BY <2>4, <2>5, <2>6 DEF IsLoop
  <2> HIDE DEF Runs
  <2> QED
    BY <2>2, <2>7
<1>3. \A m \in 0 .. n : m \in T
  <2> HIDE DEF T
  <2> QED
    BY <1>1, <1>2, AfterEveryTurn
<1>4. PICK g : Runs(g, n)
  BY <1>3
<1> QED
  BY <1>4
=============================================================================
