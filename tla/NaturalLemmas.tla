--------------------------- MODULE NaturalLemmas ---------------------------
(***************************************************************************)
(* Facts about the natural numbers that proofs about recursive definitions *)
(* and about counters rest on: least and greatest elements, induction over *)
(* a set, and functions defined by primitive recursion.                    *)
(***************************************************************************)
EXTENDS Integers, WellFoundedInduction, TLAPS

(* A set of natural numbers that is not empty has a least element.         *)
LEMMA LeastElement ==
    ASSUME NEW T, T \subseteq Nat, T # {}
    PROVE  \E x \in T : \A y \in T : x <= y
  <1> DEFINE R == {p \in Nat \X Nat : p[1] < p[2]}
  <1>1. IsWellFoundedOn(R, Nat)
    BY NatLessThanWellFounded DEF OpToRel
  <1>2. \A x, y \in Nat : <<y, x>> \in R <=> y < x
    OBVIOUS
  <1> HIDE DEF R
  <1>3. PICK x \in T : \A y \in T : ~(<<y, x>> \in R)
    BY <1>1, WFMin
  <1>4. \A y \in T : y \in Nat /\ x \in Nat /\ ~(y < x)
    BY <1>2, <1>3
  <1>5. \A y \in T : x <= y
    BY <1>4
  <1> QED
    BY <1>5

(* If it is bounded it has a greatest one.                                 *)
LEMMA GreatestElement ==
    ASSUME NEW b \in Nat, NEW T, T \subseteq 0 .. b, T # {}
    PROVE  \E x \in T : \A y \in T : y <= x
  <1> DEFINE U == {z \in Nat : b - z \in T}
  <1>1. \A x \in T : x \in Nat /\ x <= b
    OBVIOUS
  <1>2. U \subseteq Nat /\ U # {}
    <2>1. PICK x \in T : TRUE
      OBVIOUS
    <2>2. b - x \in Nat /\ b - (b - x) = x
      BY <1>1, <2>1
    <2> QED
      BY <2>1, <2>2
  <1>3. PICK z \in U : \A y \in U : z <= y
    BY <1>2, LeastElement
  <1>4. ASSUME NEW y \in T PROVE y <= b - z
    <2>1. b - y \in Nat /\ b - (b - y) = y /\ z \in Nat
      BY <1>1, <1>3
    <2>2. b - y \in U
      BY <2>1
    <2>3. z <= b - y
      BY <1>3, <2>2
    <2> QED
      BY <1>1, <2>1, <2>3
  <1> QED
    BY <1>3, <1>4

(* Induction, over a set instead of a predicate.                           *)
LEMMA SetInduction ==
    ASSUME NEW S, 0 \in S, \A n \in Nat : n \in S => n + 1 \in S
    PROVE  Nat \subseteq S
  <1> SUFFICES ASSUME Nat \ S # {} PROVE FALSE
    OBVIOUS
  <1>1. PICK x \in Nat \ S : \A y \in Nat \ S : x <= y
    BY LeastElement
  <1>2. x # 0 /\ x - 1 \in Nat /\ x - 1 \notin S
    BY <1>1
  <1> QED
    BY <1>1, <1>2

(* The functions that go from c, one step F[n] after another.              *)
StepsOn(V) == [Nat -> [V -> V]]
Iterates(V, c, F) == {f \in [Nat -> V] : f[0] = c /\ \A n \in Nat : f[n + 1] = F[n][f[n]]}

(* There is one: definition by primitive recursion.                        *)
LEMMA Iteration ==
    ASSUME NEW V, NEW c \in V, NEW F \in StepsOn(V)
    PROVE  Iterates(V, c, F) # {}
  <1> USE DEF StepsOn
  <1> DEFINE Upto(n) == {g \in [0 .. n -> V] : g[0] = c /\ \A i \in 0 .. n - 1 : g[i + 1] = F[i][g[i]]}
             S == {n \in Nat : Upto(n) # {}}
  <1>1. Nat \subseteq S
    <2>1. 0 \in S
      <3>1. [i \in 0 .. 0 |-> c] \in Upto(0)
        OBVIOUS
      <3> QED
        BY <3>1
    <2>2. ASSUME NEW n \in Nat, n \in S PROVE n + 1 \in S
      <3>1. PICK g \in Upto(n) : TRUE
        BY <2>2
      <3> DEFINE h == [i \in 0 .. n + 1 |-> IF i = n + 1 THEN F[n][g[n]] ELSE g[i]]
      <3>2. g \in [0 .. n -> V] /\ g[0] = c /\ \A i \in 0 .. n - 1 : g[i + 1] = F[i][g[i]]
        BY <3>1
      <3>3. F[n][g[n]] \in V
        BY <3>2
      <3>4. h \in [0 .. n + 1 -> V] /\ h[0] = c
        BY <3>2, <3>3
      <3>5. ASSUME NEW i \in 0 .. n PROVE h[i + 1] = F[i][h[i]]
        <4>1. CASE i = n
          <5>1. n \in 0 .. n + 1 /\ n + 1 \in 0 .. n + 1 /\ n # n + 1
            OBVIOUS
          <5>2. h[n + 1] = F[n][g[n]] /\ h[n] = g[n]
            BY <5>1
          <5> HIDE DEF h
          <5> QED
            BY <4>1, <5>2
        <4>2. CASE i \in 0 .. n - 1
          BY <3>2, <4>2
        <4> QED
          BY <4>1, <4>2
      <3>6. (n + 1) - 1 = n
        OBVIOUS
      <3> HIDE DEF h
      <3>7. h \in Upto(n + 1)
        BY <3>4, <3>5, <3>6
      <3> QED
        BY <3>7
    <2> HIDE DEF S
    <2> QED
      BY <2>1, <2>2, SetInduction
  <1>2. ASSUME NEW n \in Nat, NEW g \in Upto(n), NEW h \in Upto(n + 1) PROVE g[n] = h[n]
    <2> DEFINE E == {i \in Nat : i <= n => g[i] = h[i]}
    <2>1. /\ g[0] = c /\ \A i \in 0 .. n - 1 : g[i + 1] = F[i][g[i]]
          /\ h[0] = c /\ \A i \in 0 .. (n + 1) - 1 : h[i + 1] = F[i][h[i]]
      BY <1>2
    <2>2. 0 \in E
      BY <2>1
    <2>3. ASSUME NEW i \in Nat, i \in E PROVE i + 1 \in E
      <3> SUFFICES ASSUME i + 1 <= n PROVE g[i + 1] = h[i + 1]
        OBVIOUS
      <3>1. i \in 0 .. n - 1 /\ i \in 0 .. (n + 1) - 1 /\ g[i] = h[i]
        BY <2>3
      <3> QED
        BY <2>1, <3>1
    <2> HIDE DEF E
    <2>4. n \in E
      BY <2>2, <2>3, SetInduction
    <2> QED
      BY <2>4 DEF E
  <1> DEFINE G(n) == CHOOSE g \in Upto(n) : TRUE
             f == [n \in Nat |-> G(n)[n]]
  <1>3. \A n \in Nat : G(n) \in Upto(n)
    BY <1>1
  <1>4. \A n \in Nat : G(n) \in [0 .. n -> V] /\ G(n)[0] = c
                       /\ \A i \in 0 .. n - 1 : G(n)[i + 1] = F[i][G(n)[i]]
    BY <1>3
  <1>5. ASSUME NEW n \in Nat PROVE G(n)[n] = G(n + 1)[n]
    <2> HIDE DEF G, Upto
    <2>1. G(n) \in Upto(n) /\ G(n + 1) \in Upto(n + 1)
      BY <1>3, n + 1 \in Nat
    <2> QED
      BY <1>2, <2>1
  <1> HIDE DEF G
  <1>6. f \in [Nat -> V] /\ f[0] = c
    BY <1>4
  <1>7. ASSUME NEW n \in Nat PROVE f[n + 1] = F[n][f[n]]
    <2>1. n + 1 \in Nat /\ n \in 0 .. (n + 1) - 1
      OBVIOUS
    <2>2. G(n + 1)[n + 1] = F[n][G(n + 1)[n]]
      BY <1>4, <2>1
    <2> QED
      BY <1>5, <2>1, <2>2
  <1> QED
    BY <1>6, <1>7 DEF Iterates

(* Division with a remainder.                                              *)
LEMMA Division ==
    ASSUME NEW a \in Nat, NEW n \in Nat, n > 0
    PROVE  /\ a \div n \in Nat
           /\ n * (a \div n) <= a /\ a < n * (a \div n) + n
           /\ \A q \in Nat : n * q <= a => q <= a \div n
           /\ (n * a) \div n = a
  <1>1. a \div n \in Nat /\ n * (a \div n) <= a /\ a < n * (a \div n) + n
    BY Z3
  <1>2. \A q \in Nat : n * q <= a => q <= a \div n
    BY Z3
  <1>3. (n * a) \div n = a
    BY Z3
  <1> QED
    BY <1>1, <1>2, <1>3
=============================================================================
