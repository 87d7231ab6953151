--------------------------- MODULE StreamMtProofs ---------------------------
(***************************************************************************)
(* Proofs about StreamMt, for every number of workers, every grid, every   *)
(* buffer size and every series of calls.  First the grid: the bounds of a *)
(* frame ascend from its start to its end, which the epochs (recursive     *)
(* functions) get by induction over sets of naturals.  Then StreamInv, the *)
(* inductive invariant, part by part: what a call may have left unplanned  *)
(* (Planned), unposted (Chain, Marked) or unclosed (Closed) at each point  *)
(* of it; what the workers have claimed, counted and lost to a panic       *)
(* (Serving, Counting, Poison); and what of the buffer they still read     *)
(* (Viewed).  Last, where the jobs end (Gridded): at the points of the     *)
(* grid while the frame is open, at the cuts of the whole input when it is *)
(* closed.                                                                 *)
(***************************************************************************)
EXTENDS StreamMt, NaturalLemmas, FiniteSetTheorems, SequenceTheorems, TLAPS

-----------------------------------------------------------------------------
(* The epochs of the growing grid.                                        *)

(* A job of the growing grid is never empty.                               *)
LEMMA CapPositive == GrowingJobCap \in Nat /\ GrowingJobCap > 0
  <1>1. \A a, b \in Nat : b > 0 => a \div b \in Nat
    OBVIOUS
  <1> QED
    BY <1>1, StreamGridAssumption DEF GrowingJobCap, Most

(* The epochs' job sizes: the equation that defines them has a solution,   *)
(* and each size is positive.                                              *)
LEMMA EpochSizes ==
    /\ EpochSize \in [Nat -> Nat]
    /\ EpochSize[0] = Least(Most(MinJob, Overlap), GrowingJobCap)
    /\ \A k \in Nat : EpochSize[k] > 0
                      /\ EpochSize[k + 1] = Least(2 * EpochSize[k], GrowingJobCap)
  <1> DEFINE V == {n \in Nat : n > 0}
             c == Least(Most(MinJob, Overlap), GrowingJobCap)
             F == [n \in Nat |-> [v \in V |-> Least(2 * v, GrowingJobCap)]]
  <1>1. c \in V /\ \A v \in V : Least(2 * v, GrowingJobCap) \in V
    BY CapPositive, StreamGridAssumption DEF Least, Most
  <1>2. F \in StepsOn(V)
    BY <1>1 DEF StepsOn
  <1>3. \A n \in Nat, v \in V : F[n][v] = Least(2 * v, GrowingJobCap)
    OBVIOUS
  <1> HIDE DEF c, F, V
  <1>4. PICK f \in Iterates(V, c, F) : TRUE
    BY <1>1, <1>2, Iteration
  <1>5. f \in [Nat -> V] /\ f[0] = c /\ \A n \in Nat : f[n + 1] = F[n][f[n]]
    BY <1>4 DEF Iterates
  <1>6. \A k \in Nat : f[k] = IF k = 0 THEN c ELSE Least(2 * f[k - 1], GrowingJobCap)
    <2>1. \A k \in Nat : k # 0 => k - 1 \in Nat /\ (k - 1) + 1 = k
      OBVIOUS
    <2> QED
      BY <1>3, <1>5, <2>1
  <1>7. f = [k \in Nat |-> IF k = 0 THEN c ELSE Least(2 * f[k - 1], GrowingJobCap)]
    BY <1>5, <1>6
  <1>8. EpochSize = [k \in Nat |-> IF k = 0 THEN c
                                   ELSE Least(2 * EpochSize[k - 1], GrowingJobCap)]
    BY <1>7 DEF EpochSize, c
  <1>9. EpochSize[0] = c
    BY <1>8
  <1>10. \A k \in Nat : EpochSize[k + 1] = Least(2 * EpochSize[k], GrowingJobCap)
    <2>1. \A k \in Nat : k + 1 \in Nat /\ k + 1 # 0 /\ (k + 1) - 1 = k
      OBVIOUS
    <2> HIDE DEF c
    <2> QED
      BY <1>8, <2>1
  <1> DEFINE S == {k \in Nat : EpochSize[k] \in V}
  <1>11. 0 \in S
    BY <1>1, <1>9
  <1>12. \A k \in Nat : k \in S => k + 1 \in S
    BY <1>1, <1>10
  <1> HIDE DEF S
  <1>13. \A k \in Nat : EpochSize[k] \in V
    <2>1. Nat \subseteq S
      BY <1>11, <1>12, SetInduction
    <2> QED
      BY <2>1 DEF S
  <1>14. EpochSize \in [Nat -> V]
    BY <1>8, <1>13
  <1> QED
    BY <1>9, <1>10, <1>13, <1>14 DEF c, V

(* The epochs' starts, likewise; each epoch begins after the one before.   *)
LEMMA EpochStarts ==
    /\ EpochLo \in [Nat -> Nat]
    /\ EpochLo[0] = 0
    /\ \A k \in Nat : EpochLo[k + 1] = EpochLo[k] + Burst * EpochSize[k]
    /\ \A k \in Nat : EpochLo[k] < EpochLo[k + 1] /\ k <= EpochLo[k]
  <1> DEFINE F == [n \in Nat |-> [v \in Nat |-> v + Burst * EpochSize[n]]]
  <1>1. \A n \in Nat : Burst * EpochSize[n] \in Nat /\ Burst * EpochSize[n] > 0
    <2>1. \A a, b \in Nat : a > 0 /\ b > 0 => a * b \in Nat /\ a * b > 0
      BY Z3
    <2> QED
      BY <2>1, EpochSizes, StreamGridAssumption
  <1>2. F \in StepsOn(Nat)
    BY <1>1 DEF StepsOn
  <1>3. \A n \in Nat, v \in Nat : F[n][v] = v + Burst * EpochSize[n]
    OBVIOUS
  <1> HIDE DEF F
  <1>4. PICK f \in Iterates(Nat, 0, F) : TRUE
    BY <1>2, Iteration
  <1>5. f \in [Nat -> Nat] /\ f[0] = 0 /\ \A n \in Nat : f[n + 1] = F[n][f[n]]
    BY <1>4 DEF Iterates
  <1>6. ASSUME NEW k \in Nat
        PROVE  f[k] = IF k = 0 THEN 0 ELSE f[k - 1] + Burst * EpochSize[k - 1]
    <2>1. CASE k = 0
      BY <1>5, <2>1
    <2>2. CASE k # 0
      <3>1. k - 1 \in Nat /\ (k - 1) + 1 = k
        BY <2>2
      <3>2. f[k] = F[k - 1][f[k - 1]] /\ f[k - 1] \in Nat
        BY <1>5, <3>1
      <3>3. f[k] = f[k - 1] + Burst * EpochSize[k - 1]
        BY <1>3, <3>1, <3>2
      <3> QED
        BY <2>2, <3>3
    <2> QED
      BY <2>1, <2>2
  <1>7. f = [k \in Nat |-> IF k = 0 THEN 0 ELSE f[k - 1] + Burst * EpochSize[k - 1]]
    BY <1>5, <1>6
  <1>8. EpochLo = [k \in Nat |-> IF k = 0 THEN 0 ELSE EpochLo[k - 1] + Burst * EpochSize[k - 1]]
    BY <1>7 DEF EpochLo
  <1>9. EpochLo[0] = 0
    BY <1>8
  <1>10. \A k \in Nat : EpochLo[k + 1] = EpochLo[k] + Burst * EpochSize[k]
    <2>1. \A k \in Nat : k + 1 \in Nat /\ k + 1 # 0 /\ (k + 1) - 1 = k
      OBVIOUS
    <2> QED
      BY <1>8, <2>1
  <1> DEFINE S == {k \in Nat : EpochLo[k] \in Nat /\ k <= EpochLo[k]}
  <1>11. 0 \in S
    BY <1>9
  <1>12. ASSUME NEW k \in Nat, k \in S PROVE k + 1 \in S
    <2>1. EpochLo[k] \in Nat /\ k <= EpochLo[k]
      BY <1>12
    <2> QED
      BY <1>1, <1>10, <2>1
  <1> HIDE DEF S
  <1>13. \A k \in Nat : EpochLo[k] \in Nat /\ k <= EpochLo[k]
    <2>1. Nat \subseteq S
      BY <1>11, <1>12, SetInduction
    <2> QED
      BY <2>1 DEF S
  <1>14. EpochLo \in [Nat -> Nat]
    BY <1>8, <1>13
  <1>15. \A k \in Nat : EpochLo[k] < EpochLo[k + 1]
    BY <1>1, <1>10, <1>13
  <1> QED
    BY <1>9, <1>10, <1>13, <1>14, <1>15

(* Every offset lies in an epoch.                                          *)
LEMMA EpochFound ==
    ASSUME NEW o \in Nat
    PROVE  EpochOf(o) \in 0 .. o /\ EpochLo[EpochOf(o)] <= o /\ o < EpochLo[EpochOf(o) + 1]
  <1> DEFINE T == {k \in 0 .. o : EpochLo[k] <= o}
  <1>1. 0 \in T
    BY EpochStarts
  <1>2. PICK k \in T : \A j \in T : j <= k
    BY <1>1, GreatestElement
  <1>3. k \in 0 .. o /\ EpochLo[k] <= o
    BY <1>2
  <1>4. o < EpochLo[k + 1]
    <2>1. k + 1 \in Nat /\ EpochLo[k + 1] \in Nat /\ k + 1 <= EpochLo[k + 1]
      BY <1>3, EpochStarts
    <2>2. CASE k + 1 \in 0 .. o
      BY <1>2, <1>3, <2>1, <2>2
    <2>3. CASE k = o
      BY <2>1, <2>3
    <2> QED
      BY <1>3, <2>2, <2>3
  <1> QED
    BY <1>3, <1>4 DEF EpochOf

(* The epochs ascend.                                                      *)
LEMMA EpochsAscend ==
    ASSUME NEW i \in Nat, NEW j \in Nat, i < j
    PROVE  EpochLo[i + 1] <= EpochLo[j]
  <1> DEFINE S == {n \in Nat : EpochLo[i + 1] <= EpochLo[(i + 1) + n]}
  <1>1. 0 \in S
    BY EpochStarts
  <1>2. ASSUME NEW n \in Nat, n \in S PROVE n + 1 \in S
    <2>1. /\ (i + 1) + n \in Nat /\ (i + 1) + (n + 1) = ((i + 1) + n) + 1
          /\ EpochLo[i + 1] \in Nat /\ EpochLo[(i + 1) + n] \in Nat
          /\ EpochLo[((i + 1) + n) + 1] \in Nat
          /\ EpochLo[(i + 1) + n] < EpochLo[((i + 1) + n) + 1]
      BY EpochStarts
    <2> QED
      BY <1>2, <2>1
  <1> HIDE DEF S
  <1>3. j - (i + 1) \in S
    <2>1. Nat \subseteq S
      BY <1>1, <1>2, SetInduction
    <2> QED
      BY <2>1
  <1> QED
    BY <1>3 DEF S

(* An offset has one epoch only.                                           *)
LEMMA EpochUnique ==
    ASSUME NEW o \in Nat, NEW k \in Nat, EpochLo[k] <= o, o < EpochLo[k + 1]
    PROVE  EpochOf(o) = k
  <1> DEFINE e == EpochOf(o)
  <1>1. e \in Nat /\ EpochLo[e] <= o /\ o < EpochLo[e + 1]
    BY EpochFound
  <1>2. /\ EpochLo[e] \in Nat /\ EpochLo[e + 1] \in Nat
        /\ EpochLo[k] \in Nat /\ EpochLo[k + 1] \in Nat
    BY <1>1, EpochStarts
  <1>3. ~(e < k)
    BY <1>1, <1>2, EpochsAscend
  <1>4. ~(k < e)
    BY <1>1, <1>2, EpochsAscend
  <1> QED
    BY <1>1, <1>3, <1>4

(* A job ends after it begins, and so does an epoch.                       *)
LEMMA JobAhead ==
    ASSUME NEW grid, NEW o \in Nat
    PROVE  /\ JobEnd(grid, o) \in Nat /\ o < JobEnd(grid, o)
           /\ EpochEnd(o) \in Nat /\ o < EpochEnd(o)
           /\ EpochFloor(o) \in Nat /\ EpochFloor(o) <= o
  <1>1. EpochOf(o) \in Nat
    BY EpochFound
  <1>2. EpochSize[EpochOf(o)] \in Nat /\ EpochSize[EpochOf(o)] > 0
    BY <1>1, EpochSizes
  <1>3. o < JobEnd(grid, o) /\ JobEnd(grid, o) \in Nat
    BY <1>2, StreamGridAssumption DEF JobEnd
  <1>4. /\ EpochEnd(o) \in Nat /\ o < EpochEnd(o)
        /\ EpochFloor(o) \in Nat /\ EpochFloor(o) <= o
    BY <1>1, EpochFound, EpochStarts DEF EpochEnd, EpochFloor
  <1> QED
    BY <1>3, <1>4

-----------------------------------------------------------------------------
(* The walk along the grid, one job at a time.                            *)

(* Cuts: offsets that ascend from lo to hi.                                *)
Cuts(c, lo, hi) ==
    /\ c \in Seq(Nat) /\ Len(c) > 0
    /\ c[1] = lo /\ c[Len(c)] = hi
    /\ \A i \in 1 .. Len(c) - 1 : c[i] < c[i + 1]

(* The recursive walk is well defined, because it ends: it unrolls as it   *)
(* is written.                                                             *)
LEMMA WalkUnrolls ==
    ASSUME NEW grid, NEW hi \in Nat, NEW o \in Nat
    PROVE  /\ Walk(grid, o, hi) \in Seq(Nat)
           /\ o >= hi => Walk(grid, o, hi) = <<o>>
           /\ o < hi => Walk(grid, o, hi) = <<o>> \o Walk(grid, Least(JobEnd(grid, o), hi), hi)
  <1> DEFINE V == [Nat -> Seq(Nat)]
             Then(p) == Least(JobEnd(grid, p), hi)
             U(p, g) == IF p >= hi THEN <<p>> ELSE <<p>> \o g[Then(p)]
             c == [p \in Nat |-> <<p>>]
             R(g) == [p \in Nat |-> U(p, g)]
             F == [n \in Nat |-> [g \in V |-> R(g)]]
  <1>1. \A p \in Nat : Then(p) \in Nat /\ (p < hi => p < Then(p) /\ Then(p) <= hi)
    BY JobAhead DEF Least
  <1> HIDE DEF Then
  <1>2. \A p \in Nat : <<p>> \in Seq(Nat)
    OBVIOUS
  <1>3. ASSUME NEW p \in Nat, NEW g, p < hi => g[Then(p)] \in Seq(Nat) PROVE U(p, g) \in Seq(Nat)
    BY <1>2, <1>3, ConcatProperties
  <1>4. ASSUME NEW p \in Nat, NEW g, NEW h, p < hi => g[Then(p)] = h[Then(p)]
        PROVE  U(p, g) = U(p, h)
    BY <1>4
  <1>5. ASSUME NEW p \in Nat, NEW g
        PROVE  /\ p >= hi => U(p, g) = <<p>>
               /\ p < hi => U(p, g) = <<p>> \o g[Then(p)]
    OBVIOUS
  <1>6. c \in V
    BY <1>2
  <1> HIDE DEF U
  <1>7. \A g \in V : R(g) \in V
    <2> SUFFICES ASSUME NEW g \in V, NEW p \in Nat PROVE U(p, g) \in Seq(Nat)
      OBVIOUS
    <2> QED
      BY <1>1, <1>3
  <1>8. F \in StepsOn(V)
    BY <1>7 DEF StepsOn
  <1>9. \A n \in Nat, g \in V : F[n][g] = R(g)
    OBVIOUS
  <1>10. \A g : \A p \in Nat : R(g)[p] = U(p, g)
    OBVIOUS
  <1>11. \A p \in Nat : c[p] = <<p>>
    OBVIOUS
  <1> HIDE DEF F, V, R, c
  <1>12. PICK G \in Iterates(V, c, F) : TRUE
    BY <1>6, <1>8, Iteration
  <1>13. G \in [Nat -> V] /\ G[0] = c /\ \A n \in Nat : G[n + 1] = R(G[n])
    BY <1>9, <1>12 DEF Iterates
  <1>14. \A n \in Nat, p \in Nat : G[n + 1][p] = U(p, G[n])
    BY <1>10, <1>13
  <1>15. \A n \in Nat, p \in Nat : p >= hi => G[n][p] = <<p>>
    <2> SUFFICES ASSUME NEW n \in Nat, NEW p \in Nat, p >= hi, n # 0 PROVE G[n][p] = <<p>>
      BY <1>11, <1>13
    <2>1. n - 1 \in Nat /\ (n - 1) + 1 = n
      OBVIOUS
    <2> QED
      BY <1>5, <1>14, <2>1
  <1> DEFINE S == {n \in Nat : \A p \in Nat : hi - p <= n => G[n + 1][p] = G[n][p]}
  <1>16. 0 \in S
    BY <1>15
  <1>17. ASSUME NEW n \in Nat, n \in S PROVE n + 1 \in S
    <2> SUFFICES ASSUME NEW p \in Nat, hi - p <= n + 1
                 PROVE  G[(n + 1) + 1][p] = G[n + 1][p]
      OBVIOUS
    <2>1. p < hi => Then(p) \in Nat /\ hi - Then(p) <= n
      BY <1>1
    <2>2. p < hi => G[n + 1][Then(p)] = G[n][Then(p)]
      BY <1>17, <2>1
    <2>3. G[(n + 1) + 1][p] = U(p, G[n + 1]) /\ G[n + 1][p] = U(p, G[n])
      BY <1>14, n + 1 \in Nat
    <2> QED
      BY <1>4, <2>2, <2>3
  <1> HIDE DEF S
  <1>18. \A n, p \in Nat : hi - p <= n => G[n + 1][p] = G[n][p]
    <2>1. Nat \subseteq S
      BY <1>16, <1>17, SetInduction
    <2> QED
      BY <2>1 DEF S
  <1> DEFINE D == [p \in Nat |-> G[hi][p]]
  <1>19. ASSUME NEW p \in Nat PROVE D[p] = U(p, D)
    <2>1. CASE p >= hi
      BY <1>5, <1>15, <2>1
    <2>2. CASE p < hi
      <3>1. hi - 1 \in Nat /\ (hi - 1) + 1 = hi
        BY <2>2
      <3>2. Then(p) \in Nat /\ hi - Then(p) <= hi - 1
        BY <1>1, <2>2
      <3>3. G[hi][Then(p)] = G[hi - 1][Then(p)]
        BY <1>18, <3>1, <3>2
      <3>4. D[Then(p)] = G[hi - 1][Then(p)]
        BY <3>2, <3>3
      <3>5. D[p] = U(p, G[hi - 1])
        BY <1>14, <3>1
      <3> HIDE DEF D
      <3> QED
        BY <1>4, <3>4, <3>5
    <2> QED
      BY <2>1, <2>2
  <1>20. D = [p \in Nat |-> U(p, D)]
    BY <1>19
  <1> HIDE DEF D
  <1> DEFINE W == CHOOSE cuts : cuts = [p \in Nat |-> U(p, cuts)]
  <1>21. W = [p \in Nat |-> U(p, W)]
    BY <1>20
  <1>22. \A p \in Nat : Walk(grid, p, hi) = W[p]
    BY DEF Walk, Then, U
  <1> HIDE DEF W
  <1>23. \A p \in Nat : W[p] = U(p, W)
    BY <1>21
  <1> DEFINE T == {n \in Nat : \A p \in Nat : hi - p <= n => W[p] \in Seq(Nat)}
  <1>24. 0 \in T
    <2>1. ASSUME NEW p \in Nat, hi - p <= 0 PROVE W[p] \in Seq(Nat)
      <3>1. p >= hi
        BY <2>1
      <3>2. W[p] = <<p>>
        BY <1>5, <1>23, <3>1
      <3> QED
        BY <1>2, <3>2
    <2> QED
      BY <2>1
  <1>25. ASSUME NEW n \in Nat, n \in T PROVE n + 1 \in T
    <2> SUFFICES ASSUME NEW p \in Nat, hi - p <= n + 1 PROVE W[p] \in Seq(Nat)
      OBVIOUS
    <2>1. p < hi => Then(p) \in Nat /\ hi - Then(p) <= n
      BY <1>1
    <2>2. p < hi => W[Then(p)] \in Seq(Nat)
      BY <1>25, <2>1
    <2> QED
      BY <1>3, <1>23, <2>2
  <1> HIDE DEF T
  <1>26. \A p \in Nat : W[p] \in Seq(Nat)
    <2>1. Nat \subseteq T
      BY <1>24, <1>25, SetInduction
    <2>2. \A p \in Nat : hi - p <= hi
      OBVIOUS
    <2> QED
      BY <2>1, <2>2 DEF T
  <1>27. W[o] \in Seq(Nat) /\ Walk(grid, o, hi) = W[o]
    BY <1>22, <1>26
  <1>28. o >= hi => W[o] = <<o>>
    BY <1>5, <1>23
  <1>29. o < hi => W[o] = <<o>> \o W[Then(o)] /\ Walk(grid, Then(o), hi) = W[Then(o)]
    BY <1>1, <1>5, <1>22, <1>23
  <1> QED
    BY <1>27, <1>28, <1>29 DEF Then

-----------------------------------------------------------------------------
(* Where the jobs of a range begin: cuts that ascend from its start to its end.*)

(* One offset alone is a list of cuts, and a cut can be put before others. *)
LEMMA CutsFirst ==
    ASSUME NEW lo \in Nat, NEW mid \in Nat, NEW hi \in Nat, NEW c
    PROVE  /\ Cuts(<<lo>>, lo, lo)
           /\ lo < mid /\ Cuts(c, mid, hi) => Cuts(<<lo>> \o c, lo, hi)
  <1>1. Cuts(<<lo>>, lo, lo)
    BY DEF Cuts
  <1>2. ASSUME lo < mid, Cuts(c, mid, hi) PROVE Cuts(<<lo>> \o c, lo, hi)
    <2>1. /\ <<lo>> \in Seq(Nat) /\ c \in Seq(Nat) /\ Len(<<lo>>) = 1 /\ Len(c) \in Nat /\ Len(c) > 0
          /\ c[1] = mid /\ c[Len(c)] = hi
      BY <1>2, LenProperties DEF Cuts
    <2> DEFINE d == <<lo>> \o c
    <2>2. /\ d \in Seq(Nat) /\ Len(d) = 1 + Len(c)
          /\ d[1] = lo /\ \A i \in 2 .. Len(c) + 1 : d[i] = c[i - 1]
      <3>1. \A i \in 1 .. Len(<<lo>>) + Len(c) :
               d[i] = IF i <= Len(<<lo>>) THEN <<lo>>[i] ELSE c[i - Len(<<lo>>)]
        BY <2>1, ConcatProperties
      <3> QED
        BY <2>1, <3>1, ConcatProperties
    <2> HIDE DEF d
    <2>3. d[Len(d)] = hi
      BY <2>1, <2>2
    <2>4. ASSUME NEW i \in 1 .. Len(d) - 1 PROVE d[i] < d[i + 1]
      <3>1. CASE i = 1
        BY <1>2, <2>1, <2>2, <3>1
      <3>2. CASE i > 1
        <4>1. i - 1 \in 1 .. Len(c) - 1 /\ (i - 1) + 1 = i /\ i \in 2 .. Len(c) + 1
              /\ i + 1 \in 2 .. Len(c) + 1 /\ (i + 1) - 1 = i
          BY <2>1, <2>2, <3>2
        <4>2. c[i - 1] < c[(i - 1) + 1]
          BY <1>2, <4>1 DEF Cuts
        <4>3. d[i] = c[i - 1] /\ d[i + 1] = c[(i + 1) - 1]
          BY <2>2, <4>1
        <4> QED
          BY ONLY <4>1, <4>2, <4>3
      <3> QED
        BY <3>1, <3>2
    <2> QED
      BY <2>1, <2>2, <2>3, <2>4 DEF Cuts, d
  <1> QED
    BY <1>1, <1>2

(* Cuts meet in a common offset: they are joined there.                    *)
LEMMA CutsJoin ==
    ASSUME NEW lo \in Nat, NEW mid \in Nat, NEW hi \in Nat, NEW c, NEW d,
           Cuts(c, lo, mid), Cuts(<<mid>> \o d, mid, hi), d \in Seq(Nat)
    PROVE  Cuts(c \o d, lo, hi)
  <1> DEFINE e == c \o d
             f == <<mid>> \o d
  <1>1. /\ c \in Seq(Nat) /\ Len(c) \in Nat /\ Len(c) > 0 /\ Len(d) \in Nat
        /\ c[1] = lo /\ c[Len(c)] = mid
        /\ \A i \in 1 .. Len(c) - 1 : c[i] < c[i + 1]
    BY LenProperties DEF Cuts
  <1>2. /\ Len(f) = Len(d) + 1 /\ f[1] = mid /\ f[Len(f)] = hi
        /\ \A i \in 2 .. Len(d) + 1 : f[i] = d[i - 1]
        /\ \A i \in 1 .. Len(f) - 1 : f[i] < f[i + 1]
    <2>1. <<mid>> \in Seq(Nat) /\ Len(<<mid>>) = 1 /\ <<mid>>[1] = mid
      OBVIOUS
    <2>2. /\ Len(f) = Len(<<mid>>) + Len(d)
          /\ \A i \in 1 .. Len(<<mid>>) + Len(d) :
               f[i] = IF i <= Len(<<mid>>) THEN <<mid>>[i] ELSE d[i - Len(<<mid>>)]
      BY <2>1, ConcatProperties
    <2>3. /\ f[Len(f)] = hi
          /\ \A i \in 1 .. Len(f) - 1 : f[i] < f[i + 1]
      BY DEF Cuts
    <2> QED
      BY <1>1, <2>1, <2>2, <2>3, SMTT(20)
  <1>3. /\ e \in Seq(Nat) /\ Len(e) = Len(c) + Len(d)
        /\ \A i \in 1 .. Len(c) : e[i] = c[i]
        /\ \A i \in Len(c) + 1 .. Len(c) + Len(d) : e[i] = d[i - Len(c)]
    <2>1. \A i \in 1 .. Len(c) + Len(d) : e[i] = IF i <= Len(c) THEN c[i] ELSE d[i - Len(c)]
      BY <1>1, ConcatProperties
    <2> QED
      BY <1>1, <2>1, ConcatProperties
  <1> HIDE DEF e, f
  <1>4. \A i \in 1 .. Len(f) : e[Len(c) - 1 + i] = f[i]
    <2> SUFFICES ASSUME NEW i \in 1 .. Len(f) PROVE e[Len(c) - 1 + i] = f[i]
      OBVIOUS
    <2>1. CASE i = 1
      <3>1. Len(c) \in 1 .. Len(c) /\ Len(c) - 1 + i = Len(c)
        BY <1>1, <2>1
      <3> QED
        BY <1>1, <1>2, <1>3, <2>1, <3>1
    <2>2. CASE i > 1
      <3>1. i \in 2 .. Len(d) + 1 /\ Len(c) - 1 + i \in Len(c) + 1 .. Len(c) + Len(d)
            /\ (Len(c) - 1 + i) - Len(c) = i - 1
        BY <1>1, <1>2, <2>2
      <3> QED
        BY <1>2, <1>3, <3>1
    <2> QED
      BY <2>1, <2>2
  <1>5. e[1] = lo
    <2>1. 1 \in 1 .. Len(c)
      BY <1>1
    <2> QED
      BY <1>1, <1>3, <2>1
  <1>6. e[Len(e)] = hi
    <2>1. Len(e) = Len(c) - 1 + Len(f) /\ Len(f) \in 1 .. Len(f)
      BY <1>1, <1>2, <1>3
    <2> QED
      BY <1>2, <1>4, <2>1
  <1>7. ASSUME NEW i \in 1 .. Len(e) - 1 PROVE e[i] < e[i + 1]
    <2>1. CASE i < Len(c)
      <3>1. i \in 1 .. Len(c) - 1 /\ i \in 1 .. Len(c) /\ i + 1 \in 1 .. Len(c)
        BY <1>1, <2>1
      <3> QED
        BY <1>1, <1>3, <3>1
    <2>2. CASE i >= Len(c)
      <3> DEFINE j == i - (Len(c) - 1)
      <3>1. /\ j \in 1 .. Len(f) - 1 /\ j \in 1 .. Len(f) /\ j + 1 \in 1 .. Len(f)
            /\ Len(c) - 1 + j = i /\ Len(c) - 1 + (j + 1) = i + 1
        BY <1>1, <1>2, <1>3, <2>2, SMTT(20)
      <3> HIDE DEF j
      <3>2. e[i] = f[j] /\ e[i + 1] = f[j + 1]
        BY <1>4, <3>1
      <3> QED
        BY <1>2, <3>1, <3>2
    <2> QED
      BY <1>1, <2>1, <2>2
  <1>8. Len(e) > 0
    BY <1>1, <1>3
  <1>9. Cuts(e, lo, hi)
    BY <1>3, <1>5, <1>6, <1>7, <1>8 DEF Cuts
  <1> QED
    BY <1>9 DEF e

(* The walk cuts from lo to hi.                                            *)
LEMMA WalkCuts ==
    ASSUME NEW grid, NEW hi \in Nat, NEW lo \in Nat, lo <= hi
    PROVE  Cuts(Walk(grid, lo, hi), lo, hi)
  <1> DEFINE S == {n \in Nat : \A o \in 0 .. hi : hi - o <= n => Cuts(Walk(grid, o, hi), o, hi)}
  <1>1. 0 \in S
    <2> SUFFICES ASSUME NEW o \in 0 .. hi, hi - o <= 0 PROVE Cuts(Walk(grid, o, hi), o, hi)
      OBVIOUS
    <2>1. o \in Nat /\ o = hi /\ o >= hi
      OBVIOUS
    <2>2. Walk(grid, o, hi) = <<o>>
      BY <2>1, WalkUnrolls
    <2> QED
      BY <2>1, <2>2, CutsFirst
  <1>2. ASSUME NEW n \in Nat, n \in S PROVE n + 1 \in S
    <2> SUFFICES ASSUME NEW o \in 0 .. hi, hi - o <= n + 1 PROVE Cuts(Walk(grid, o, hi), o, hi)
      OBVIOUS
    <2>0. o \in Nat
      OBVIOUS
    <2>1. CASE o = hi
      <3>1. Walk(grid, o, hi) = <<o>>
        BY <2>0, <2>1, o >= hi, WalkUnrolls
      <3> QED
        BY <2>0, <2>1, <3>1, CutsFirst
    <2>2. CASE o < hi
      <3> DEFINE m == Least(JobEnd(grid, o), hi)
      <3>1. m \in Nat /\ o < m /\ m <= hi
        BY <2>0, <2>2, JobAhead DEF Least
      <3>2. Walk(grid, o, hi) = <<o>> \o Walk(grid, m, hi)
        BY <2>0, <2>2, WalkUnrolls
      <3> HIDE DEF m
      <3>3. Cuts(Walk(grid, m, hi), m, hi)
        BY <1>2, <3>1
      <3> QED
        BY <2>0, <3>1, <3>2, <3>3, CutsFirst
    <2> QED
      BY <2>1, <2>2
  <1> HIDE DEF S
  <1>3. hi \in S
    BY <1>1, <1>2, SetInduction
  <1> QED
    BY <1>3 DEF S

-----------------------------------------------------------------------------
(* The tail of the growing grid, and the bounds of a frame.               *)

(* The number of equal jobs a tail is split into.                          *)
LEMMA TailCount ==
    ASSUME NEW d \in Nat, NEW t \in Nat, d > 0, t > 0
    PROVE  DivCeil(d, t) \in 1 .. d
  <1> DEFINE a == d + t - 1
  <1>1. a \in Nat /\ a >= t
    OBVIOUS
  <1>2. /\ a \div t \in Nat /\ t * (a \div t) <= a
        /\ \A q \in Nat : t * q <= a => q <= a \div t
    BY <1>1, Division
  <1>3. 1 <= a \div t
    BY <1>1, <1>2
  <1>4. a \div t <= d
    <2> DEFINE q == a \div t
    <2> SUFFICES ASSUME q >= d + 1 PROVE FALSE
      BY <1>2
    <2>1. t * q >= t * (d + 1)
      BY <1>2, Z3
    <2>2. t * (d + 1) >= d + t
      BY Z3
    <2> QED
      BY <1>2, <2>1, <2>2, Z3
  <1> QED
    BY <1>2, <1>3, <1>4 DEF DivCeil

(* The equal jobs of a tail end at ascending offsets, the last one at hi.   *)
LEMMA TailCutsAscend ==
    ASSUME NEW lo \in Nat, NEW hi \in Nat, lo < hi
    PROVE  TailCuts(lo, hi) \in Seq(Nat) /\ Cuts(<<lo>> \o TailCuts(lo, hi), lo, hi)
  <1> DEFINE d == hi - lo
             t == Least(JobEnd("growing", lo) - lo, Most(DivCeil(hi - lo, Burst), MinJob))
             n == DivCeil(d, t)
             q(i) == (d * i) \div n
             c == TailCuts(lo, hi)
  <1>1. d \in Nat /\ d > 0
    OBVIOUS
  <1>2. t \in Nat /\ t > 0
    <2>1. JobEnd("growing", lo) \in Nat /\ JobEnd("growing", lo) > lo
      BY JobAhead
    <2>2. DivCeil(d, Burst) \in Nat
      BY TailCount, StreamGridAssumption
    <2> HIDE DEF d
    <2>3. Most(DivCeil(d, Burst), MinJob) \in Nat /\ Most(DivCeil(d, Burst), MinJob) > 0
      BY <2>2, StreamGridAssumption DEF Most
    <2> QED
      BY <2>1, <2>3 DEF Least, d
  <1>3. c = [i \in 1 .. n |-> lo + q(i)]
    BY DEF TailCuts
  <1> HIDE DEF t, d, c
  <1>4. n \in 1 .. d
    BY <1>1, <1>2, TailCount
  <1> HIDE DEF n
  <1>5. \A i \in Nat : d * i \in Nat
    BY <1>1, Z3
  <1>6. \A i \in Nat : q(i) \in Nat
    BY <1>4, <1>5, Division
  <1>7. ASSUME NEW i \in Nat PROVE q(i) < q(i + 1)
    <2>1. d * (i + 1) = d * i + d
      BY <1>1, Z3
    <2>2. n * (q(i) + 1) = n * q(i) + n
      BY <1>4, <1>6, Z3
    <2>3. n * q(i) <= d * i
      BY <1>4, <1>5, Division
    <2>4. n * q(i) \in Nat
      BY <1>4, <1>6, Z3
    <2>5. n * (q(i) + 1) <= d * (i + 1)
      BY <1>1, <1>4, <1>5, <2>1, <2>2, <2>3, <2>4
    <2>6. q(i) \in Nat /\ q(i) + 1 \in Nat /\ q(i + 1) \in Nat
      BY <1>6
    <2>7. \A p \in Nat : n * p <= d * (i + 1) => p <= q(i + 1)
      BY <1>4, <1>5, Division
    <2> HIDE DEF q
    <2>8. q(i) + 1 <= q(i + 1)
      BY <2>5, <2>6, <2>7
    <2> QED
      BY <2>6, <2>8
  <1>8. q(0) = 0 /\ q(n) = d
    <2>1. n * d = d * n /\ d * 0 = 0 /\ n * 0 = 0
      BY <1>1, <1>4, Z3
    <2>2. (n * d) \div n = d /\ (n * 0) \div n = 0
      BY <1>1, <1>4, Division
    <2> QED
      BY <2>1, <2>2
  <1> HIDE DEF q
  <1>9. c \in Seq(Nat) /\ Len(c) = n /\ \A i \in 1 .. n : c[i] = lo + q(i)
    <2>1. n \in Nat /\ \A i \in 1 .. n : lo + q(i) \in Nat
      BY <1>1, <1>4, <1>6
    <2>2. c \in [1 .. n -> Nat] /\ \A i \in 1 .. n : c[i] = lo + q(i)
      BY <1>3, <2>1
    <2> QED
      BY <2>1, <2>2
  <1> DEFINE f == <<lo>> \o c
  <1>10. /\ f \in Seq(Nat) /\ Len(f) = n + 1
         /\ f[1] = lo /\ \A i \in 2 .. n + 1 : f[i] = lo + q(i - 1)
    <2>1. <<lo>> \in Seq(Nat) /\ Len(<<lo>>) = 1 /\ <<lo>>[1] = lo
      OBVIOUS
    <2>2. /\ f \in Seq(Nat) /\ Len(f) = Len(<<lo>>) + Len(c)
          /\ \A i \in 1 .. Len(<<lo>>) + Len(c) :
               f[i] = IF i <= Len(<<lo>>) THEN <<lo>>[i] ELSE c[i - Len(<<lo>>)]
      BY <1>9, <2>1, ConcatProperties
    <2> QED
      BY <1>4, <1>9, <2>1, <2>2
  <1> HIDE DEF f
  <1>11. \A i \in 1 .. n + 1 : f[i] = lo + q(i - 1)
    <2>1. f[1] = lo + q(1 - 1)
      BY <1>8, <1>10
    <2> QED
      BY <1>4, <1>10, <2>1
  <1>12. f[Len(f)] = hi
    <2>1. f[n + 1] = lo + q(n) /\ lo + d = hi
      BY <1>4, <1>11 DEF d
    <2> QED
      BY <1>8, <1>10, <2>1
  <1>13. ASSUME NEW i \in 1 .. Len(f) - 1 PROVE f[i] < f[i + 1]
    <2>1. i \in 1 .. n + 1 /\ i + 1 \in 1 .. n + 1 /\ i - 1 \in Nat /\ (i - 1) + 1 = i
          /\ (i + 1) - 1 = i
      BY <1>4, <1>10
    <2>2. q(i - 1) < q((i - 1) + 1) /\ q(i - 1) \in Nat /\ q(i) \in Nat
      <3>1. q(i - 1) < q((i - 1) + 1)
        BY <1>7, <2>1
      <3>2. i \in Nat /\ n \in Nat
        BY <1>1, <1>4, <2>1
      <3> QED
        BY <1>6, <2>1, <3>1, <3>2
    <2> QED
      BY <1>11, <2>1, <2>2
  <1>14. Cuts(f, lo, hi)
    BY <1>4, <1>10, <1>12, <1>13 DEF Cuts
  <1> QED
    BY <1>9, <1>14 DEF f, c

(* build_bounds: the cuts ascend from lo to hi, and are two at least.       *)
THEOREM BoundsCut ==
    ASSUME NEW grid \in {"fixed", "growing"}, NEW lo \in Nat, NEW hi \in Nat, lo < hi
    PROVE  Cuts(Bounds(grid, lo, hi), lo, hi) /\ Len(Bounds(grid, lo, hi)) > 1
  <1>1. Cuts(Bounds(grid, lo, hi), lo, hi)
    <2>1. CASE grid = "fixed"
      BY <2>1, WalkCuts DEF Bounds
    <2>2. CASE grid = "growing"
      <3> DEFINE top == EpochFloor(hi)
                 walk == Walk(grid, lo, top)
                 from == walk[Len(walk)]
      <3>1. top \in Nat /\ top <= hi
        BY JobAhead
      <3>2. \E mid \in Nat : mid <= hi /\ Cuts(walk, lo, mid)
        <4>1. CASE lo <= top
          BY <3>1, <4>1, WalkCuts
        <4>2. CASE lo > top
          <5>1. lo >= top
            BY <3>1, <4>2
          <5>2. walk = <<lo>>
            BY <3>1, <5>1, WalkUnrolls
          <5> HIDE DEF walk
          <5> QED
            BY <5>2, CutsFirst
        <4> QED
          BY <3>1, <4>1, <4>2
      <3> HIDE DEF walk, top
      <3>3. from \in Nat /\ from <= hi /\ Cuts(walk, lo, from)
        BY <3>2 DEF Cuts
      <3>4. Bounds(grid, lo, hi) = IF from < hi THEN walk \o TailCuts(from, hi) ELSE walk
        BY <2>2 DEF Bounds, walk, top
      <3> HIDE DEF from
      <3>5. CASE from < hi
        <4>1. TailCuts(from, hi) \in Seq(Nat) /\ Cuts(<<from>> \o TailCuts(from, hi), from, hi)
          BY <3>3, <3>5, TailCutsAscend
        <4>2. Cuts(walk \o TailCuts(from, hi), lo, hi)
          BY <3>3, <4>1, CutsJoin
        <4> QED
          BY <3>4, <3>5, <4>2
      <3>6. CASE from = hi
        BY <3>3, <3>4, <3>6
      <3> QED
        BY <3>3, <3>5, <3>6
    <2> QED
      BY <2>1, <2>2
  <1>2. Len(Bounds(grid, lo, hi)) # 1
    BY <1>1 DEF Cuts
  <1>3. Len(Bounds(grid, lo, hi)) \in Nat
    BY <1>1, LenProperties DEF Cuts
  <1> QED
    BY <1>1, <1>2, <1>3 DEF Cuts

-----------------------------------------------------------------------------
(* The inductive invariant.  InPost: the caller is posting its plan;       *)
(* Waiting(p): it is at p, or waits for progress before it goes on there.  *)
InPost == pc \in {"post", "register", "push"}
Waiting(p) == pc = p \/ (pc \in {"wait", "parked"} /\ ret = p)

(* The types, TypeOK's and those of the variables it leaves out.           *)
Types ==
    /\ mode \in Modes /\ pledged \in Pledges
    /\ pos \in Nat /\ jobStart \in Nat /\ hashed \in Nat /\ hashed <= pos
    /\ header \in BOOLEAN /\ finishing \in BOOLEAN /\ finished \in BOOLEAN
    /\ closeEmpty \in BOOLEAN /\ flushed \in BOOLEAN
    /\ output \in Seq(Part) /\ delivered \in Nat /\ delivered <= Len(output)
    /\ base \in Nat /\ cap \in Nat /\ moves \in Nat
    /\ jobs \in Seq(Job)
    /\ claimed \in 0 .. Len(jobs) /\ assembled \in 0 .. Len(jobs)
    /\ completed \in Nat
    /\ payload \in BOOLEAN /\ poisoned \in BOOLEAN /\ shutdown \in BOOLEAN
    /\ pool \subseteq Worker
    /\ wpc \in [Worker -> {"none", "claim", "asleep", "run", "payload", "flag", "abort",
                           "count", "tick", "left"}]
    /\ wjob \in [Worker -> Nat]
    /\ op \in {"none", "write", "pull", "flush", "finish", "drop"}
    /\ pc \in {"idle", "feed", "space", "full", "ready", "post", "register", "push", "begin",
               "encode", "drain", "pending", "drained", "wait", "parked", "surface",
               "settle", "leave", "gone"}
    /\ todo \in Nat /\ before \in Nat
    /\ plan \in Seq(Nat)
    /\ ret \in {"none", "ready", "encode", "space", "drain", "settle"}
    /\ unwinds \in Nat

(* The buffer holds what is not posted, its strip, and no more than fits.   *)
Buffer ==
    /\ jobStart <= hashed
    /\ base <= Strip(jobStart)
    /\ mode # "owned" => pos - base <= cap

(* Which calls get where.                                                  *)
Control ==
    /\ pc = "idle" <=> op = "none"
    /\ op = "drop" <=> pc \in {"leave", "gone"}
    /\ op \in {"write", "pull", "flush"} => unwinds = 0
    /\ op \in {"write", "flush"} => mode = "write"
    /\ op = "pull" => mode # "write"
    /\ pc \in {"feed", "full", "ready"} \/ Waiting("space") => op \in {"write", "pull"}
    /\ pc \in {"feed", "full"} \/ Waiting("space") => mode # "owned"
    /\ pc \in {"begin", "encode", "pending", "drained"} \/ Waiting("drain") =>
           op \in {"pull", "flush", "finish"}
    /\ pc \in {"wait", "parked"} => ret \in {"space", "drain", "settle"}

(* The plan goes on where the checksum stands; that of a flush or a finish  *)
(* takes in all input.                                                     *)
Planned == InPost =>
    /\ Len(plan) > 1 /\ Cuts(plan, hashed, plan[Len(plan)]) /\ plan[Len(plan)] <= pos
    /\ ret \in {"ready", "encode"}
    /\ ret = "ready" => Len(plan) = 2 /\ op \in {"write", "pull"}
    /\ ret = "encode" => plan[Len(plan)] = pos /\ op \in {"pull", "flush", "finish"}

(* Outside of posting everything absorbed is posted, unless a panic cut     *)
(* the posting short; then nothing more is posted.                         *)
Absorbed ==
    \/ hashed = jobStart
    \/ InPost /\ pool # {}
    \/ poisoned /\ pc # "encode" /\ (unwinds > 0 \/ pc = "surface" \/ Waiting("settle"))

(* The workers leased are those that run; there is no job without any.     *)
Pool ==
    /\ pool = {} => jobs = <<>>
    /\ pc = "push" => pool # {}
    /\ \A w \in Worker : w \in pool <=> wpc[w] # "none"
    /\ pc = "gone" => \A w \in Worker : wpc[w] \in {"none", "left"}

(* Each worker at work has a job of its own, a claimed one.                *)
Working == {"run", "payload", "flag", "abort", "count"}
Busiest == {w \in Worker : wpc[w] \in Working}
Assigned == {w \in Worker : wjob[w] # 0}

Serving ==
    /\ \A j \in claimed + 1 .. Len(jobs) : jobs[j].state = "posted"
    /\ \A w \in Worker :
           /\ wjob[w] # 0 <=> wpc[w] \in Working \cup {"tick"}
           /\ wjob[w] <= claimed
           /\ wpc[w] \in {"run", "payload", "flag", "abort"} => jobs[wjob[w]].state = "posted"
    /\ \A v, w \in Worker : wjob[v] = wjob[w] /\ wjob[v] # 0 => v = w

(* The counters count: the jobs that wait, run or are about to be pushed.  *)
Counting ==
    /\ incomplete = (Len(jobs) - claimed) + Cardinality(Busiest) + (IF pc = "push" THEN 1 ELSE 0)
    /\ completed + Cardinality(Assigned) <= claimed

(* The jobs that wait or run have their bytes where they were.             *)
Viewed ==
    /\ pc # "gone" => \A j \in claimed + 1 .. Len(jobs) :
                          jobs[j].gen = moves /\ jobs[j].view >= base
    /\ \A w \in Worker : wpc[w] = "run" => jobs[wjob[w]].gen = moves /\ jobs[wjob[w]].view >= base

(* A job is lost only to a panic that the flag tells of.                   *)
Poison ==
    /\ \A j \in 1 .. Len(jobs) : jobs[j].state = "aborted" => poisoned
    /\ \A w \in Worker : wpc[w] = "abort" => poisoned
    /\ pc = "surface" \/ Waiting("settle") => poisoned
    /\ \A i \in 1 .. Len(output) : output[i].hole => poisoned /\ ~finished

(* The frame as it will be read: the parts put out, then the pending jobs. *)
Total == Len(output) + (Len(jobs) - assembled)
Lo(i) == IF i <= Len(output) THEN output[i].lo ELSE jobs[assembled + (i - Len(output))].lo
Hi(i) == IF i <= Len(output) THEN output[i].hi ELSE jobs[assembled + (i - Len(output))].hi
LastOf(i) == IF i <= Len(output) THEN output[i].last ELSE jobs[assembled + (i - Len(output))].last

(* It has every byte that was absorbed, once and in order.                 *)
Chain ==
    /\ \A i \in 1 .. Total : Lo(i) = IF i = 1 THEN 0 ELSE Hi(i - 1)
    /\ hashed = IF Total = 0 THEN 0 ELSE Hi(Total)

(* It is closed after all of the input, and once.                          *)
Closed ==
    /\ finishing => /\ header /\ pos = hashed /\ jobStart = hashed /\ pledged \in {NoPledge, pos}
                    /\ pc \notin {"feed", "full", "ready", "begin", "encode"} /\ ~InPost
                    /\ ~Waiting("space") /\ op # "flush"
                    /\ pc = "idle" /\ mode = "write" => finished \/ unwinds > 0
    /\ closeEmpty => finishing
    /\ finishing /\ ~closeEmpty => Total > 0
    /\ pc \in {"pending", "drained"} \/ Waiting("drain") => (op # "flush" => finishing)
    /\ pc = "push" => header
    /\ pc = "encode" => hashed < pos
    /\ pc = "encode" \/ (InPost /\ ret = "encode") => (op # "flush" => pledged \in {NoPledge, pos})
    /\ pc = "drained" => assembled = Len(jobs)
    /\ finished => /\ finishing /\ pc \in {"idle", "leave", "gone"} /\ assembled = Len(jobs)
                   /\ closeEmpty => Total > 0

(* Its last block, and no other, says so.                                  *)
Marked ==
    \A i \in 1 .. Total : LastOf(i) <=> i = Total /\ finishing /\ (closeEmpty => finished)

StreamInv ==
    /\ Types /\ Buffer /\ Control /\ Planned /\ Absorbed
    /\ Pool /\ Serving /\ Counting /\ Viewed
    /\ Poison /\ Chain /\ Closed /\ Marked

-----------------------------------------------------------------------------
(* What each step leaves alone.                                            *)

(* Only these move the buffer.                                             *)
LEMMA BufferLeft ==
    ASSUME Next
    PROVE  UNCHANGED bufferVars \/ WaitLeave \/ MakeSpace
  <1>1. ASSUME Call PROVE UNCHANGED bufferVars
    BY <1>1 DEF Call, Write, Pull, PullOwned, Flush, Finish, Drop, bufferVars
  <1>2. ASSUME InCall PROVE UNCHANGED bufferVars \/ WaitLeave \/ MakeSpace
    BY <1>2 DEF InCall, FeedWrite, FeedRead, MakeSpaceWait, CheckPoisoned, PostReady, PostCheck,
       Register, SpawnFails, Push, Begin, EncodeInline, EncodeJobs, Drain, Pending, Drained,
       Snapshot, Progressed, SurfacePoison, PayloadGone, Settle, bufferVars
  <1>3. ASSUME NEW w \in Worker, ServeQueue(w) PROVE UNCHANGED bufferVars
    BY <1>3 DEF ServeQueue
  <1> QED
    BY <1>1, <1>2, <1>3 DEF Next

(* Only these touch the queue.                                             *)
LEMMA QueueLeft ==
    ASSUME Next
    PROVE  \/ UNCHANGED <<jobs, claimed, incomplete, completed, payload, poisoned>>
           \/ Register \/ Push \/ SurfacePoison \/ \E w \in Worker : ServeQueue(w)
  <1>1. ASSUME Call PROVE UNCHANGED queueVars
    BY <1>1 DEF Call, Write, Pull, PullOwned, Flush, Finish, Drop
  <1>2. ASSUME InCall PROVE UNCHANGED queueVars \/ Register \/ Push \/ SurfacePoison
    BY <1>2 DEF InCall, WaitLeave, FeedWrite, FeedRead, MakeSpaceWait, MakeSpace, CheckPoisoned, PostReady,
       PostCheck, SpawnFails, Begin, EncodeInline, EncodeJobs, Drain, Pending, Drained,
       Snapshot, Progressed, PayloadGone, Settle
  <1> QED
    BY <1>1, <1>2 DEF Next, queueVars

(* Only these touch the workers.                                           *)
LEMMA WorkersLeft ==
    ASSUME Next
    PROVE  \/ UNCHANGED <<pool, wpc, wjob>>
           \/ Register \/ (\E S \in SUBSET Worker : SpawnFails(S)) \/ Push \/ Drop
           \/ \E w \in Worker : ServeQueue(w)
  <1>1. ASSUME Call PROVE UNCHANGED poolVars \/ Drop
    BY <1>1 DEF Call, Write, Pull, PullOwned, Flush, Finish
  <1>2. ASSUME InCall
        PROVE  UNCHANGED poolVars \/ Register \/ Push \/ (\E S \in SUBSET Worker : SpawnFails(S))
    BY <1>2 DEF InCall, WaitLeave, FeedWrite, FeedRead, MakeSpaceWait, MakeSpace, CheckPoisoned, PostReady,
       PostCheck, SurfacePoison, Begin, EncodeInline, EncodeJobs, Drain, Pending, Drained,
       Snapshot, Progressed, PayloadGone, Settle
  <1> QED
    BY <1>1, <1>2 DEF Next, poolVars

(* Only these move the frame's offsets.                                    *)
LEMMA OffsetsLeft ==
    ASSUME Next
    PROVE  \/ UNCHANGED <<mode, pledged, pos, jobStart, hashed>>
           \/ (\E n \in Sources : PullOwned(n)) \/ FeedWrite \/ (\E n \in 0 .. Step : FeedRead(n))
           \/ Push \/ EncodeInline
  <1>1. ASSUME Call PROVE UNCHANGED <<mode, pledged, pos, jobStart, hashed>> \/ \E n \in Sources : PullOwned(n)
    BY <1>1 DEF Call, Write, Pull, Flush, Finish, Drop, frameVars
  <1>2. ASSUME InCall
        PROVE  \/ UNCHANGED <<mode, pledged, pos, jobStart, hashed>>
               \/ FeedWrite \/ (\E n \in 0 .. Step : FeedRead(n)) \/ Push \/ EncodeInline
    BY <1>2 DEF InCall, WaitLeave, MakeSpaceWait, MakeSpace, CheckPoisoned, PostReady,
       PostCheck, Register, SpawnFails, SurfacePoison, Begin, EncodeJobs, Drain, Pending, Drained,
       Snapshot, Progressed, PayloadGone, Settle, frameVars
  <1>3. ASSUME NEW w \in Worker, ServeQueue(w) PROVE UNCHANGED <<mode, pledged, pos, jobStart, hashed>>
    BY <1>3 DEF ServeQueue, frameVars
  <1> QED
    BY <1>1, <1>2, <1>3 DEF Next

(* Only these change what has been put out, or how it is closed.           *)
LEMMA FrameLeft ==
    ASSUME Next
    PROVE  \/ UNCHANGED <<header, finishing, finished, closeEmpty, output, assembled>>
           \/ Register \/ (\E S \in SUBSET Worker : SpawnFails(S)) \/ Push \/ Begin
           \/ EncodeInline \/ EncodeJobs \/ Drain \/ Drained \/ Settle
  <1>1. ASSUME Call PROVE UNCHANGED <<header, finishing, finished, closeEmpty, output, assembled>>
    BY <1>1 DEF Call, Write, Pull, PullOwned, Flush, Finish, Drop, frameVars
  <1>2. ASSUME InCall
        PROVE  \/ UNCHANGED <<header, finishing, finished, closeEmpty, output, assembled>>
               \/ Register \/ (\E S \in SUBSET Worker : SpawnFails(S)) \/ Push \/ Begin
               \/ EncodeInline \/ EncodeJobs \/ Drain \/ Drained \/ Settle
    BY <1>2 DEF InCall, WaitLeave, FeedWrite, FeedRead, MakeSpaceWait, MakeSpace, CheckPoisoned,
       PostReady, PostCheck, SurfacePoison, Pending, Snapshot, Progressed, PayloadGone, frameVars
  <1>3. ASSUME NEW w \in Worker, ServeQueue(w)
        PROVE  UNCHANGED <<header, finishing, finished, closeEmpty, output, assembled>>
    BY <1>3 DEF ServeQueue, frameVars
  <1> QED
    BY <1>1, <1>2, <1>3 DEF Next

-----------------------------------------------------------------------------
(* What the operators on the queue do.                                     *)

(* A job of the queue is a job.                                            *)
LEMMA JobType ==
    ASSUME jobs \in Seq(Job), NEW j \in 1 .. Len(jobs)
    PROVE  /\ jobs[j] \in Job
           /\ jobs[j].lo \in Nat /\ jobs[j].hi \in Nat /\ jobs[j].last \in BOOLEAN
           /\ jobs[j].view \in Nat /\ jobs[j].gen \in Nat
           /\ jobs[j].state \in {"posted", "done", "aborted"}
  <1>1. jobs[j] \in Job
    OBVIOUS
  <1> QED
    BY <1>1 DEF Job

(* Marking a job changes its state, and nothing else.                      *)
LEMMA MarkOne ==
    ASSUME jobs \in Seq(Job), NEW k \in 1 .. Len(jobs), NEW s \in {"posted", "done", "aborted"},
           jobs' = [jobs EXCEPT ![k].state = s]
    PROVE  /\ jobs' \in Seq(Job) /\ Len(jobs') = Len(jobs)
           /\ jobs'[k].state = s
           /\ \A j \in 1 .. Len(jobs) :
                  /\ jobs'[j].lo = jobs[j].lo /\ jobs'[j].hi = jobs[j].hi
                  /\ jobs'[j].last = jobs[j].last
                  /\ jobs'[j].view = jobs[j].view /\ jobs'[j].gen = jobs[j].gen
                  /\ j # k => jobs'[j] = jobs[j]
  <1>1. jobs' = [j \in 1 .. Len(jobs) |-> IF j = k THEN [jobs[k] EXCEPT !.state = s] ELSE jobs[j]]
    <2> DEFINE q == [jobs[k] EXCEPT !.state = s]
    <2>1. jobs' = [jobs EXCEPT ![k] = q]
      OBVIOUS
    <2> HIDE DEF q
    <2>2. jobs \in [1 .. Len(jobs) -> Job]
      OBVIOUS
    <2> DEFINE D == 1 .. Len(jobs)
    <2>3. k \in D /\ jobs \in [D -> Job]
      BY <2>2
    <2> HIDE DEF D
    <2>4. jobs' = [j \in D |-> IF j = k THEN q ELSE jobs[j]]
      BY <2>1, <2>3
    <2> QED
      BY <2>4 DEF q, D
  <1>2. /\ jobs[k] \in Job
        /\ [jobs[k] EXCEPT !.state = s] \in Job
        /\ [jobs[k] EXCEPT !.state = s].state = s
        /\ [jobs[k] EXCEPT !.state = s].lo = jobs[k].lo
        /\ [jobs[k] EXCEPT !.state = s].hi = jobs[k].hi
        /\ [jobs[k] EXCEPT !.state = s].last = jobs[k].last
        /\ [jobs[k] EXCEPT !.state = s].view = jobs[k].view
        /\ [jobs[k] EXCEPT !.state = s].gen = jobs[k].gen
    BY JobType DEF Job
  <1> DEFINE r == [jobs[k] EXCEPT !.state = s]
  <1> HIDE DEF r
  <1>3. \A j \in 1 .. Len(jobs) : jobs[j] \in Job
    BY JobType
  <1>4. jobs' = [j \in 1 .. Len(jobs) |-> IF j = k THEN r ELSE jobs[j]] /\ r \in Job
    BY <1>1, <1>2 DEF r
  <1>5. jobs' \in Seq(Job) /\ Len(jobs') = Len(jobs)
    <2>1. Len(jobs) \in Nat
      OBVIOUS
    <2>2. jobs' \in [1 .. Len(jobs) -> Job]
      BY <1>3, <1>4
    <2> QED
      BY <2>1, <2>2
  <1>6. jobs'[k] = r /\ \A j \in 1 .. Len(jobs) : j # k => jobs'[j] = jobs[j]
    BY <1>4
  <1> QED
    BY <1>2, <1>5, <1>6 DEF r

(* What a step may do to the queue at its worst: the jobs stay what they   *)
(* are, but for their states.                                              *)
SameJobs ==
    /\ jobs' \in Seq(Job) /\ Len(jobs') = Len(jobs)
    /\ \A j \in 1 .. Len(jobs) :
           /\ jobs'[j].lo = jobs[j].lo /\ jobs'[j].hi = jobs[j].hi
           /\ jobs'[j].last = jobs[j].last
           /\ jobs'[j].view = jobs[j].view /\ jobs'[j].gen = jobs[j].gen

(* A worker's step does no worse.                                          *)
LEMMA ServeJobs ==
    ASSUME Types, Serving, NEW w \in Worker, ServeQueue(w)
    PROVE  /\ SameJobs
           /\ \A j \in 1 .. Len(jobs) :
                  \/ jobs'[j] = jobs[j]
                  \/ RunJob(w) /\ j = wjob[w] /\ jobs'[j].state = "done"
                  \/ Abort(w) /\ j = wjob[w] /\ jobs'[j].state = "aborted"
  <1>1. jobs \in Seq(Job) /\ wjob[w] \in Nat /\ claimed \in 0 .. Len(jobs)
    BY DEF Types
  <1>2. CASE UNCHANGED jobs
    BY <1>1, <1>2 DEF SameJobs
  <1>3. ASSUME wpc[w] \in {"run", "abort"} PROVE wjob[w] \in 1 .. Len(jobs)
    BY <1>1, <1>3 DEF Serving, Working
  <1>4. CASE RunJob(w)
    <2>1. jobs' = [jobs EXCEPT ![wjob[w]].state = "done"] /\ wjob[w] \in 1 .. Len(jobs)
      BY <1>3, <1>4 DEF RunJob, MarkJob
    <2>2. /\ jobs' \in Seq(Job) /\ Len(jobs') = Len(jobs)
          /\ jobs'[wjob[w]].state = "done"
          /\ \A j \in 1 .. Len(jobs) :
                 /\ jobs'[j].lo = jobs[j].lo /\ jobs'[j].hi = jobs[j].hi
                 /\ jobs'[j].last = jobs[j].last
                 /\ jobs'[j].view = jobs[j].view /\ jobs'[j].gen = jobs[j].gen
                 /\ j # wjob[w] => jobs'[j] = jobs[j]
      BY <1>1, <2>1, MarkOne
    <2>3. SameJobs
      BY <2>2 DEF SameJobs
    <2> HIDE DEF SameJobs, RunJob, Abort
    <2> QED
      BY <1>4, <2>2, <2>3
  <1>5. CASE Abort(w)
    <2>1. jobs' = [jobs EXCEPT ![wjob[w]].state = "aborted"] /\ wjob[w] \in 1 .. Len(jobs)
      BY <1>3, <1>5 DEF Abort, MarkJob
    <2>2. /\ jobs' \in Seq(Job) /\ Len(jobs') = Len(jobs)
          /\ jobs'[wjob[w]].state = "aborted"
          /\ \A j \in 1 .. Len(jobs) :
                 /\ jobs'[j].lo = jobs[j].lo /\ jobs'[j].hi = jobs[j].hi
                 /\ jobs'[j].last = jobs[j].last
                 /\ jobs'[j].view = jobs[j].view /\ jobs'[j].gen = jobs[j].gen
                 /\ j # wjob[w] => jobs'[j] = jobs[j]
      BY <1>1, <2>1, MarkOne
    <2>3. SameJobs
      BY <2>2 DEF SameJobs
    <2> HIDE DEF SameJobs, RunJob, Abort
    <2> QED
      BY <1>5, <2>2, <2>3
  <1>6. UNCHANGED jobs \/ RunJob(w) \/ Abort(w)
    BY DEF ServeQueue, Claim, JobPanics, PublishPayload, PublishFlag, Count, Tick, queueVars
  <1> QED
    BY <1>2, <1>4, <1>5, <1>6

(* A push appends the job, posted.                                         *)
LEMMA PushJob ==
    ASSUME Types, Planned, Push
    PROVE  LET j == [lo |-> plan[1], hi |-> plan[2],
                     last |-> ret = "encode" /\ op # "flush" /\ ~(Len(plan) > 2),
                     view |-> Strip(plan[1]), gen |-> moves, state |-> "posted"]
           IN  /\ j \in Job
               /\ jobs' \in Seq(Job) /\ Len(jobs') = Len(jobs) + 1
               /\ jobs'[Len(jobs) + 1] = j
               /\ \A i \in 1 .. Len(jobs) : jobs'[i] = jobs[i]
               /\ plan[1] = hashed /\ plan[1] < plan[2] /\ plan[2] \in Nat /\ plan[2] <= pos
  <1> DEFINE j == [lo |-> plan[1], hi |-> plan[2],
                   last |-> ret = "encode" /\ op # "flush" /\ ~(Len(plan) > 2),
                   view |-> Strip(plan[1]), gen |-> moves, state |-> "posted"]
  <1>1. /\ plan \in Seq(Nat) /\ Len(plan) > 1 /\ Len(plan) \in Nat
        /\ plan[1] = hashed /\ \A i \in 1 .. Len(plan) - 1 : plan[i] < plan[i + 1]
        /\ plan[Len(plan)] <= pos
    BY LenProperties DEF Types, Planned, Push, InPost, Cuts
  <1>2. plan[1] \in Nat /\ plan[2] \in Nat /\ plan[1] < plan[2]
    <2>1. 1 \in 1 .. Len(plan) - 1 /\ 1 \in 1 .. Len(plan) /\ 2 \in 1 .. Len(plan) /\ 1 + 1 = 2
      BY <1>1
    <2> QED
      BY <1>1, <2>1
  <1>3. plan[2] <= pos
    <2> DEFINE S == {n \in Nat : n + 2 <= Len(plan) => plan[2] <= plan[n + 2]}
    <2>1. 0 \in S
      BY <1>2
    <2>2. ASSUME NEW n \in Nat, n \in S PROVE n + 1 \in S
      <3> SUFFICES ASSUME (n + 1) + 2 <= Len(plan) PROVE plan[2] <= plan[(n + 1) + 2]
        OBVIOUS
      <3>1. n + 2 \in 1 .. Len(plan) - 1 /\ n + 2 \in 1 .. Len(plan) /\ (n + 2) + 1 \in 1 .. Len(plan)
            /\ (n + 2) + 1 = (n + 1) + 2
        BY <1>1
      <3>2. plan[n + 2] < plan[(n + 2) + 1] /\ plan[n + 2] \in Nat /\ plan[(n + 2) + 1] \in Nat
        BY <1>1, <3>1
      <3> QED
        BY <1>2, <2>2, <3>1, <3>2
    <2> HIDE DEF S
    <2>3. Len(plan) - 2 \in Nat
      BY <1>1
    <2>4. Len(plan) - 2 \in S
      BY <2>1, <2>2, <2>3, SetInduction
    <2>5. (Len(plan) - 2) + 2 = Len(plan) /\ plan[Len(plan)] \in Nat
      BY <1>1
    <2>6. plan[2] <= plan[Len(plan)]
      BY <2>4, <2>5, <1>1 DEF S
    <2> QED
      BY <1>1, <1>2, <2>5, <2>6 DEF Types
  <1>4. Strip(plan[1]) \in Nat
    BY <1>2, StreamGridAssumption DEF Strip, Most
  <1>5. j \in Job
    BY <1>2, <1>4 DEF Job, Types
  <1>6. jobs' = Append(jobs, j) /\ jobs \in Seq(Job)
    BY DEF Push, Types
  <1> HIDE DEF j
  <1>7. /\ jobs' \in Seq(Job) /\ Len(jobs') = Len(jobs) + 1
        /\ jobs'[Len(jobs) + 1] = j
        /\ \A i \in 1 .. Len(jobs) : jobs'[i] = jobs[i]
    BY <1>5, <1>6, AppendProperties
  <1> QED
    BY <1>1, <1>2, <1>3, <1>5, <1>7 DEF j

(* A surfaced panic aborts what waits, and nothing else.                   *)
LEMMA SurfaceJobs ==
    ASSUME Types, SurfacePoison
    PROVE  /\ SameJobs
           /\ \A j \in 1 .. Len(jobs) :
                  IF j > claimed THEN jobs'[j].state = "aborted" ELSE jobs'[j] = jobs[j]
           /\ claimed' = Len(jobs)
  <1> DEFINE r(j) == [jobs[j] EXCEPT !.state = "aborted"]
  <1>1. jobs \in Seq(Job) /\ claimed \in 0 .. Len(jobs)
    BY DEF Types
  <1>2. jobs' = [j \in 1 .. Len(jobs) |-> IF j > claimed THEN r(j) ELSE jobs[j]]
        /\ claimed' = Len(jobs)
    BY <1>1 DEF SurfacePoison
  <1>3. ASSUME NEW j \in 1 .. Len(jobs)
        PROVE  /\ jobs[j] \in Job /\ r(j) \in Job /\ r(j).state = "aborted"
               /\ r(j).lo = jobs[j].lo /\ r(j).hi = jobs[j].hi /\ r(j).last = jobs[j].last
               /\ r(j).view = jobs[j].view /\ r(j).gen = jobs[j].gen
    BY <1>1, JobType DEF Job
  <1> HIDE DEF r
  <1>4. \A j \in 1 .. Len(jobs) : jobs'[j] = IF j > claimed THEN r(j) ELSE jobs[j]
    BY <1>2
  <1>5. jobs' \in Seq(Job) /\ Len(jobs') = Len(jobs)
    <2>1. Len(jobs) \in Nat
      BY <1>1
    <2>2. jobs' \in [1 .. Len(jobs) -> Job]
      BY <1>2, <1>3
    <2> QED
      BY <2>1, <2>2
  <1> QED
    BY <1>2, <1>3, <1>4, <1>5 DEF SameJobs

(* Assembling takes the jobs at the front that are finished.               *)
LEMMA AssembleTakes ==
    ASSUME Types
    PROVE  /\ Assembled \in assembled .. Len(jobs) /\ Assembled \in Nat
           /\ \A j \in assembled + 1 .. Assembled : jobs[j].state # "posted"
  <1>1. assembled \in Nat /\ Len(jobs) \in Nat /\ assembled <= Len(jobs)
    BY DEF Types
  <1>2. assembled \in Ready
    BY <1>1 DEF Ready
  <1>3. Ready \subseteq 0 .. Len(jobs)
    BY <1>1 DEF Ready
  <1>4. \E k \in Ready : \A j \in Ready : j <= k
    BY <1>1, <1>2, <1>3, GreatestElement
  <1>5. Assembled \in Ready
    BY <1>4 DEF Assembled
  <1> QED
    BY <1>1, <1>5 DEF Ready

-----------------------------------------------------------------------------
(* What a step does to the variables it works on.                         *)

(* Assembling moves pending jobs into the output; the frame as it will be  *)
(* read stays the same.                                                    *)
LEMMA AssembleKeeps ==
    ASSUME Types, AssembleReady, UNCHANGED jobs
    PROVE  /\ output' \in Seq(Part) /\ Len(output') = Len(output) + (Assembled - assembled)
           /\ assembled' = Assembled /\ assembled' \in 0 .. Len(jobs) /\ assembled <= assembled'
           /\ Total \in Nat /\ Total' = Total
           /\ \A i \in 1 .. Total : Lo(i)' = Lo(i) /\ Hi(i)' = Hi(i) /\ LastOf(i)' = LastOf(i)
           /\ \A i \in 1 .. Len(output') : output'[i].hole =>
                  \/ i \in 1 .. Len(output) /\ output[i].hole
                  \/ \E j \in 1 .. Len(jobs) : jobs[j].state = "aborted"
  <1> DEFINE n == Assembled - assembled
             q == [i \in 1 .. n |-> PartOf(assembled + i)]
  <1>1. /\ output \in Seq(Part) /\ jobs \in Seq(Job) /\ Len(output) \in Nat /\ Len(jobs) \in Nat
        /\ assembled \in Nat /\ assembled <= Len(jobs)
    BY DEF Types
  <1>2. n \in Nat /\ Assembled \in Nat /\ Assembled <= Len(jobs) /\ assembled + n = Assembled
    BY <1>1, AssembleTakes
  <1>3. \A i \in 1 .. n : /\ assembled + i \in 1 .. Len(jobs)
                          /\ PartOf(assembled + i) \in Part
                          /\ PartOf(assembled + i).lo = jobs[assembled + i].lo
                          /\ PartOf(assembled + i).hi = jobs[assembled + i].hi
                          /\ PartOf(assembled + i).last = jobs[assembled + i].last
                          /\ PartOf(assembled + i).hole = (jobs[assembled + i].state = "aborted")
    <2> SUFFICES ASSUME NEW i \in 1 .. n
                 PROVE  /\ assembled + i \in 1 .. Len(jobs)
                        /\ PartOf(assembled + i) \in Part
                        /\ PartOf(assembled + i).lo = jobs[assembled + i].lo
                        /\ PartOf(assembled + i).hi = jobs[assembled + i].hi
                        /\ PartOf(assembled + i).last = jobs[assembled + i].last
                        /\ PartOf(assembled + i).hole = (jobs[assembled + i].state = "aborted")
      OBVIOUS
    <2>1. assembled + i \in 1 .. Len(jobs)
      BY <1>1, <1>2
    <2> QED
      BY <1>1, <2>1, JobType DEF PartOf, Part
  <1>4. q \in Seq(Part) /\ Len(q) = n /\ \A i \in 1 .. n : q[i] = PartOf(assembled + i)
    <2>1. q \in [1 .. n -> Part]
      BY <1>3
    <2> QED
      BY <1>2, <2>1
  <1>5. output' = output \o q
    BY DEF AssembleReady
  <1> HIDE DEF q
  <1>6. /\ output' \in Seq(Part) /\ Len(output') = Len(output) + n
        /\ \A i \in 1 .. Len(output) : output'[i] = output[i]
        /\ \A i \in Len(output) + 1 .. Len(output) + n : output'[i] = q[i - Len(output)]
    <2>1. \A i \in 1 .. Len(output) + Len(q) :
             output'[i] = IF i <= Len(output) THEN output[i] ELSE q[i - Len(output)]
      BY <1>1, <1>4, <1>5, ConcatProperties
    <2>2. output' \in Seq(Part) /\ Len(output') = Len(output) + Len(q)
      BY <1>1, <1>4, <1>5, ConcatProperties
    <2>3. Len(q) = n /\ n \in Nat
      BY <1>2, <1>4
    <2> HIDE DEF n
    <2>4. \A i \in 1 .. Len(output) :
              i \in 1 .. Len(output) + n /\ i <= Len(output)
      BY <1>1, <2>3
    <2>5. \A i \in Len(output) + 1 .. Len(output) + n :
              i \in 1 .. Len(output) + n /\ ~(i <= Len(output))
      BY <1>1, <2>3
    <2> QED
      BY <2>1, <2>2, <2>3, <2>4, <2>5
  <1>7. assembled' = Assembled
    BY DEF AssembleReady
  <1>8. Total \in Nat /\ Total' = Total
    <2>1. Len(output') = Len(output) + n /\ assembled' = assembled + n /\ UNCHANGED jobs
      BY <1>2, <1>6, <1>7
    <2> HIDE DEF n
    <2> QED
      BY <1>1, <1>2, <2>1 DEF Total
  <1> HIDE DEF n
  <1>9. ASSUME NEW i \in 1 .. Total
        PROVE  Lo(i)' = Lo(i) /\ Hi(i)' = Hi(i) /\ LastOf(i)' = LastOf(i)
    <2>1. CASE i <= Len(output)
      <3>1. i \in 1 .. Len(output) /\ i <= Len(output')
        BY <1>1, <1>2, <1>6, <1>8, <2>1
      <3> QED
        BY <1>6, <2>1, <3>1 DEF Lo, Hi, LastOf
    <2>2. CASE i > Len(output) /\ i <= Len(output) + n
      <3>1. /\ i \in Len(output) + 1 .. Len(output) + n /\ i - Len(output) \in 1 .. n
            /\ i <= Len(output') /\ ~(i <= Len(output))
        BY <1>1, <1>2, <1>6, <1>8, <2>2
      <3>2. output'[i] = PartOf(assembled + (i - Len(output)))
        BY <1>4, <1>6, <3>1
      <3> QED
        BY <1>3, <3>1, <3>2 DEF Lo, Hi, LastOf
    <2>3. CASE i > Len(output) + n
      <3>1. /\ ~(i <= Len(output)) /\ ~(i <= Len(output'))
            /\ assembled' + (i - Len(output')) = assembled + (i - Len(output))
        BY <1>1, <1>2, <1>6, <1>7, <1>8, <2>3
      <3> QED
        BY <3>1 DEF Lo, Hi, LastOf
    <2> QED
      BY <1>1, <1>2, <1>8, <2>1, <2>2, <2>3
  <1>10. ASSUME NEW i \in 1 .. Len(output'), output'[i].hole
         PROVE  \/ i \in 1 .. Len(output) /\ output[i].hole
                \/ \E j \in 1 .. Len(jobs) : jobs[j].state = "aborted"
    <2>1. CASE i \in 1 .. Len(output)
      BY <1>6, <1>10, <2>1
    <2>2. CASE i \in Len(output) + 1 .. Len(output) + n
      <3>1. i - Len(output) \in 1 .. n
        BY <1>1, <1>2, <2>2
      <3>2. output'[i] = PartOf(assembled + (i - Len(output)))
        BY <1>4, <1>6, <2>2, <3>1
      <3> QED
        BY <1>3, <1>10, <3>1, <3>2
    <2> QED
      BY <1>1, <1>2, <1>6, <2>1, <2>2
  <1>11. assembled' \in 0 .. Len(jobs) /\ assembled <= assembled'
    BY <1>1, <1>2, <1>7
  <1> QED
    BY <1>6, <1>7, <1>8, <1>9, <1>10, <1>11 DEF n

-----------------------------------------------------------------------------
(* The steps keep the invariant, a conjunct at a time.                     *)

(* The offsets.                                                            *)
LEMMA OffsetsStep ==
    ASSUME StreamInv, Next
    PROVE  /\ mode' = mode /\ pledged' = pledged
           /\ pos' \in Nat /\ jobStart' \in Nat /\ hashed' \in Nat
           /\ pos <= pos' /\ hashed' <= pos' /\ jobStart' <= hashed' /\ jobStart <= jobStart'
  <1>0. /\ pos \in Nat /\ jobStart \in Nat /\ hashed \in Nat /\ hashed <= pos /\ jobStart <= hashed
        /\ base \in Nat /\ cap \in Nat /\ todo \in Nat
        /\ mode # "owned" => pos - base <= cap
        /\ pc = "feed" => mode # "owned"
    BY DEF StreamInv, Types, Buffer, Control
  <1>1. CASE UNCHANGED <<mode, pledged, pos, jobStart, hashed>>
    BY <1>0, <1>1
  <1>2. ASSUME NEW n \in Sources, PullOwned(n)
        PROVE  UNCHANGED <<mode, pledged, jobStart, hashed>> /\ pos' \in Nat /\ pos <= pos'
    BY <1>0, <1>2, StreamMtAssumption DEF PullOwned
  <1>3. CASE FeedWrite
    <2>1. UNCHANGED <<mode, pledged, jobStart, hashed>>
      BY <1>3 DEF FeedWrite
    <2>2. pos' = pos \/ (pos' = pos + Least(cap - Buffered, todo) /\ Buffered # cap)
      <3>1. CASE todo = 0
        BY <1>3, <3>1 DEF FeedWrite
      <3>2. CASE todo > 0 /\ Buffered = cap
        BY <1>3, <3>2 DEF FeedWrite
      <3>3. CASE todo # 0 /\ Buffered # cap
        BY <1>3, <3>3 DEF FeedWrite
      <3> QED
        BY <1>0, <3>1, <3>2, <3>3
    <2>3. Buffered <= cap /\ Buffered \in Int
      BY <1>0, <1>3 DEF FeedWrite, Buffered
    <2>4. pos' \in Nat /\ pos <= pos'
      BY <1>0, <2>2, <2>3 DEF Least
    <2> QED
      BY <1>0, <2>1, <2>4
  <1>4. ASSUME NEW n \in 0 .. Step, FeedRead(n)
        PROVE  UNCHANGED <<mode, pledged, jobStart, hashed>> /\ pos' \in Nat /\ pos <= pos'
    BY <1>0, <1>4, StreamMtAssumption DEF FeedRead
  <1>5. CASE Push
    <2>1. plan[1] = hashed /\ plan[1] < plan[2] /\ plan[2] \in Nat /\ plan[2] <= pos
      BY <1>5, PushJob DEF StreamInv
    <2>2. /\ UNCHANGED <<mode, pledged, pos>> /\ hashed' = plan[2]
          /\ jobStart' = jobStart \/ jobStart' = plan[2]
      BY <1>5 DEF Push
    <2> QED
      BY <1>0, <2>1, <2>2
  <1>6. CASE EncodeInline
    BY <1>0, <1>6 DEF EncodeInline
  <1> QED
    BY <1>0, <1>1, <1>2, <1>3, <1>4, <1>5, <1>6, OffsetsLeft

(* The buffer: a feed fits, and space is made for what is kept.            *)
LEMMA BufferStep ==
    ASSUME StreamInv, Next
    PROVE  /\ base' \in Nat /\ cap' \in Nat /\ moves' \in Nat
           /\ Buffer'
  <1>0. /\ pos \in Nat /\ jobStart \in Nat /\ hashed \in Nat /\ hashed <= pos /\ jobStart <= hashed
        /\ base \in Nat /\ cap \in Nat /\ moves \in Nat /\ todo \in Nat
        /\ mode # "owned" => pos - base <= cap
        /\ base <= Strip(jobStart)
        /\ pc = "feed" => mode # "owned"
    BY DEF StreamInv, Types, Buffer, Control
  <1>1. /\ mode' = mode /\ pos' \in Nat /\ jobStart' \in Nat /\ jobStart' <= hashed'
        /\ pos <= pos' /\ jobStart <= jobStart'
    BY OffsetsStep
  <1>2. Strip(jobStart) <= Strip(jobStart') /\ Strip(jobStart) \in Nat /\ Strip(jobStart') \in Nat
        /\ Strip(jobStart) <= jobStart
    <2>1. Overlap \in Nat
      BY StreamGridAssumption
    <2>3. \A o \in Nat : Strip(o) \in Nat /\ Strip(o) <= o
      BY <2>1 DEF Strip, Most
    <2>4. \A o, p \in Nat : o <= p => Strip(o) <= Strip(p)
      BY <2>1 DEF Strip, Most
    <2> QED
      BY <1>0, <1>1, <2>3, <2>4
  <1>3. CASE UNCHANGED bufferVars
    <2>1. base' = base /\ cap' = cap /\ moves' = moves
      BY <1>3 DEF bufferVars
    <2>2. mode # "owned" => pos' - base <= cap
      <3>1. CASE UNCHANGED <<mode, pledged, pos, jobStart, hashed>> \/ Push \/ EncodeInline
        BY <1>0, <3>1 DEF Push, EncodeInline
      <3>2. ASSUME NEW n \in Sources, PullOwned(n) PROVE mode = "owned"
        BY <3>2 DEF PullOwned
      <3>3. CASE FeedWrite
        <4>1. pos' = pos \/ pos' = pos + Least(cap - Buffered, todo)
          BY <3>3 DEF FeedWrite
        <4> QED
          BY <1>0, <3>3, <4>1 DEF FeedWrite, Buffered, Least
      <3>4. ASSUME NEW n \in 0 .. Step, FeedRead(n) PROVE pos' - base <= cap
        <4>1. n \in Int /\ n <= Least(Step, cap - Buffered) /\ pos' = pos + n
          BY <3>4, StreamMtAssumption DEF FeedRead
        <4> QED
          BY <1>0, <4>1, StreamMtAssumption DEF Buffered, Least
      <3> QED
        BY <3>1, <3>2, <3>3, <3>4, OffsetsLeft
    <2>3. base' <= Strip(jobStart') /\ (mode' # "owned" => pos' - base' <= cap')
      <3>1. base' <= Strip(jobStart')
        BY <1>0, <1>2, <2>1
      <3> QED
        BY <1>1, <2>1, <2>2, <3>1
    <2>4. base' <= Strip(jobStart)'
      BY <2>3 DEF Strip
    <2> QED
      BY <1>0, <1>1, <2>1, <2>3, <2>4 DEF Buffer
  <1>4. CASE WaitLeave
    <2>1. base' = base /\ cap' = cap /\ moves' = moves + 1 /\ UNCHANGED <<pos, jobStart, hashed>>
      BY <1>4 DEF WaitLeave, frameVars
    <2> QED
      BY <1>0, <1>1, <2>1 DEF Buffer, Strip
  <1>5. CASE MakeSpace
    <2> DEFINE len == pos - Strip(jobStart)
    <2>1. base' = Strip(jobStart) /\ UNCHANGED <<pos, jobStart, hashed>>
      BY <1>5 DEF MakeSpace, frameVars
    <2>2. Want \in Nat
      BY <1>0, StreamMtAssumption DEF Want, Least
    <2>3. len \in Nat
      BY <1>0, <1>2
    <2>5. /\ cap' = Most(len + Want + Slack, Least(2 * cap, BufCapMax)) \/ (cap' = cap /\ len + Want <= cap)
          /\ moves' = moves \/ moves' = moves + 1
      <3> DEFINE grows == len + Want > cap \/ cap < BufCapMax
      <3>1. /\ cap' = IF grows THEN Most(len + Want + Slack, Least(2 * cap, BufCapMax)) ELSE cap
            /\ moves' = IF grows \/ base' > base THEN moves + 1 ELSE moves
        BY <1>5 DEF MakeSpace
      <3>2. CASE grows
        BY <3>1, <3>2
      <3>3. CASE ~grows
        <4>1. cap' = cap /\ ~(len + Want > cap)
          BY <3>1, <3>3
        <4>2. len + Want <= cap
          BY <1>0, <2>2, <2>3, <4>1
        <4>3. moves' = moves \/ moves' = moves + 1
          BY <3>1
        <4> QED
          BY <4>1, <4>2, <4>3
      <3> QED
        BY <3>2, <3>3
    <2>4. cap' \in Nat /\ len <= cap'
      <3> HIDE DEF len
      <3> QED
        BY <1>0, <2>2, <2>3, <2>5, StreamMtAssumption, StreamGridAssumption DEF Most, Least
    <2>6. moves' \in Nat
      BY <1>0, <2>5
    <2>7. base' <= Strip(jobStart)' /\ (mode' # "owned" => pos' - base' <= cap')
      BY <1>0, <1>2, <2>1, <2>4 DEF Strip
    <2> QED
      BY <1>0, <1>1, <1>2, <2>1, <2>4, <2>6, <2>7 DEF Buffer
  <1> QED
    BY <1>3, <1>4, <1>5, BufferLeft

(* The flags are flags.                                                    *)
LEMMA FlagsStep ==
    ASSUME StreamInv, Next
    PROVE  /\ header' \in BOOLEAN /\ finishing' \in BOOLEAN /\ finished' \in BOOLEAN
           /\ closeEmpty' \in BOOLEAN /\ flushed' \in BOOLEAN
           /\ payload' \in BOOLEAN /\ poisoned' \in BOOLEAN /\ shutdown' \in BOOLEAN
  <1>0. /\ header \in BOOLEAN /\ finishing \in BOOLEAN /\ finished \in BOOLEAN
        /\ closeEmpty \in BOOLEAN /\ flushed \in BOOLEAN
        /\ payload \in BOOLEAN /\ poisoned \in BOOLEAN /\ shutdown \in BOOLEAN
    BY DEF StreamInv, Types
  <1>1. header' \in BOOLEAN /\ finishing' \in BOOLEAN /\ finished' \in BOOLEAN /\ closeEmpty' \in BOOLEAN
    <2>1. CASE UNCHANGED <<header, finishing, finished, closeEmpty, output, assembled>>
      BY <1>0, <2>1
    <2>2. CASE Register
      BY <1>0, <2>2 DEF Register
    <2>3. ASSUME NEW S \in SUBSET Worker, SpawnFails(S)
          PROVE  header' = TRUE /\ UNCHANGED <<finishing, finished, closeEmpty>>
      BY <2>3 DEF SpawnFails
    <2>4. CASE Push
      <3>1. UNCHANGED <<header, finished, closeEmpty>> /\ finishing' \in BOOLEAN
        BY <2>4 DEF Push
      <3> QED
        BY <1>0, <3>1
    <2>5. CASE Begin
      <3>1. /\ header' = header \/ header' = (header \/ op # "flush")
            /\ finishing' = finishing \/ finishing' = (finishing \/ op # "flush")
            /\ closeEmpty' = closeEmpty \/ closeEmpty' = (closeEmpty \/ op # "flush")
            /\ finished' = finished
        BY <2>5 DEF Begin
      <3> QED
        BY <1>0, <3>1
    <2>6. CASE EncodeInline
      BY <1>0, <2>6 DEF EncodeInline
    <2>7. CASE EncodeJobs
      BY <1>0, <2>7 DEF EncodeJobs
    <2>8. CASE Drain
      BY <1>0, <2>8 DEF Drain
    <2>9. CASE Drained
      BY <1>0, <2>9 DEF Drained
    <2>10. CASE Settle
      BY <1>0, <2>10 DEF Settle
    <2> QED
      BY <1>0, <2>1, <2>2, <2>3, <2>4, <2>5, <2>6, <2>7, <2>8, <2>9, <2>10, FrameLeft
  <1>2. flushed' \in BOOLEAN
    <2>1. ASSUME Call PROVE flushed' = flushed
      BY <2>1 DEF Call, Write, Pull, PullOwned, Flush, Finish, Drop, frameVars
    <2>2. ASSUME InCall PROVE flushed' = flushed \/ Begin
      BY <2>2 DEF InCall, WaitLeave, FeedWrite, FeedRead, MakeSpaceWait, MakeSpace, CheckPoisoned,
         PostReady, PostCheck, Register, SpawnFails, Push, EncodeInline, EncodeJobs, Drain, Drained,
         Settle, SurfacePoison, Pending, Snapshot, Progressed, PayloadGone, frameVars
    <2>3. ASSUME NEW w \in Worker, ServeQueue(w) PROVE flushed' = flushed
      BY <2>3 DEF ServeQueue, frameVars
    <2>4. ASSUME Begin PROVE flushed' = flushed \/ flushed' = (flushed \/ op = "flush")
      BY <2>4 DEF Begin
    <2> QED
      BY <1>0, <2>1, <2>2, <2>3, <2>4 DEF Next
  <1>3. payload' \in BOOLEAN /\ poisoned' \in BOOLEAN
    <2>1. CASE UNCHANGED <<jobs, claimed, incomplete, completed, payload, poisoned>>
      BY <1>0, <2>1
    <2>2. CASE Register
      BY <1>0, <2>2 DEF Register
    <2>3. CASE Push
      BY <1>0, <2>3 DEF Push
    <2>4. CASE SurfacePoison
      BY <1>0, <2>4 DEF SurfacePoison
    <2>5. ASSUME NEW w \in Worker, ServeQueue(w)
          PROVE  payload' \in {payload, TRUE} /\ poisoned' \in {poisoned, TRUE}
      BY <2>5 DEF ServeQueue, Claim, RunJob, JobPanics, PublishPayload, PublishFlag, Abort, Count, Tick,
         queueVars
    <2> QED
      BY <1>0, <2>1, <2>2, <2>3, <2>4, <2>5, QueueLeft
  <1>4. shutdown' \in BOOLEAN
    <2>1. ASSUME Call PROVE shutdown' = shutdown \/ shutdown' = (pool # {})
      BY <2>1 DEF Call, Write, Pull, PullOwned, Flush, Finish, Drop, poolVars
    <2>2. ASSUME InCall PROVE shutdown' = shutdown
      BY <2>2 DEF InCall, WaitLeave, FeedWrite, FeedRead, MakeSpaceWait, MakeSpace, CheckPoisoned,
         PostReady, PostCheck, Register, SpawnFails, Push, Begin, EncodeInline, EncodeJobs, Drain, Drained,
         Settle, SurfacePoison, Pending, Snapshot, Progressed, PayloadGone, poolVars
    <2>3. ASSUME NEW w \in Worker, ServeQueue(w) PROVE shutdown' = shutdown
      BY <2>3 DEF ServeQueue, Claim, RunJob, JobPanics, PublishPayload, PublishFlag, Abort, Count, Tick
    <2> QED
      BY <1>0, <2>1, <2>2, <2>3 DEF Next
  <1> QED
    BY <1>1, <1>2, <1>3, <1>4

(* The queue grows, and what is claimed of it.                             *)
LEMMA QueueStep ==
    ASSUME StreamInv, Next
    PROVE  /\ jobs' \in Seq(Job) /\ Len(jobs) <= Len(jobs')
           /\ \A j \in 1 .. Len(jobs) :
                  /\ jobs'[j].lo = jobs[j].lo /\ jobs'[j].hi = jobs[j].hi
                  /\ jobs'[j].last = jobs[j].last
                  /\ jobs'[j].view = jobs[j].view /\ jobs'[j].gen = jobs[j].gen
           /\ claimed' \in 0 .. Len(jobs') /\ claimed <= claimed'
           /\ completed' \in Nat
           /\ ~Push => Len(jobs') = Len(jobs)
  <1>0. /\ jobs \in Seq(Job) /\ Len(jobs) \in Nat /\ claimed \in 0 .. Len(jobs) /\ claimed \in Nat
        /\ completed \in Nat
    BY DEF StreamInv, Types
  <1>1. CASE UNCHANGED <<jobs, claimed, incomplete, completed, payload, poisoned>>
    BY <1>0, <1>1
  <1>2. CASE Register
    BY <1>0, <1>2 DEF Register
  <1>3. CASE Push
    <2>1. /\ jobs' \in Seq(Job) /\ Len(jobs') = Len(jobs) + 1
          /\ \A i \in 1 .. Len(jobs) : jobs'[i] = jobs[i]
      BY <1>3, PushJob DEF StreamInv
    <2>2. claimed' = claimed /\ completed' = completed
      BY <1>3 DEF Push
    <2> QED
      BY <1>0, <1>3, <2>1, <2>2
  <1>4. CASE SurfacePoison
    <2>1. SameJobs /\ claimed' = Len(jobs)
      BY <1>4, SurfaceJobs DEF StreamInv
    <2>2. completed' = completed
      BY <1>4 DEF SurfacePoison
    <2> QED
      BY <1>0, <2>1, <2>2 DEF SameJobs
  <1>5. ASSUME NEW w \in Worker, ServeQueue(w)
        PROVE  /\ SameJobs
               /\ claimed' \in 0 .. Len(jobs) /\ claimed <= claimed' /\ completed' \in Nat
    <2>1. SameJobs
      BY <1>5, ServeJobs DEF StreamInv
    <2>2. claimed' = claimed \/ (claimed < Len(jobs) /\ claimed' = claimed + 1)
      BY <1>5 DEF ServeQueue, Claim, RunJob, JobPanics, PublishPayload, PublishFlag, Abort, Count, Tick,
         queueVars
    <2>3. completed' = completed \/ completed' = completed + 1
      BY <1>5 DEF ServeQueue, Claim, RunJob, JobPanics, PublishPayload, PublishFlag, Abort, Count, Tick,
         queueVars
    <2> QED
      BY <1>0, <2>1, <2>2, <2>3
  <1> QED
    BY <1>0, <1>1, <1>2, <1>3, <1>4, <1>5, QueueLeft DEF SameJobs

(* The frame's parts grow; the reader takes no more than there are.        *)
LEMMA OutputStep ==
    ASSUME StreamInv, Next
    PROVE  /\ output' \in Seq(Part) /\ Len(output) <= Len(output')
           /\ delivered' \in Nat /\ delivered' <= Len(output')
           /\ assembled' \in 0 .. Len(jobs) /\ assembled <= assembled'
           /\ ~Drained /\ ~EncodeInline => Len(output') - assembled' = Len(output) - assembled
  <1>0. /\ output \in Seq(Part) /\ Len(output) \in Nat /\ jobs \in Seq(Job) /\ Len(jobs) \in Nat
        /\ assembled \in Nat /\ assembled <= Len(jobs)
        /\ delivered \in Nat /\ delivered <= Len(output)
        /\ pos \in Nat /\ jobStart \in Nat
    BY DEF StreamInv, Types
  <1>1. delivered' = delivered \/ delivered' = Len(output)
    <2>1. ASSUME Call PROVE delivered' = delivered \/ delivered' = Len(output)
      BY <2>1 DEF Call, Write, Pull, PullOwned, Flush, Finish, Drop, frameVars
    <2>2. ASSUME InCall PROVE delivered' = delivered
      BY <2>2 DEF InCall, WaitLeave, FeedWrite, FeedRead, MakeSpaceWait, MakeSpace, CheckPoisoned,
         PostReady, PostCheck, Register, SpawnFails, Push, Begin, EncodeInline, EncodeJobs, Drain, Drained,
         Settle, SurfacePoison, Pending, Snapshot, Progressed, PayloadGone, frameVars
    <2>3. ASSUME NEW w \in Worker, ServeQueue(w) PROVE delivered' = delivered
      BY <2>3 DEF ServeQueue, frameVars
    <2> QED
      BY <2>1, <2>2, <2>3 DEF Next
  <1>2. ASSUME AssembleReady, UNCHANGED jobs
        PROVE  /\ output' \in Seq(Part) /\ Len(output) <= Len(output')
               /\ assembled' \in 0 .. Len(jobs) /\ assembled <= assembled'
               /\ Len(output') - assembled' = Len(output) - assembled
    <2>1. /\ output' \in Seq(Part) /\ Len(output') = Len(output) + (Assembled - assembled)
          /\ assembled' = Assembled /\ assembled' \in 0 .. Len(jobs) /\ assembled <= assembled'
      BY <1>2, AssembleKeeps DEF StreamInv
    <2> HIDE DEF AssembleReady
    <2> QED
      BY <1>0, <2>1
  <1>3. ASSUME NEW p \in Part, output' = Append(output, p)
        PROVE  output' \in Seq(Part) /\ Len(output') = Len(output) + 1
    BY <1>0, <1>3, AppendProperties
  <1>4. CASE UNCHANGED <<header, finishing, finished, closeEmpty, output, assembled>>
    BY <1>0, <1>1, <1>4
  <1>5. CASE Register
    <2>1. AssembleReady /\ UNCHANGED jobs
      BY <1>5 DEF Register
    <2> QED
      BY <1>0, <1>1, <1>2, <2>1
  <1>6. ASSUME NEW S \in SUBSET Worker, SpawnFails(S) PROVE AssembleReady /\ UNCHANGED jobs
    BY <1>6 DEF SpawnFails, queueVars
  <1>7. CASE Push \/ Begin \/ EncodeJobs
    <2>1. output' = output /\ assembled' = assembled
      BY <1>7 DEF Push, Begin, EncodeJobs
    <2> QED
      BY <1>0, <1>1, <2>1
  <1>8. CASE EncodeInline
    <2>1. [lo |-> jobStart, hi |-> pos, last |-> op # "flush", hole |-> FALSE] \in Part
      BY <1>0 DEF Part
    <2>2. assembled' = assembled
          /\ output' = Append(output, [lo |-> jobStart, hi |-> pos, last |-> op # "flush", hole |-> FALSE])
      BY <1>8 DEF EncodeInline
    <2> QED
      BY <1>0, <1>1, <1>3, <1>8, <2>1, <2>2
  <1>9. CASE Drain
    <2>1. AssembleReady /\ UNCHANGED jobs
      BY <1>9 DEF Drain, queueVars
    <2> QED
      BY <1>0, <1>1, <1>2, <2>1
  <1>10. CASE Drained
    <2>1. [lo |-> pos, hi |-> pos, last |-> TRUE, hole |-> FALSE] \in Part
      BY <1>0 DEF Part
    <2>2. /\ assembled' = assembled
          /\ \/ output' = output
             \/ output' = Append(output, [lo |-> pos, hi |-> pos, last |-> TRUE, hole |-> FALSE])
      BY <1>10 DEF Drained
    <2> QED
      BY <1>0, <1>1, <1>3, <1>10, <2>1, <2>2
  <1>11. CASE Settle
    <2>1. (AssembleReady /\ UNCHANGED jobs) \/ (output' = output /\ assembled' = assembled)
      BY <1>11 DEF Settle, queueVars
    <2> QED
      BY <1>0, <1>1, <1>2, <2>1
  <1> QED
    BY <1>0, <1>1, <1>2, <1>4, <1>5, <1>6, <1>7, <1>8, <1>9, <1>10, <1>11, FrameLeft

(* The workers.                                                            *)
LEMMA WorkersStep ==
    ASSUME StreamInv, Next
    PROVE  /\ pool' \subseteq Worker
           /\ wpc' \in [Worker -> {"none", "claim", "asleep", "run", "payload", "flag", "abort",
                                   "count", "tick", "left"}]
           /\ wjob' \in [Worker -> Nat]
  <1> DEFINE P == {"none", "claim", "asleep", "run", "payload", "flag", "abort", "count", "tick", "left"}
  <1>0. pool \subseteq Worker /\ wpc \in [Worker -> P] /\ wjob \in [Worker -> Nat] /\ claimed \in Nat
    BY DEF StreamInv, Types
  <1>1. Woken \in [Worker -> P]
    BY <1>0 DEF Woken
  <1>2. CASE UNCHANGED <<pool, wpc, wjob>>
    BY <1>0, <1>2
  <1>3. CASE Register
    BY <1>0, <1>3 DEF Register
  <1>4. ASSUME NEW S \in SUBSET Worker, SpawnFails(S)
        PROVE  pool' \subseteq Worker /\ wpc' \in [Worker -> P] /\ wjob' = wjob
    BY <1>0, <1>4 DEF SpawnFails
  <1>5. CASE Push \/ Drop
    BY <1>0, <1>1, <1>5 DEF Push, Drop
  <1>6. ASSUME NEW w \in Worker, ServeQueue(w)
        PROVE  pool' = pool /\ wpc' \in [Worker -> P] /\ wjob' \in [Worker -> Nat]
    <2>1. pool' = pool /\ \E p \in P : Place(w, p)
      BY <1>6 DEF ServeQueue, Claim, RunJob, JobPanics, PublishPayload, PublishFlag, Abort, Count, Tick
    <2>2. \E n \in {0, claimed + 1} : wjob' = wjob \/ wjob' = [wjob EXCEPT ![w] = n]
      BY <1>6 DEF ServeQueue, Claim, RunJob, JobPanics, PublishPayload, PublishFlag, Abort, Count, Tick
    <2> HIDE DEF P
    <2>3. wpc' \in [Worker -> P]
      BY <1>0, <2>1 DEF Place
    <2>4. wjob' \in [Worker -> Nat]
      BY <1>0, <2>2
    <2> QED
      BY <2>1, <2>3, <2>4
  <1> QED
    BY <1>0, <1>2, <1>3, <1>4, <1>5, <1>6, WorkersLeft

-----------------------------------------------------------------------------
(* The calls.                                                             *)

(* Where a call goes.                                                      *)
LEMMA ControlStep ==
    ASSUME StreamInv, Next
    PROVE  /\ op' \in {"none", "write", "pull", "flush", "finish", "drop"}
           /\ pc' \in {"idle", "feed", "space", "full", "ready", "post", "register", "push", "begin",
                       "encode", "drain", "pending", "drained", "wait", "parked", "surface",
                       "settle", "leave", "gone"}
           /\ ret' \in {"none", "ready", "encode", "space", "drain", "settle"}
           /\ before' \in Nat /\ todo' \in Nat /\ unwinds' \in Nat
           /\ Control'
  <1> DEFINE O == {"none", "write", "pull", "flush", "finish", "drop"}
             P == {"idle", "feed", "space", "full", "ready", "post", "register", "push", "begin",
                   "encode", "drain", "pending", "drained", "wait", "parked", "surface",
                   "settle", "leave", "gone"}
             R == {"none", "ready", "encode", "space", "drain", "settle"}
             Goal == op' \in O /\ pc' \in P /\ ret' \in R /\ before' \in Nat /\ unwinds' \in Nat /\ Control'
  <1>0. /\ op \in O /\ pc \in P /\ ret \in R /\ before \in Nat /\ todo \in Nat /\ unwinds \in Nat
        /\ completed \in Nat /\ mode \in {"write", "read", "owned"}
    BY StreamMtAssumption DEF StreamInv, Types
  <1>1. Control /\ Planned
    BY DEF StreamInv
  <1>2. todo' \in Nat
    <2>1. ASSUME NEW n \in Chunks, Write(n) PROVE todo' \in Nat
      BY <2>1, StreamMtAssumption DEF Write
    <2>2. CASE FeedWrite
      <3>1. /\ cap \in Nat /\ Buffered \in Int /\ Buffered <= cap
        BY <2>2 DEF StreamInv, Types, Buffer, Control, FeedWrite, Buffered
      <3>2. todo' \in {0, todo} \/ todo' = todo - Least(cap - Buffered, todo)
        <4>1. CASE todo = 0
          BY <2>2, <4>1 DEF FeedWrite, Return
        <4>2. CASE todo > 0 /\ Buffered = cap
          BY <2>2, <4>2 DEF FeedWrite, Goto
        <4>3. CASE todo # 0 /\ Buffered # cap
          BY <2>2, <4>3 DEF FeedWrite
        <4> QED
          BY <1>0, <4>1, <4>2, <4>3
      <3> QED
        BY <1>0, <3>1, <3>2 DEF Least
    <2>3. ASSUME Call PROVE todo' = todo \/ \E n \in Chunks : Write(n)
      BY <2>3 DEF Call, Pull, PullOwned, Flush, Finish, Drop
    <2>4. ASSUME InCall PROVE todo' \in {0, todo} \/ FeedWrite
      BY <2>4 DEF InCall, WaitLeave, FeedRead, MakeSpaceWait, MakeSpace, CheckPoisoned, Push,
         PostReady, PostCheck, Register, SpawnFails, EncodeInline, EncodeJobs, Drain, Drained, Begin,
         Settle, SurfacePoison, Pending, Snapshot, Progressed, PayloadGone, Goto, Return, Resume, Unwind
    <2>5. ASSUME NEW w \in Worker, ServeQueue(w) PROVE todo' = todo
      BY <2>5 DEF ServeQueue, callVars
    <2> QED
      BY <1>0, <2>1, <2>2, <2>3, <2>4, <2>5 DEF Next
  <1>3. ASSUME UNCHANGED <<mode, op, pc, ret, before, unwinds>> PROVE Goal
    BY <1>0, <1>1, <1>3 DEF Control, Waiting
  <1>4. ASSUME NEW n \in Chunks, Write(n) PROVE Goal
    BY <1>0, <1>1, <1>4 DEF Write, Callable, Control, Waiting, frameVars
  <1>5. ASSUME NEW n \in Sources, PullOwned(n) PROVE Goal
    BY <1>0, <1>1, <1>5 DEF PullOwned, Callable, Control, Waiting
  <1>6. ASSUME FeedWrite PROVE Goal
    <2>1. UNCHANGED <<mode, unwinds>> /\ pc = "feed" /\ op = "write"
      BY <1>6 DEF FeedWrite
    <2>2. CASE todo = 0
      BY <1>0, <1>1, <1>6, <2>1, <2>2 DEF FeedWrite, Control, Waiting, Return
    <2>3. CASE todo > 0 /\ Buffered = cap
      BY <1>0, <1>1, <1>6, <2>1, <2>3 DEF FeedWrite, Control, Waiting, Goto
    <2>4. CASE todo # 0 /\ Buffered # cap
      <3>1. pc' = "ready" /\ UNCHANGED <<op, ret, before>>
        BY <1>6, <2>4 DEF FeedWrite
      <3> QED
        BY <1>0, <1>1, <2>1, <3>1 DEF Control, Waiting
    <2> QED
      BY <1>0, <2>2, <2>3, <2>4
  <1>7. ASSUME NEW n \in 0 .. Step, FeedRead(n) PROVE Goal
    BY <1>0, <1>1, <1>7 DEF FeedRead, Control, Waiting, Goto, Return
  <1>8. ASSUME NEW S \in SUBSET Worker, SpawnFails(S) PROVE Goal
    BY <1>0, <1>1, <1>8 DEF SpawnFails, Control, Waiting, Unwind, Return
  <1>9. ASSUME Pull PROVE Goal
    BY <1>0, <1>1, <1>9 DEF Pull, Callable, Control, Planned, InPost, Waiting, Goto, Return, Resume, Unwind, frameVars
  <1>10. ASSUME Flush PROVE Goal
    BY <1>0, <1>1, <1>10 DEF Flush, Callable, Control, Planned, InPost, Waiting, Goto, Return, Resume, Unwind, frameVars
  <1>11. ASSUME Finish PROVE Goal
    BY <1>0, <1>1, <1>11 DEF Finish, Callable, Control, Planned, InPost, Waiting, Goto, Return, Resume, Unwind, frameVars
  <1>12. ASSUME Drop PROVE Goal
    BY <1>0, <1>1, <1>12 DEF Drop, Callable, Control, Planned, InPost, Waiting, Goto, Return, Resume, Unwind, frameVars
  <1>13. ASSUME WaitLeave PROVE Goal
    BY <1>0, <1>1, <1>13 DEF WaitLeave, Control, Planned, InPost, Waiting, Goto, Return, Resume, Unwind, frameVars
  <1>14. ASSUME MakeSpaceWait PROVE Goal
    BY <1>0, <1>1, <1>14 DEF MakeSpaceWait, Control, Planned, InPost, Waiting, Goto, Return, Resume, Unwind, frameVars
  <1>15. ASSUME CheckPoisoned PROVE Goal
    BY <1>0, <1>1, <1>15 DEF CheckPoisoned, Control, Planned, InPost, Waiting, Goto, Return, Resume, Unwind, frameVars
  <1>16. ASSUME MakeSpace PROVE Goal
    BY <1>0, <1>1, <1>16 DEF MakeSpace, Control, Planned, InPost, Waiting, Goto, Return, Resume, Unwind, frameVars
  <1>17. ASSUME PostReady PROVE Goal
    BY <1>0, <1>1, <1>17 DEF PostReady, Control, Planned, InPost, Waiting, Goto, Return, Resume, Unwind, frameVars
  <1>18. ASSUME PostCheck PROVE Goal
    BY <1>0, <1>1, <1>18 DEF PostCheck, Control, Planned, InPost, Waiting, Goto, Return, Resume, Unwind, frameVars
  <1>19. ASSUME Register PROVE Goal
    BY <1>0, <1>1, <1>19 DEF Register, Control, Planned, InPost, Waiting, Goto, Return, Resume, Unwind, frameVars
  <1>20. ASSUME Push PROVE Goal
    BY <1>0, <1>1, <1>20 DEF Push, Control, Planned, InPost, Waiting, Goto, Return, Resume, Unwind, frameVars
  <1>21. ASSUME Begin PROVE Goal
    BY <1>0, <1>1, <1>21 DEF Begin, Control, Planned, InPost, Waiting, Goto, Return, Resume, Unwind, frameVars
  <1>22. ASSUME EncodeInline PROVE Goal
    BY <1>0, <1>1, <1>22 DEF EncodeInline, Control, Planned, InPost, Waiting, Goto, Return, Resume, Unwind, frameVars
  <1>23. ASSUME EncodeJobs PROVE Goal
    BY <1>0, <1>1, <1>23 DEF EncodeJobs, Control, Planned, InPost, Waiting, Goto, Return, Resume, Unwind, frameVars
  <1>24. ASSUME Drain PROVE Goal
    BY <1>0, <1>1, <1>24 DEF Drain, Control, Planned, InPost, Waiting, Goto, Return, Resume, Unwind, frameVars
  <1>25. ASSUME Pending PROVE Goal
    BY <1>0, <1>1, <1>25 DEF Pending, Control, Planned, InPost, Waiting, Goto, Return, Resume, Unwind, frameVars
  <1>26. ASSUME Drained PROVE Goal
    BY <1>0, <1>1, <1>26 DEF Drained, Control, Planned, InPost, Waiting, Goto, Return, Resume, Unwind, frameVars
  <1>27. ASSUME Snapshot PROVE Goal
    BY <1>0, <1>1, <1>27 DEF Snapshot, Control, Planned, InPost, Waiting, Goto, Return, Resume, Unwind, frameVars
  <1>28. ASSUME Progressed PROVE Goal
    BY <1>0, <1>1, <1>28 DEF Progressed, Control, Planned, InPost, Waiting, Goto, Return, Resume, Unwind, frameVars
  <1>29. ASSUME SurfacePoison PROVE Goal
    BY <1>0, <1>1, <1>29 DEF SurfacePoison, Control, Planned, InPost, Waiting, Goto, Return, Resume, Unwind, frameVars
  <1>30. ASSUME PayloadGone PROVE Goal
    BY <1>0, <1>1, <1>30 DEF PayloadGone, Control, Planned, InPost, Waiting, Goto, Return, Resume, Unwind, frameVars
  <1>31. ASSUME Settle PROVE Goal
    BY <1>0, <1>1, <1>31 DEF Settle, Control, Planned, InPost, Waiting, Goto, Return, Resume, Unwind, frameVars
  <1>32. ASSUME NEW w \in Worker, ServeQueue(w) PROVE UNCHANGED <<mode, op, pc, ret, before, unwinds>>
    BY <1>32 DEF ServeQueue, callVars, frameVars
  <1>33. Goal
    <2> HIDE DEF Goal
    <2>1. ASSUME Call PROVE Goal
      BY <2>1, <1>4, <1>5, <1>9, <1>10, <1>11, <1>12 DEF Call
    <2>2. ASSUME InCall PROVE Goal
      BY <2>2, <1>6, <1>7, <1>8, <1>13, <1>14, <1>15, <1>16, <1>17, <1>18, <1>19, <1>20, <1>21, <1>22, <1>23, <1>24, <1>25, <1>26, <1>27, <1>28, <1>29, <1>30, <1>31 DEF InCall
    <2> QED
      BY <2>1, <2>2, <1>3, <1>32 DEF Next
  <1> QED
    BY <1>2, <1>33

(* Some places are reached by one step only, and a call that has panicked  *)
(* stays one.                                                              *)
LEMMA Leads ==
    ASSUME StreamInv, Next
    PROVE  /\ pc' = "gone" => WaitLeave \/ \E w \in Worker : ServeQueue(w)
           /\ pc' = "push" => Register \/ \E w \in Worker : ServeQueue(w)
           /\ unwinds <= unwinds'
           /\ plan' = plan \/ plan' = <<>> \/ PostReady \/ EncodeJobs \/ Push
  <1> DEFINE Goal == /\ pc' = "gone" => WaitLeave \/ \E w \in Worker : ServeQueue(w)
                     /\ pc' = "push" => Register \/ \E w \in Worker : ServeQueue(w)
                     /\ unwinds <= unwinds'
                     /\ plan' = plan \/ plan' = <<>> \/ PostReady \/ EncodeJobs \/ Push
  <1>0. /\ unwinds \in Nat /\ todo \in Nat
        /\ pc \in {"wait", "parked"} => ret \in {"space", "drain", "settle"}
    BY DEF StreamInv, Types, Control
  <1>1. ASSUME NEW n \in Chunks, Write(n) PROVE Goal
    BY <1>0, <1>1 DEF Write, Goto, Return, Resume, Unwind, frameVars
  <1>2. ASSUME NEW n \in Sources, PullOwned(n) PROVE Goal
    BY <1>0, <1>2 DEF PullOwned, Goto, Return, Resume, Unwind, frameVars
  <1>3. ASSUME Pull PROVE Goal
    BY <1>0, <1>3 DEF Pull, Goto, Return, Resume, Unwind, frameVars
  <1>4. ASSUME Flush PROVE Goal
    BY <1>0, <1>4 DEF Flush, Goto, Return, Resume, Unwind, frameVars
  <1>5. ASSUME Finish PROVE Goal
    BY <1>0, <1>5 DEF Finish, Goto, Return, Resume, Unwind, frameVars
  <1>6. ASSUME Drop PROVE Goal
    BY <1>0, <1>6 DEF Drop, Goto, Return, Resume, Unwind, frameVars
  <1>7. ASSUME NEW n \in 0 .. Step, FeedRead(n) PROVE Goal
    BY <1>0, <1>7 DEF FeedRead, Goto, Return, Resume, Unwind, frameVars
  <1>8. ASSUME NEW S \in SUBSET Worker, SpawnFails(S) PROVE Goal
    BY <1>0, <1>8 DEF SpawnFails, Goto, Return, Resume, Unwind, frameVars
  <1>9. ASSUME WaitLeave PROVE Goal
    BY <1>0, <1>9 DEF WaitLeave, Goto, Return, Resume, Unwind, frameVars
  <1>10. ASSUME FeedWrite PROVE Goal
    <2>1. CASE todo = 0
      BY <1>0, <1>10, <2>1 DEF FeedWrite, Goto, Return, Resume, Unwind, frameVars
    <2>2. CASE todo > 0 /\ Buffered = cap
      BY <1>0, <1>10, <2>2 DEF FeedWrite, Goto, Return, Resume, Unwind, frameVars
    <2>3. CASE todo # 0 /\ Buffered # cap
      BY <1>0, <1>10, <2>3 DEF FeedWrite, Goto, Return, Resume, Unwind, frameVars
    <2> QED
      BY <1>0, <2>1, <2>2, <2>3
  <1>11. ASSUME MakeSpaceWait PROVE Goal
    BY <1>0, <1>11 DEF MakeSpaceWait, Goto, Return, Resume, Unwind, frameVars
  <1>12. ASSUME CheckPoisoned PROVE Goal
    BY <1>0, <1>12 DEF CheckPoisoned, Goto, Return, Resume, Unwind, frameVars
  <1>13. ASSUME MakeSpace PROVE Goal
    BY <1>0, <1>13 DEF MakeSpace, Goto, Return, Resume, Unwind, frameVars
  <1>14. ASSUME PostReady PROVE Goal
    BY <1>0, <1>14 DEF PostReady, Goto, Return, Resume, Unwind, frameVars
  <1>15. ASSUME PostCheck PROVE Goal
    BY <1>0, <1>15 DEF PostCheck, Goto, Return, Resume, Unwind, frameVars
  <1>16. ASSUME Register PROVE Goal
    BY <1>0, <1>16 DEF Register, Goto, Return, Resume, Unwind, frameVars
  <1>17. ASSUME Push PROVE Goal
    BY <1>0, <1>17 DEF Push, Goto, Return, Resume, Unwind, frameVars
  <1>18. ASSUME Begin PROVE Goal
    BY <1>0, <1>18 DEF Begin, Goto, Return, Resume, Unwind, frameVars
  <1>19. ASSUME EncodeInline PROVE Goal
    BY <1>0, <1>19 DEF EncodeInline, Goto, Return, Resume, Unwind, frameVars
  <1>20. ASSUME EncodeJobs PROVE Goal
    BY <1>0, <1>20 DEF EncodeJobs, Goto, Return, Resume, Unwind, frameVars
  <1>21. ASSUME Drain PROVE Goal
    BY <1>0, <1>21 DEF Drain, Goto, Return, Resume, Unwind, frameVars
  <1>22. ASSUME Pending PROVE Goal
    BY <1>0, <1>22 DEF Pending, Goto, Return, Resume, Unwind, frameVars
  <1>23. ASSUME Drained PROVE Goal
    BY <1>0, <1>23 DEF Drained, Goto, Return, Resume, Unwind, frameVars
  <1>24. ASSUME Snapshot PROVE Goal
    BY <1>0, <1>24 DEF Snapshot, Goto, Return, Resume, Unwind, frameVars
  <1>25. ASSUME Progressed PROVE Goal
    BY <1>0, <1>25 DEF Progressed, Goto, Return, Resume, Unwind, frameVars
  <1>26. ASSUME SurfacePoison PROVE Goal
    BY <1>0, <1>26 DEF SurfacePoison, Goto, Return, Resume, Unwind, frameVars
  <1>27. ASSUME PayloadGone PROVE Goal
    BY <1>0, <1>27 DEF PayloadGone, Goto, Return, Resume, Unwind, frameVars
  <1>28. ASSUME Settle PROVE Goal
    BY <1>0, <1>28 DEF Settle, Goto, Return, Resume, Unwind, frameVars
  <1>29. ASSUME NEW w \in Worker, ServeQueue(w) PROVE Goal
    BY <1>0, <1>29 DEF ServeQueue, callVars
  <1>30. Goal
    <2> HIDE DEF Goal
    <2>1. ASSUME Call PROVE Goal
      BY <2>1, <1>1, <1>2, <1>3, <1>4, <1>5, <1>6 DEF Call
    <2>2. ASSUME InCall PROVE Goal
      BY <2>2, <1>7, <1>8, <1>9, <1>10, <1>11, <1>12, <1>13, <1>14, <1>15, <1>16, <1>17, <1>18, <1>19, <1>20, <1>21, <1>22, <1>23, <1>24, <1>25, <1>26, <1>27, <1>28 DEF InCall
    <2> QED
      BY <2>1, <2>2, <1>29 DEF Next
  <1> QED
    BY <1>30

(* What is posted stays so; a panic's flag stays up; the leases are kept.  *)
LEMMA Sticky ==
    ASSUME StreamInv, Next
    PROVE  /\ poisoned => poisoned'
           /\ pool # {} => pool' # {}
           /\ finishing => finishing'
           /\ header => header'
           /\ closeEmpty => closeEmpty'
           /\ finished => finished'
  <1> DEFINE Goal == /\ poisoned => poisoned'
                     /\ pool # {} => pool' # {}
                     /\ finishing => finishing'
                     /\ header => header'
                     /\ closeEmpty => closeEmpty'
                     /\ finished => finished'
  <1>0. /\ todo \in Nat
        /\ finished => pc \in {"idle", "leave", "gone"}
    BY DEF StreamInv, Types, Closed
  <1>1. ASSUME NEW n \in Chunks, Write(n) PROVE Goal
    BY <1>0, <1>1 DEF Write, queueVars, poolVars, frameVars, bufferVars
  <1>2. ASSUME NEW n \in Sources, PullOwned(n) PROVE Goal
    BY <1>0, <1>2 DEF PullOwned, queueVars, poolVars, frameVars, bufferVars
  <1>3. ASSUME Pull PROVE Goal
    BY <1>0, <1>3 DEF Pull, queueVars, poolVars, frameVars, bufferVars
  <1>4. ASSUME Flush PROVE Goal
    BY <1>0, <1>4 DEF Flush, queueVars, poolVars, frameVars, bufferVars
  <1>5. ASSUME Finish PROVE Goal
    BY <1>0, <1>5 DEF Finish, queueVars, poolVars, frameVars, bufferVars
  <1>6. ASSUME Drop PROVE Goal
    BY <1>0, <1>6 DEF Drop, queueVars, poolVars, frameVars, bufferVars
  <1>7. ASSUME NEW n \in 0 .. Step, FeedRead(n) PROVE Goal
    BY <1>0, <1>7 DEF FeedRead, queueVars, poolVars, frameVars, bufferVars
  <1>8. ASSUME NEW S \in SUBSET Worker, SpawnFails(S) PROVE Goal
    BY <1>0, <1>8 DEF SpawnFails, queueVars, poolVars, frameVars, bufferVars
  <1>9. ASSUME WaitLeave PROVE Goal
    BY <1>0, <1>9 DEF WaitLeave, queueVars, poolVars, frameVars, bufferVars
  <1>10. ASSUME FeedWrite PROVE Goal
    <2>1. CASE todo = 0
      BY <1>0, <1>10, <2>1 DEF FeedWrite, queueVars, poolVars, frameVars, bufferVars
    <2>2. CASE todo > 0 /\ Buffered = cap
      BY <1>0, <1>10, <2>2 DEF FeedWrite, queueVars, poolVars, frameVars, bufferVars
    <2>3. CASE todo # 0 /\ Buffered # cap
      BY <1>0, <1>10, <2>3 DEF FeedWrite, queueVars, poolVars, frameVars, bufferVars
    <2> QED
      BY <1>0, <2>1, <2>2, <2>3
  <1>11. ASSUME MakeSpaceWait PROVE Goal
    BY <1>0, <1>11 DEF MakeSpaceWait, queueVars, poolVars, frameVars, bufferVars
  <1>12. ASSUME CheckPoisoned PROVE Goal
    BY <1>0, <1>12 DEF CheckPoisoned, queueVars, poolVars, frameVars, bufferVars
  <1>13. ASSUME MakeSpace PROVE Goal
    BY <1>0, <1>13 DEF MakeSpace, queueVars, poolVars, frameVars, bufferVars
  <1>14. ASSUME PostReady PROVE Goal
    BY <1>0, <1>14 DEF PostReady, queueVars, poolVars, frameVars, bufferVars
  <1>15. ASSUME PostCheck PROVE Goal
    BY <1>0, <1>15 DEF PostCheck, queueVars, poolVars, frameVars, bufferVars
  <1>16. ASSUME Register PROVE Goal
    BY <1>0, <1>16 DEF Register, queueVars, poolVars, frameVars, bufferVars
  <1>17. ASSUME Push PROVE Goal
    BY <1>0, <1>17 DEF Push, queueVars, poolVars, frameVars, bufferVars
  <1>18. ASSUME Begin PROVE Goal
    BY <1>0, <1>18 DEF Begin, queueVars, poolVars, frameVars, bufferVars
  <1>19. ASSUME EncodeInline PROVE Goal
    BY <1>0, <1>19 DEF EncodeInline, queueVars, poolVars, frameVars, bufferVars
  <1>20. ASSUME EncodeJobs PROVE Goal
    BY <1>0, <1>20 DEF EncodeJobs, queueVars, poolVars, frameVars, bufferVars
  <1>21. ASSUME Drain PROVE Goal
    BY <1>0, <1>21 DEF Drain, queueVars, poolVars, frameVars, bufferVars
  <1>22. ASSUME Pending PROVE Goal
    BY <1>0, <1>22 DEF Pending, queueVars, poolVars, frameVars, bufferVars
  <1>23. ASSUME Drained PROVE Goal
    BY <1>0, <1>23 DEF Drained, queueVars, poolVars, frameVars, bufferVars
  <1>24. ASSUME Snapshot PROVE Goal
    BY <1>0, <1>24 DEF Snapshot, queueVars, poolVars, frameVars, bufferVars
  <1>25. ASSUME Progressed PROVE Goal
    BY <1>0, <1>25 DEF Progressed, queueVars, poolVars, frameVars, bufferVars
  <1>26. ASSUME SurfacePoison PROVE Goal
    BY <1>0, <1>26 DEF SurfacePoison, queueVars, poolVars, frameVars, bufferVars
  <1>27. ASSUME PayloadGone PROVE Goal
    BY <1>0, <1>27 DEF PayloadGone, queueVars, poolVars, frameVars, bufferVars
  <1>28. ASSUME Settle PROVE Goal
    BY <1>0, <1>28 DEF Settle, queueVars, poolVars, frameVars, bufferVars
  <1>29. ASSUME NEW w \in Worker, ServeQueue(w) PROVE Goal
    BY <1>0, <1>29 DEF ServeQueue, Claim, RunJob, JobPanics, PublishPayload, PublishFlag, Abort, Count,
       Tick, queueVars, frameVars
  <1>30. Goal
    <2> HIDE DEF Goal
    <2>1. ASSUME Call PROVE Goal
      BY <2>1, <1>1, <1>2, <1>3, <1>4, <1>5, <1>6 DEF Call
    <2>2. ASSUME InCall PROVE Goal
      BY <2>2, <1>7, <1>8, <1>9, <1>10, <1>11, <1>12, <1>13, <1>14, <1>15, <1>16, <1>17, <1>18, <1>19, <1>20, <1>21, <1>22, <1>23, <1>24, <1>25, <1>26, <1>27, <1>28 DEF InCall
    <2> QED
      BY <2>1, <2>2, <1>29 DEF Next
  <1> QED
    BY <1>30

-----------------------------------------------------------------------------
(* The jobs planned and posted.                                           *)

(* The rest of a plan is a plan.                                           *)
LEMMA CutsRest ==
    ASSUME NEW c, NEW lo \in Nat, NEW hi \in Nat, Cuts(c, lo, hi), Len(c) > 2
    PROVE  /\ Tail(c) \in Seq(Nat) /\ Len(Tail(c)) > 1 /\ Len(Tail(c)) = Len(c) - 1
           /\ Tail(c)[Len(Tail(c))] = c[Len(c)] /\ Cuts(Tail(c), c[2], hi)
  <1>1. /\ c \in Seq(Nat) /\ Len(c) \in Nat /\ c[Len(c)] = hi /\ c # <<>>
        /\ \A i \in 1 .. Len(c) - 1 : c[i] < c[i + 1]
    BY LenProperties DEF Cuts
  <1>2. /\ Tail(c) \in Seq(Nat) /\ Len(Tail(c)) = Len(c) - 1
        /\ \A i \in 1 .. Len(c) - 1 : Tail(c)[i] = c[i + 1]
    BY <1>1, HeadTailProperties
  <1>3. Tail(c)[1] = c[2] /\ Tail(c)[Len(c) - 1] = c[Len(c)]
    <2>1. 1 \in 1 .. Len(c) - 1 /\ Len(c) - 1 \in 1 .. Len(c) - 1 /\ (Len(c) - 1) + 1 = Len(c) /\ 1 + 1 = 2
      BY <1>1
    <2> QED
      BY <1>2, <2>1
  <1>4. ASSUME NEW i \in 1 .. Len(Tail(c)) - 1 PROVE Tail(c)[i] < Tail(c)[i + 1]
    <2>1. i \in 1 .. Len(c) - 1 /\ i + 1 \in 1 .. Len(c) - 1
      BY <1>1, <1>2
    <2> QED
      BY <1>1, <1>2, <2>1
  <1> QED
    BY <1>1, <1>2, <1>3, <1>4 DEF Cuts

(* The caller stays posting with its plan.                                 *)
LEMMA PostKept ==
    ASSUME StreamInv, Next, ~PostReady, ~EncodeJobs, ~Push
    PROVE  InPost' => InPost /\ UNCHANGED <<op, ret, plan, hashed>>
  <1> DEFINE Goal == InPost' => InPost /\ UNCHANGED <<op, ret, plan, hashed>>
  <1>0. /\ todo \in Nat /\ ~PostReady /\ ~EncodeJobs /\ ~Push
        /\ pc \in {"wait", "parked"} => ret \in {"space", "drain", "settle"}
    BY DEF StreamInv, Types, Control
  <1>1. ASSUME NEW n \in Chunks, Write(n) PROVE Goal
    BY <1>0, <1>1 DEF Write, InPost, Goto, Return, Resume, Unwind, frameVars
  <1>2. ASSUME NEW n \in Sources, PullOwned(n) PROVE Goal
    BY <1>0, <1>2 DEF PullOwned, InPost, Goto, Return, Resume, Unwind, frameVars
  <1>3. ASSUME Pull PROVE Goal
    BY <1>0, <1>3 DEF Pull, InPost, Goto, Return, Resume, Unwind, frameVars
  <1>4. ASSUME Flush PROVE Goal
    BY <1>0, <1>4 DEF Flush, InPost, Goto, Return, Resume, Unwind, frameVars
  <1>5. ASSUME Finish PROVE Goal
    BY <1>0, <1>5 DEF Finish, InPost, Goto, Return, Resume, Unwind, frameVars
  <1>6. ASSUME Drop PROVE Goal
    BY <1>0, <1>6 DEF Drop, InPost, Goto, Return, Resume, Unwind, frameVars
  <1>7. ASSUME NEW n \in 0 .. Step, FeedRead(n) PROVE Goal
    BY <1>0, <1>7 DEF FeedRead, InPost, Goto, Return, Resume, Unwind, frameVars
  <1>8. ASSUME NEW S \in SUBSET Worker, SpawnFails(S) PROVE Goal
    BY <1>0, <1>8 DEF SpawnFails, InPost, Goto, Return, Resume, Unwind, frameVars
  <1>9. ASSUME WaitLeave PROVE Goal
    BY <1>0, <1>9 DEF WaitLeave, InPost, Goto, Return, Resume, Unwind, frameVars
  <1>10. ASSUME FeedWrite PROVE Goal
    <2>1. CASE todo = 0
      BY <1>0, <1>10, <2>1 DEF FeedWrite, InPost, Goto, Return, Resume, Unwind, frameVars
    <2>2. CASE todo > 0 /\ Buffered = cap
      BY <1>0, <1>10, <2>2 DEF FeedWrite, InPost, Goto, Return, Resume, Unwind, frameVars
    <2>3. CASE todo # 0 /\ Buffered # cap
      BY <1>0, <1>10, <2>3 DEF FeedWrite, InPost, Goto, Return, Resume, Unwind, frameVars
    <2> QED
      BY <1>0, <2>1, <2>2, <2>3
  <1>11. ASSUME MakeSpaceWait PROVE Goal
    BY <1>0, <1>11 DEF MakeSpaceWait, InPost, Goto, Return, Resume, Unwind, frameVars
  <1>12. ASSUME CheckPoisoned PROVE Goal
    BY <1>0, <1>12 DEF CheckPoisoned, InPost, Goto, Return, Resume, Unwind, frameVars
  <1>13. ASSUME MakeSpace PROVE Goal
    BY <1>0, <1>13 DEF MakeSpace, InPost, Goto, Return, Resume, Unwind, frameVars
  <1>14. ASSUME PostReady PROVE Goal
    BY <1>0, <1>14 DEF PostReady, InPost, Goto, Return, Resume, Unwind, frameVars
  <1>15. ASSUME PostCheck PROVE Goal
    BY <1>0, <1>15 DEF PostCheck, InPost, Goto, Return, Resume, Unwind, frameVars
  <1>16. ASSUME Register PROVE Goal
    BY <1>0, <1>16 DEF Register, InPost, Goto, Return, Resume, Unwind, frameVars
  <1>17. ASSUME Push PROVE Goal
    BY <1>0, <1>17 DEF Push, InPost, Goto, Return, Resume, Unwind, frameVars
  <1>18. ASSUME Begin PROVE Goal
    BY <1>0, <1>18 DEF Begin, InPost, Goto, Return, Resume, Unwind, frameVars
  <1>19. ASSUME EncodeInline PROVE Goal
    BY <1>0, <1>19 DEF EncodeInline, InPost, Goto, Return, Resume, Unwind, frameVars
  <1>20. ASSUME EncodeJobs PROVE Goal
    BY <1>0, <1>20 DEF EncodeJobs, InPost, Goto, Return, Resume, Unwind, frameVars
  <1>21. ASSUME Drain PROVE Goal
    BY <1>0, <1>21 DEF Drain, InPost, Goto, Return, Resume, Unwind, frameVars
  <1>22. ASSUME Pending PROVE Goal
    BY <1>0, <1>22 DEF Pending, InPost, Goto, Return, Resume, Unwind, frameVars
  <1>23. ASSUME Drained PROVE Goal
    BY <1>0, <1>23 DEF Drained, InPost, Goto, Return, Resume, Unwind, frameVars
  <1>24. ASSUME Snapshot PROVE Goal
    BY <1>0, <1>24 DEF Snapshot, InPost, Goto, Return, Resume, Unwind, frameVars
  <1>25. ASSUME Progressed PROVE Goal
    BY <1>0, <1>25 DEF Progressed, InPost, Goto, Return, Resume, Unwind, frameVars
  <1>26. ASSUME SurfacePoison PROVE Goal
    BY <1>0, <1>26 DEF SurfacePoison, InPost, Goto, Return, Resume, Unwind, frameVars
  <1>27. ASSUME PayloadGone PROVE Goal
    BY <1>0, <1>27 DEF PayloadGone, InPost, Goto, Return, Resume, Unwind, frameVars
  <1>28. ASSUME Settle PROVE Goal
    BY <1>0, <1>28 DEF Settle, InPost, Goto, Return, Resume, Unwind, frameVars
  <1>29. ASSUME NEW w \in Worker, ServeQueue(w) PROVE Goal
    BY <1>29 DEF ServeQueue, InPost, callVars, frameVars
  <1>30. Goal
    <2> HIDE DEF Goal
    <2>1. ASSUME Call PROVE Goal
      BY <2>1, <1>1, <1>2, <1>3, <1>4, <1>5, <1>6 DEF Call
    <2>2. ASSUME InCall PROVE Goal
      BY <2>2, <1>7, <1>8, <1>9, <1>10, <1>11, <1>12, <1>13, <1>14, <1>15, <1>16, <1>17, <1>18, <1>19, <1>20, <1>21, <1>22, <1>23, <1>24, <1>25, <1>26, <1>27, <1>28 DEF InCall
    <2> QED
      BY <2>1, <2>2, <1>29 DEF Next
  <1> QED
    BY <1>30

(* No input comes while the caller is posting.                             *)
LEMMA PostFed ==
    ASSUME Next, InPost
    PROVE  pos' = pos
  <1>1. CASE UNCHANGED <<mode, pledged, pos, jobStart, hashed>>
    BY <1>1
  <1>2. ASSUME NEW n \in Sources, PullOwned(n) PROVE FALSE
    BY <1>2 DEF PullOwned, Callable, InPost
  <1>3. ASSUME NEW n \in 0 .. Step, FeedRead(n) PROVE FALSE
    BY <1>3 DEF FeedRead, InPost
  <1>4. FeedWrite => FALSE
    BY DEF FeedWrite, InPost
  <1>5. Push \/ EncodeInline => pos' = pos
    BY DEF Push, EncodeInline
  <1> QED
    BY <1>1, <1>2, <1>3, <1>4, <1>5, OffsetsLeft

(* The plan.                                                               *)
LEMMA PlanStep ==
    ASSUME StreamInv, Next
    PROVE  plan' \in Seq(Nat) /\ Planned'
  <1>0. /\ pos \in Nat /\ jobStart \in Nat /\ hashed \in Nat /\ hashed <= pos /\ plan \in Seq(Nat)
        /\ mode' = mode /\ pledged' = pledged /\ pos' \in Nat /\ pos <= pos'
        /\ op \in {"none", "write", "pull", "flush", "finish", "drop"}
    BY OffsetsStep DEF StreamInv, Types
  <1>1. CASE PostReady
    <2> DEFINE job == JobEnd(Grid, jobStart)
               end == IF Grid = "growing" THEN Least(job, EpochEnd(jobStart)) ELSE job
    <2>1. pc = "ready" /\ op \in {"write", "pull"} /\ unwinds = 0 /\ hashed = jobStart
      BY <1>1 DEF PostReady, StreamInv, Control, Absorbed, InPost, Waiting
    <2>2. /\ job \in Nat /\ jobStart < job
          /\ EpochEnd(jobStart) \in Nat /\ jobStart < EpochEnd(jobStart)
      BY <1>0, JobAhead
    <2>3. UNCHANGED <<pos, jobStart, hashed>>
      BY <1>1 DEF PostReady, frameVars
    <2>4. CASE PostDue(end)
      <3>1. plan' = <<jobStart, end>> /\ ret' = "ready" /\ pc' = "post" /\ op' = op
        BY <1>1, <2>4 DEF PostReady
      <3>2. end \in Nat /\ jobStart < end /\ end <= pos
        <4> HIDE DEF job
        <4>1. CASE Grid = "growing"
          <5>1. end = Least(job, EpochEnd(jobStart)) /\ pos >= EpochEnd(jobStart)
            BY <2>4, <4>1 DEF PostDue
          <5> QED
            BY <1>0, <2>2, <5>1 DEF Least
        <4>2. CASE Grid = "fixed"
          <5>1. end = job /\ pos >= job
            BY <2>4, <4>2 DEF PostDue
          <5> QED
            BY <1>0, <2>2, <5>1
        <4> QED
          BY <4>1, <4>2 DEF Grid
      <3> HIDE DEF end
      <3>3. plan' \in Seq(Nat) /\ Len(plan') = 2 /\ plan'[1] = jobStart /\ plan'[2] = end
        BY <1>0, <3>1, <3>2
      <3>4. Cuts(plan', jobStart, end)
        BY <3>2, <3>3 DEF Cuts
      <3> QED
        BY <1>0, <2>1, <2>3, <3>1, <3>2, <3>3, <3>4 DEF Planned
    <2>5. CASE ~PostDue(end)
      <3>1. (plan' = plan \/ plan' = <<>>) /\ pc' \in {"idle", "feed", "begin"}
        BY <1>1, <2>5 DEF PostReady, Goto, Return
      <3>2. ~InPost'
        BY <3>1 DEF InPost
      <3>3. plan' \in Seq(Nat)
        BY <1>0, <3>1, EmptySeq
      <3> QED
        BY <3>2, <3>3 DEF Planned
    <2> QED
      BY <2>4, <2>5
  <1>2. CASE EncodeJobs
    <2>1. pc = "encode" /\ op \in {"pull", "flush", "finish"} /\ hashed = jobStart /\ hashed < pos
      BY <1>2 DEF EncodeJobs, StreamInv, Control, Absorbed, InPost, Closed, Waiting
    <2>2. /\ plan' = Bounds(Grid, jobStart, pos) /\ ret' = "encode"
          /\ UNCHANGED <<pos, jobStart, hashed, op>>
      BY <1>2 DEF EncodeJobs
    <2>3. Grid \in {"fixed", "growing"}
      BY DEF Grid
    <2>4. Cuts(plan', jobStart, pos) /\ Len(plan') > 1
      BY <1>0, <2>1, <2>2, <2>3, BoundsCut
    <2>5. plan' \in Seq(Nat) /\ plan'[Len(plan')] = pos
      BY <2>4 DEF Cuts
    <2> QED
      BY <1>0, <2>1, <2>2, <2>4, <2>5 DEF Planned
  <1>3. CASE Push
    <2>1. /\ Len(plan) > 1 /\ Cuts(plan, hashed, plan[Len(plan)]) /\ plan[Len(plan)] <= pos
          /\ ret \in {"ready", "encode"}
          /\ ret = "ready" => Len(plan) = 2 /\ op \in {"write", "pull"}
          /\ ret = "encode" => plan[Len(plan)] = pos /\ op \in {"pull", "flush", "finish"}
      BY <1>3 DEF Push, StreamInv, Planned, InPost
    <2>2. UNCHANGED <<pos, op, ret>> /\ hashed' = plan[2]
      BY <1>3 DEF Push
    <2>3. CASE Len(plan) > 2
      <3>1. plan' = Tail(plan)
        BY <1>3, <2>3 DEF Push
      <3>2. plan[Len(plan)] \in Nat
        BY <1>0, <2>1
      <3>3. /\ plan' \in Seq(Nat) /\ Len(plan') > 1 /\ plan'[Len(plan')] = plan[Len(plan)]
            /\ Cuts(plan', hashed', plan[Len(plan)])
        BY <1>0, <2>1, <2>2, <2>3, <3>1, <3>2, CutsRest
      <3> QED
        BY <1>0, <2>1, <2>2, <2>3, <3>3, SMTT(20) DEF Planned
    <2>4. CASE ~(Len(plan) > 2)
      <3>1. plan' = <<>> /\ pc' \in {"drain", "ready"}
        BY <1>3, <2>4 DEF Push
      <3> QED
        BY <1>0, <3>1 DEF Planned, InPost
    <2> QED
      BY <2>3, <2>4
  <1>4. CASE ~PostReady /\ ~EncodeJobs /\ ~Push
    <2>1. plan' = plan \/ plan' = <<>>
      BY <1>4, Leads
    <2>2. InPost' => InPost /\ UNCHANGED <<op, ret, plan, hashed>>
      BY <1>4, PostKept
    <2>3. plan' \in Seq(Nat)
      BY <1>0, <2>1, EmptySeq
    <2>4. ASSUME InPost' PROVE Planned'
      <3>1. InPost /\ op' = op /\ ret' = ret /\ plan' = plan /\ hashed' = hashed
        BY <2>2, <2>4
      <3>2. /\ Len(plan) > 1 /\ Cuts(plan, hashed, plan[Len(plan)]) /\ plan[Len(plan)] <= pos
            /\ ret \in {"ready", "encode"}
            /\ ret = "ready" => Len(plan) = 2 /\ op \in {"write", "pull"}
            /\ ret = "encode" => plan[Len(plan)] = pos /\ op \in {"pull", "flush", "finish"}
        BY <3>1 DEF StreamInv, Planned
      <3>3. plan[Len(plan)] \in Nat
        BY <1>0, <3>2
      <3>4. ret = "encode" => pos' = pos
        BY <1>4, <3>1, PostFed
      <3> QED
        BY <1>0, <3>1, <3>2, <3>3, <3>4 DEF Planned
    <2> QED
      BY <2>3, <2>4 DEF Planned
  <1> QED
    BY <1>1, <1>2, <1>3, <1>4

(* What is absorbed is posted.                                             *)
LEMMA AbsorbedStep ==
    ASSUME StreamInv, Next
    PROVE  Absorbed'
  <1>0. /\ todo \in Nat /\ poisoned \in BOOLEAN /\ unwinds \in Nat
        /\ pc \in {"wait", "parked"} => ret \in {"space", "drain", "settle"}
        /\ poisoned => poisoned'
        /\ unwinds <= unwinds' /\ unwinds' \in Nat
        /\ Absorbed
        /\ pc = "push" => pool # {}
    BY Sticky, Leads, ControlStep DEF StreamInv, Types, Control, Pool
  <1>1. ASSUME NEW n \in Chunks, Write(n) PROVE Absorbed'
    BY <1>0, <1>1 DEF Write, Absorbed, InPost, Waiting, Callable, Goto, Return, Resume, Unwind, frameVars, poolVars, queueVars, callVars
  <1>2. ASSUME NEW n \in Sources, PullOwned(n) PROVE Absorbed'
    BY <1>0, <1>2 DEF PullOwned, Absorbed, InPost, Waiting, Callable, Goto, Return, Resume, Unwind, frameVars, poolVars, queueVars, callVars
  <1>3. ASSUME Pull PROVE Absorbed'
    BY <1>0, <1>3 DEF Pull, Absorbed, InPost, Waiting, Callable, Goto, Return, Resume, Unwind, frameVars, poolVars, queueVars, callVars
  <1>4. ASSUME Flush PROVE Absorbed'
    BY <1>0, <1>4 DEF Flush, Absorbed, InPost, Waiting, Callable, Goto, Return, Resume, Unwind, frameVars, poolVars, queueVars, callVars
  <1>5. ASSUME Finish PROVE Absorbed'
    BY <1>0, <1>5 DEF Finish, Absorbed, InPost, Waiting, Callable, Goto, Return, Resume, Unwind, frameVars, poolVars, queueVars, callVars
  <1>6. ASSUME Drop PROVE Absorbed'
    BY <1>0, <1>6 DEF Drop, Absorbed, InPost, Waiting, Callable, Goto, Return, Resume, Unwind, frameVars, poolVars, queueVars, callVars
  <1>7. ASSUME NEW n \in 0 .. Step, FeedRead(n) PROVE Absorbed'
    BY <1>0, <1>7 DEF FeedRead, Absorbed, InPost, Waiting, Callable, Goto, Return, Resume, Unwind, frameVars, poolVars, queueVars, callVars
  <1>8. ASSUME NEW S \in SUBSET Worker, SpawnFails(S) PROVE Absorbed'
    BY <1>0, <1>8 DEF SpawnFails, Absorbed, InPost, Waiting, Callable, Goto, Return, Resume, Unwind, frameVars, poolVars, queueVars, callVars
  <1>9. ASSUME WaitLeave PROVE Absorbed'
    BY <1>0, <1>9 DEF WaitLeave, Absorbed, InPost, Waiting, Callable, Goto, Return, Resume, Unwind, frameVars, poolVars, queueVars, callVars
  <1>10. ASSUME FeedWrite PROVE Absorbed'
    <2>1. CASE todo = 0
      BY <1>0, <1>10, <2>1 DEF FeedWrite, Absorbed, InPost, Waiting, Callable, Goto, Return, Resume, Unwind, frameVars, poolVars, queueVars, callVars
    <2>2. CASE todo > 0 /\ Buffered = cap
      BY <1>0, <1>10, <2>2 DEF FeedWrite, Absorbed, InPost, Waiting, Callable, Goto, Return, Resume, Unwind, frameVars, poolVars, queueVars, callVars
    <2>3. CASE todo # 0 /\ Buffered # cap
      BY <1>0, <1>10, <2>3 DEF FeedWrite, Absorbed, InPost, Waiting, Callable, Goto, Return, Resume, Unwind, frameVars, poolVars, queueVars, callVars
    <2> QED
      BY <1>0, <2>1, <2>2, <2>3
  <1>11. ASSUME MakeSpaceWait PROVE Absorbed'
    BY <1>0, <1>11 DEF MakeSpaceWait, Absorbed, InPost, Waiting, Callable, Goto, Return, Resume, Unwind, frameVars, poolVars, queueVars, callVars
  <1>12. ASSUME CheckPoisoned PROVE Absorbed'
    BY <1>0, <1>12 DEF CheckPoisoned, Absorbed, InPost, Waiting, Callable, Goto, Return, Resume, Unwind, frameVars, poolVars, queueVars, callVars
  <1>13. ASSUME MakeSpace PROVE Absorbed'
    BY <1>0, <1>13 DEF MakeSpace, Absorbed, InPost, Waiting, Callable, Goto, Return, Resume, Unwind, frameVars, poolVars, queueVars, callVars
  <1>14. ASSUME PostReady PROVE Absorbed'
    BY <1>0, <1>14 DEF PostReady, Absorbed, InPost, Waiting, Callable, Goto, Return, Resume, Unwind, frameVars, poolVars, queueVars, callVars
  <1>15. ASSUME PostCheck PROVE Absorbed'
    BY <1>0, <1>15 DEF PostCheck, Absorbed, InPost, Waiting, Callable, Goto, Return, Resume, Unwind, frameVars, poolVars, queueVars, callVars
  <1>16. ASSUME Register PROVE Absorbed'
    BY <1>0, <1>16 DEF Register, Absorbed, InPost, Waiting, Callable, Goto, Return, Resume, Unwind, frameVars, poolVars, queueVars, callVars
  <1>17. ASSUME Push PROVE Absorbed'
    BY <1>0, <1>17 DEF Push, Absorbed, InPost, Waiting, Callable, Goto, Return, Resume, Unwind, frameVars, poolVars, queueVars, callVars
  <1>18. ASSUME Begin PROVE Absorbed'
    BY <1>0, <1>18 DEF Begin, Absorbed, InPost, Waiting, Callable, Goto, Return, Resume, Unwind, frameVars, poolVars, queueVars, callVars
  <1>19. ASSUME EncodeInline PROVE Absorbed'
    BY <1>0, <1>19 DEF EncodeInline, Absorbed, InPost, Waiting, Callable, Goto, Return, Resume, Unwind, frameVars, poolVars, queueVars, callVars
  <1>20. ASSUME EncodeJobs PROVE Absorbed'
    BY <1>0, <1>20 DEF EncodeJobs, Absorbed, InPost, Waiting, Callable, Goto, Return, Resume, Unwind, frameVars, poolVars, queueVars, callVars
  <1>21. ASSUME Drain PROVE Absorbed'
    BY <1>0, <1>21 DEF Drain, Absorbed, InPost, Waiting, Callable, Goto, Return, Resume, Unwind, frameVars, poolVars, queueVars, callVars
  <1>22. ASSUME Pending PROVE Absorbed'
    BY <1>0, <1>22 DEF Pending, Absorbed, InPost, Waiting, Callable, Goto, Return, Resume, Unwind, frameVars, poolVars, queueVars, callVars
  <1>23. ASSUME Drained PROVE Absorbed'
    BY <1>0, <1>23 DEF Drained, Absorbed, InPost, Waiting, Callable, Goto, Return, Resume, Unwind, frameVars, poolVars, queueVars, callVars
  <1>24. ASSUME Snapshot PROVE Absorbed'
    BY <1>0, <1>24 DEF Snapshot, Absorbed, InPost, Waiting, Callable, Goto, Return, Resume, Unwind, frameVars, poolVars, queueVars, callVars
  <1>25. ASSUME Progressed PROVE Absorbed'
    BY <1>0, <1>25 DEF Progressed, Absorbed, InPost, Waiting, Callable, Goto, Return, Resume, Unwind, frameVars, poolVars, queueVars, callVars
  <1>26. ASSUME SurfacePoison PROVE Absorbed'
    BY <1>0, <1>26 DEF SurfacePoison, Absorbed, InPost, Waiting, Callable, Goto, Return, Resume, Unwind, frameVars, poolVars, queueVars, callVars
  <1>27. ASSUME PayloadGone PROVE Absorbed'
    BY <1>0, <1>27 DEF PayloadGone, Absorbed, InPost, Waiting, Callable, Goto, Return, Resume, Unwind, frameVars, poolVars, queueVars, callVars
  <1>28. ASSUME Settle PROVE Absorbed'
    BY <1>0, <1>28 DEF Settle, Absorbed, InPost, Waiting, Callable, Goto, Return, Resume, Unwind, frameVars, poolVars, queueVars, callVars
  <1>29. ASSUME NEW w \in Worker, ServeQueue(w) PROVE Absorbed'
    <2>1. pool' = pool /\ UNCHANGED <<jobStart, hashed, pc, ret, unwinds>>
      BY <1>29 DEF ServeQueue, Claim, RunJob, JobPanics, PublishPayload, PublishFlag, Abort, Count,
         Tick, callVars, frameVars
    <2> QED
      BY <1>0, <2>1 DEF Absorbed, InPost, Waiting
  <1>30. Absorbed'
    <2> HIDE DEF Absorbed
    <2>1. ASSUME Call PROVE Absorbed'
      BY <2>1, <1>1, <1>2, <1>3, <1>4, <1>5, <1>6 DEF Call
    <2>2. ASSUME InCall PROVE Absorbed'
      BY <2>2, <1>7, <1>8, <1>9, <1>10, <1>11, <1>12, <1>13, <1>14, <1>15, <1>16, <1>17, <1>18, <1>19, <1>20, <1>21, <1>22, <1>23, <1>24, <1>25, <1>26, <1>27, <1>28 DEF InCall
    <2> QED
      BY <2>1, <2>2, <1>29 DEF Next
  <1> QED
    BY <1>30

-----------------------------------------------------------------------------
(* The pool and the jobs its workers run.                                 *)

(* The leases.                                                             *)
LEMMA PoolStep ==
    ASSUME StreamInv, Next
    PROVE  Pool'
  <1>0. /\ wpc \in [Worker -> {"none", "claim", "asleep", "run", "payload", "flag", "abort",
                               "count", "tick", "left"}]
        /\ pool \subseteq Worker /\ pool' \subseteq Worker
        /\ Pool /\ jobs \in Seq(Job) /\ Worker # {}
    BY WorkersStep, StreamMtAssumption DEF StreamInv, Types
  <1>1. pool' = {} => jobs' = <<>>
    <2>1. ASSUME pool' = {} PROVE jobs' = <<>>
      <3>1. pool = {} /\ jobs = <<>>
        BY <2>1, Sticky DEF StreamInv, Pool
      <3>2. ~Push
        BY <3>1 DEF StreamInv, Pool, Push
      <3>3. jobs' \in Seq(Job) /\ Len(jobs') = Len(jobs)
        BY <3>2, QueueStep
      <3>4. Len(jobs) = 0
        BY <3>1
      <3> QED
        BY <3>3, <3>4, EmptySeq
    <2> QED
      BY <2>1
  <1>2. pc' = "push" => pool' # {}
    <2>1. Register => pool' # {}
      BY <1>0 DEF Register
    <2>2. ASSUME NEW w \in Worker, ServeQueue(w) PROVE UNCHANGED <<pc, pool>>
      BY <2>2 DEF ServeQueue, Claim, RunJob, JobPanics, PublishPayload, PublishFlag, Abort, Count,
         Tick, callVars
    <2> QED
      BY <2>1, <2>2, <1>0, Leads DEF Pool
  <1>3. \A w \in Worker : w \in pool' <=> wpc'[w] # "none"
    <2>1. CASE UNCHANGED <<pool, wpc, wjob>>
      BY <1>0, <2>1 DEF Pool
    <2>2. CASE Register
      BY <1>0, <2>2 DEF Pool, Register
    <2>3. ASSUME NEW S \in SUBSET Worker, SpawnFails(S)
          PROVE  \A w \in Worker : w \in pool' <=> wpc'[w] # "none"
      BY <1>0, <2>3 DEF Pool, SpawnFails
    <2>4. CASE Push \/ Drop
      BY <1>0, <2>4 DEF Pool, Push, Drop, Woken
    <2>5. ASSUME NEW v \in Worker, ServeQueue(v)
          PROVE  \A w \in Worker : w \in pool' <=> wpc'[w] # "none"
      <3>1. pool' = pool /\ wpc[v] # "none"
        BY <2>5 DEF ServeQueue, Claim, RunJob, JobPanics, PublishPayload, PublishFlag, Abort, Count, Tick
      <3>2. PICK p \in {"claim", "asleep", "run", "payload", "flag", "abort", "count", "tick", "left"} :
               wpc' = [wpc EXCEPT ![v] = p]
        BY <2>5 DEF ServeQueue, Claim, RunJob, JobPanics, PublishPayload, PublishFlag, Abort, Count, Tick, Place
      <3> QED
        BY <1>0, <3>1, <3>2 DEF Pool
    <2> QED
      BY <2>1, <2>2, <2>3, <2>4, <2>5, WorkersLeft
  <1>4. pc' = "gone" => \A w \in Worker : wpc'[w] \in {"none", "left"}
    <2>1. ASSUME WaitLeave PROVE \A w \in Worker : wpc'[w] \in {"none", "left"}
      BY <1>0, <2>1 DEF Pool, WaitLeave, poolVars
    <2>2. ASSUME NEW w \in Worker, ServeQueue(w), pc' = "gone" PROVE FALSE
      <3>1. pc = "gone" /\ wpc[w] \notin {"none", "left"}
        BY <2>2 DEF ServeQueue, Claim, RunJob, JobPanics, PublishPayload, PublishFlag, Abort, Count,
           Tick, callVars
      <3> QED
        BY <1>0, <3>1 DEF Pool
    <2> QED
      BY <2>1, <2>2, Leads
  <1> QED
    BY <1>1, <1>2, <1>3, <1>4 DEF Pool

(* A worker's own step, and what it does to its place and its job.         *)
LEMMA ServeMoves ==
    ASSUME StreamInv, NEW w \in Worker, ServeQueue(w)
    PROVE  /\ \A v \in Worker \ {w} : wpc'[v] = wpc[v] /\ wjob'[v] = wjob[v]
           /\ \/ /\ wpc[w] = "claim" /\ claimed < Len(jobs) /\ claimed' = claimed + 1
                 /\ wpc'[w] = "run" /\ wjob'[w] = claimed + 1
                 /\ UNCHANGED <<jobs, incomplete, completed, poisoned>>
              \/ /\ wpc[w] = "claim" /\ wpc'[w] \in {"left", "asleep"} /\ wjob'[w] = wjob[w]
                 /\ UNCHANGED <<jobs, claimed, incomplete, completed, poisoned>>
              \/ /\ wpc[w] = "run" /\ wpc'[w] = "count" /\ wjob'[w] = wjob[w]
                 /\ UNCHANGED <<claimed, incomplete, completed, poisoned>>
              \/ /\ wpc[w] = "run" /\ wpc'[w] = "payload" /\ wjob'[w] = wjob[w]
                 /\ UNCHANGED <<jobs, claimed, incomplete, completed, poisoned>>
              \/ /\ wpc[w] = "payload" /\ wpc'[w] = "flag" /\ wjob'[w] = wjob[w]
                 /\ UNCHANGED <<jobs, claimed, incomplete, completed, poisoned>>
              \/ /\ wpc[w] = "flag" /\ wpc'[w] = "abort" /\ wjob'[w] = wjob[w]
                 /\ UNCHANGED <<jobs, claimed, incomplete, completed>> /\ poisoned'
              \/ /\ wpc[w] = "abort" /\ wpc'[w] = "count" /\ wjob'[w] = wjob[w]
                 /\ UNCHANGED <<claimed, incomplete, completed, poisoned>>
              \/ /\ wpc[w] = "count" /\ wpc'[w] = "tick" /\ wjob'[w] = wjob[w]
                 /\ incomplete' = incomplete - 1 /\ UNCHANGED <<jobs, claimed, completed, poisoned>>
              \/ /\ wpc[w] = "tick" /\ wpc'[w] \in {"left", "claim"} /\ wjob'[w] = 0
                 /\ completed' = completed + 1 /\ UNCHANGED <<jobs, claimed, incomplete, poisoned>>
  <1> DEFINE P == {"none", "claim", "asleep", "run", "payload", "flag", "abort", "count", "tick", "left"}
  <1>0. wpc \in [Worker -> P] /\ wjob \in [Worker -> Nat]
    BY DEF StreamInv, Types
  <1>1. \A p \in P : Place(w, p) => wpc'[w] = p /\ \A v \in Worker \ {w} : wpc'[v] = wpc[v]
    <2> HIDE DEF P
    <2> QED
      BY <1>0 DEF Place
  <1>2. \A n \in Nat : wjob' = [wjob EXCEPT ![w] = n] =>
                           wjob'[w] = n /\ \A v \in Worker \ {w} : wjob'[v] = wjob[v]
    BY <1>0
  <1>3. claimed + 1 \in Nat
    BY DEF StreamInv, Types
  <1>4. CASE Claim(w)
    <2>1. CASE payload
      <3>1. wpc[w] = "claim" /\ Place(w, "left") /\ UNCHANGED <<jobs, claimed, incomplete, completed, poisoned, wjob>>
        BY <1>4, <2>1 DEF Claim
      <3> QED
        BY <1>1, <3>1
    <2>2. CASE ~payload /\ claimed < Len(jobs)
      <3>1. /\ wpc[w] = "claim" /\ Place(w, "run") /\ UNCHANGED <<jobs, incomplete, completed, poisoned>>
            /\ wjob' = [wjob EXCEPT ![w] = claimed + 1] /\ claimed' = claimed + 1
        BY <1>4, <2>2 DEF Claim
      <3> QED
        BY <1>1, <1>2, <1>3, <2>2, <3>1
    <2>3. CASE ~payload /\ ~(claimed < Len(jobs))
      <3>1. /\ wpc[w] = "claim" /\ UNCHANGED <<jobs, claimed, incomplete, completed, poisoned, wjob>>
            /\ Place(w, "left") \/ Place(w, "asleep")
        BY <1>4, <2>3 DEF Claim
      <3> QED
        BY <1>1, <3>1
    <2> QED
      BY <2>1, <2>2, <2>3
  <1>5. CASE RunJob(w)
    BY <1>1, <1>5 DEF RunJob
  <1>6. CASE JobPanics(w)
    BY <1>1, <1>6 DEF JobPanics, queueVars
  <1>7. CASE PublishPayload(w)
    BY <1>1, <1>7 DEF PublishPayload
  <1>8. CASE PublishFlag(w)
    BY <1>1, <1>8 DEF PublishFlag
  <1>9. CASE Abort(w)
    BY <1>1, <1>9 DEF Abort
  <1>10. CASE Count(w)
    BY <1>1, <1>10 DEF Count
  <1>11. CASE Tick(w)
    <2>1. /\ wpc[w] = "tick" /\ (Place(w, "left") \/ Place(w, "claim"))
          /\ wjob' = [wjob EXCEPT ![w] = 0]
          /\ completed' = completed + 1 /\ UNCHANGED <<jobs, claimed, incomplete, poisoned>>
      BY <1>11 DEF Tick
    <2> QED
      BY <1>1, <1>2, <1>11, <2>1 DEF Tick
  <1> QED
    BY <1>4, <1>5, <1>6, <1>7, <1>8, <1>9, <1>10, <1>11 DEF ServeQueue

(* The jobs of the workers.                                                *)
LEMMA ServingStep ==
    ASSUME StreamInv, Next
    PROVE  Serving'
  <1> DEFINE P == {"none", "claim", "asleep", "run", "payload", "flag", "abort", "count", "tick", "left"}
  <1>0. /\ wpc \in [Worker -> P] /\ wjob \in [Worker -> Nat]
        /\ claimed \in Nat /\ claimed <= Len(jobs) /\ Len(jobs) \in Nat
        /\ Serving /\ Pool
    BY DEF StreamInv, Types
  <1>1. /\ \A j \in claimed + 1 .. Len(jobs) : jobs[j].state = "posted"
        /\ \A w \in Worker :
               /\ wjob[w] # 0 <=> wpc[w] \in Working \cup {"tick"}
               /\ wjob[w] <= claimed
               /\ wpc[w] \in {"run", "payload", "flag", "abort"} => jobs[wjob[w]].state = "posted"
        /\ \A v, w \in Worker : wjob[v] = wjob[w] /\ wjob[v] # 0 => v = w
    BY <1>0 DEF Serving
  <1>2. ASSUME wjob' = wjob,
               \A w \in Worker : wpc'[w] \in Working \cup {"tick"} \/ wpc[w] \in Working \cup {"tick"}
                                 => wpc'[w] = wpc[w],
               claimed' \in Nat, claimed <= claimed',
               \A j \in 1 .. claimed : jobs'[j] = jobs[j],
               \A j \in claimed' + 1 .. Len(jobs') : jobs'[j].state = "posted"
        PROVE  Serving'
    <2>1. ASSUME NEW w \in Worker
          PROVE  /\ wjob'[w] # 0 <=> wpc'[w] \in Working \cup {"tick"}
                 /\ wjob'[w] <= claimed'
                 /\ wpc'[w] \in {"run", "payload", "flag", "abort"} => jobs'[wjob'[w]].state = "posted"
      <3>1. wjob'[w] = wjob[w] /\ wjob[w] \in Nat /\ wjob[w] <= claimed'
        BY <1>0, <1>1, <1>2
      <3>2. wjob'[w] # 0 <=> wpc'[w] \in Working \cup {"tick"}
        BY <1>1, <1>2, <3>1 DEF Working
      <3>3. ASSUME wpc'[w] \in {"run", "payload", "flag", "abort"} PROVE jobs'[wjob'[w]].state = "posted"
        <4>1. wpc[w] = wpc'[w]
          BY <1>2, <3>3 DEF Working
        <4>2. wjob[w] # 0 /\ wjob[w] <= claimed /\ jobs[wjob[w]].state = "posted"
          BY <1>1, <3>3, <4>1 DEF Working
        <4>3. wjob[w] \in 1 .. claimed
          BY <1>0, <3>1, <4>2
        <4> QED
          BY <1>2, <3>1, <4>2, <4>3
      <3> QED
        BY <3>1, <3>2, <3>3
    <2> QED
      BY <1>1, <1>2, <2>1 DEF Serving
  <1>3. ASSUME UNCHANGED <<jobs, claimed>> 
        PROVE  /\ claimed' \in Nat /\ claimed <= claimed' /\ \A j \in 1 .. claimed : jobs'[j] = jobs[j]
               /\ \A j \in claimed' + 1 .. Len(jobs') : jobs'[j].state = "posted"
    BY <1>0, <1>1, <1>3
  <1>4. CASE Register
    <2>1. UNCHANGED <<jobs, claimed, wjob>>
      BY <1>4 DEF Register
    <2>2. ASSUME NEW w \in Worker PROVE wpc'[w] = wpc[w] \/ (wpc[w] = "none" /\ wpc'[w] = "claim")
      BY <1>0, <1>4 DEF Register, Pool
    <2>3. \A w \in Worker : wpc'[w] \in Working \cup {"tick"} \/ wpc[w] \in Working \cup {"tick"}
                            => wpc'[w] = wpc[w]
      BY <2>2 DEF Working
    <2> QED
      BY <1>2, <1>3, <2>1, <2>3
  <1>5. ASSUME NEW S \in SUBSET Worker, SpawnFails(S) PROVE Serving'
    <2>1. UNCHANGED <<jobs, claimed, wjob>>
      BY <1>5 DEF SpawnFails, queueVars
    <2>2. ASSUME NEW w \in Worker PROVE wpc[w] = "none" /\ wpc'[w] \in {"none", "claim"}
      BY <1>0, <1>5 DEF SpawnFails, Pool
    <2>3. \A w \in Worker : wpc'[w] \in Working \cup {"tick"} \/ wpc[w] \in Working \cup {"tick"}
                            => wpc'[w] = wpc[w]
      BY <2>2 DEF Working
    <2> QED
      BY <1>2, <1>3, <2>1, <2>3
  <1>6. ASSUME wpc' = Woken
        PROVE  \A w \in Worker : wpc'[w] \in Working \cup {"tick"} \/ wpc[w] \in Working \cup {"tick"}
                                 => wpc'[w] = wpc[w]
    BY <1>0, <1>6 DEF Woken, Working
  <1>7. CASE Drop
    <2>1. UNCHANGED <<jobs, claimed, wjob>> /\ wpc' = Woken
      BY <1>7 DEF Drop, queueVars
    <2> QED
      BY <1>2, <1>3, <1>6, <2>1
  <1>8. CASE Push
    <2>1. claimed' = claimed /\ wjob' = wjob /\ wpc' = Woken
      BY <1>8 DEF Push
    <2>2. /\ Len(jobs') = Len(jobs) + 1 /\ jobs'[Len(jobs) + 1].state = "posted"
          /\ \A i \in 1 .. Len(jobs) : jobs'[i] = jobs[i]
      BY <1>8, PushJob DEF StreamInv
    <2>3. \A j \in claimed' + 1 .. Len(jobs') : jobs'[j].state = "posted"
      <3> TAKE j \in claimed' + 1 .. Len(jobs')
      <3>1. j = Len(jobs) + 1 \/ (j \in claimed + 1 .. Len(jobs) /\ j \in 1 .. Len(jobs))
        BY <1>0, <2>1, <2>2
      <3> QED
        BY <1>1, <2>2, <3>1
    <2>4. \A j \in 1 .. claimed : jobs'[j] = jobs[j]
      BY <1>0, <2>2
    <2> QED
      BY <1>0, <1>2, <1>6, <2>1, <2>3, <2>4
  <1>9. CASE SurfacePoison
    <2>1. UNCHANGED <<wpc, wjob>>
      BY <1>9 DEF SurfacePoison, poolVars
    <2>2. /\ Len(jobs') = Len(jobs) /\ claimed' = Len(jobs)
          /\ \A j \in 1 .. Len(jobs) : j <= claimed => jobs'[j] = jobs[j]
      <3>1. \A j \in 1 .. Len(jobs) : IF j > claimed THEN jobs'[j].state = "aborted" ELSE jobs'[j] = jobs[j]
        BY <1>9, SurfaceJobs DEF StreamInv
      <3> QED
        BY <1>0, <1>9, <3>1, SurfaceJobs DEF StreamInv, SameJobs
    <2>3. \A j \in 1 .. claimed : jobs'[j] = jobs[j]
      BY <1>0, <2>2
    <2>4. \A j \in claimed' + 1 .. Len(jobs') : jobs'[j].state = "posted"
      BY <1>0, <2>2
    <2> QED
      BY <1>0, <1>2, <2>1, <2>2, <2>3, <2>4
  <1>10. ASSUME NEW w \in Worker, ServeQueue(w) PROVE Serving'
    <2>1. /\ \A v \in Worker \ {w} : wpc'[v] = wpc[v] /\ wjob'[v] = wjob[v]
          /\ wjob'[w] \in {0, claimed + 1, wjob[w]}
          /\ wjob'[w] = claimed + 1 /\ wjob'[w] # wjob[w] =>
                 wpc'[w] = "run" /\ claimed < Len(jobs) /\ claimed' = claimed + 1 /\ UNCHANGED jobs
          /\ claimed' = claimed \/ (claimed < Len(jobs) /\ claimed' = claimed + 1 /\ wjob'[w] = claimed + 1
                                    /\ wpc'[w] = "run")
      BY <1>10, <1>0, <1>1, ServeMoves
    <2>2. Len(jobs') = Len(jobs) /\ \A j \in 1 .. Len(jobs) :
             jobs'[j] = jobs[j] \/ (j = wjob[w] /\ wpc[w] \in {"run", "abort"} /\ wpc'[w] = "count")
      <3>1. \A j \in 1 .. Len(jobs) : jobs'[j] = jobs[j] \/ (j = wjob[w] /\ (RunJob(w) \/ Abort(w)))
        BY <1>10, ServeJobs DEF StreamInv
      <3>2. Len(jobs') = Len(jobs)
        BY <1>10, ServeJobs DEF StreamInv, SameJobs
      <3>3. RunJob(w) \/ Abort(w) => wpc[w] \in {"run", "abort"} /\ wpc' = [wpc EXCEPT ![w] = "count"]
        BY DEF RunJob, Abort, Place
      <3>4. RunJob(w) \/ Abort(w) => wpc'[w] = "count"
        BY <1>0, <3>3
      <3> QED
        BY <3>1, <3>2, <3>3, <3>4
    <2>3. \A j \in claimed' + 1 .. Len(jobs') : jobs'[j].state = "posted"
      <3> TAKE j \in claimed' + 1 .. Len(jobs')
      <3>1. j \in claimed + 1 .. Len(jobs) /\ j \in 1 .. Len(jobs) /\ j # wjob[w]
        BY <1>0, <1>1, <2>1, <2>2
      <3> QED
        BY <1>1, <2>2, <3>1
    <2>4. ASSUME NEW v \in Worker
          PROVE  /\ wjob'[v] # 0 <=> wpc'[v] \in Working \cup {"tick"}
                 /\ wjob'[v] <= claimed'
      <3>1. CASE v # w
        BY <1>0, <1>1, <2>1, <3>1
      <3>2. CASE v = w
        BY <1>0, <1>1, <1>10, <3>2, ServeMoves DEF Working
      <3> QED
        BY <3>1, <3>2
    <2>5. ASSUME NEW v \in Worker, wpc'[v] \in {"run", "payload", "flag", "abort"}
          PROVE  jobs'[wjob'[v]].state = "posted"
      <3>1. CASE v # w
        <4>1. wpc'[v] = wpc[v] /\ wjob'[v] = wjob[v]
          BY <2>1, <3>1
        <4>2. wjob[v] # 0 /\ wjob[v] # wjob[w] /\ wjob[v] <= claimed /\ jobs[wjob[v]].state = "posted"
          BY <1>1, <2>5, <3>1, <4>1 DEF Working
        <4>3. wjob[v] \in 1 .. Len(jobs)
          BY <1>0, <4>2
        <4> QED
          BY <2>2, <4>1, <4>2, <4>3
      <3>2. CASE v = w /\ wpc[w] = "claim"
        <4>1. wjob'[w] = claimed + 1 /\ claimed < Len(jobs) /\ UNCHANGED jobs
          BY <1>10, <2>5, <3>2, ServeMoves
        <4>2. claimed + 1 \in claimed + 1 .. Len(jobs)
          BY <1>0, <4>1
        <4> QED
          BY <1>1, <3>2, <4>1, <4>2
      <3>3. CASE v = w /\ wpc[w] # "claim"
        <4>1. wpc[w] \in {"run", "payload", "flag"} /\ wjob'[w] = wjob[w]
          BY <1>10, <2>5, <3>3, ServeMoves
        <4>2. wjob[w] # 0 /\ wjob[w] <= claimed /\ jobs[wjob[w]].state = "posted"
          BY <1>1, <4>1 DEF Working
        <4>3. wjob[w] \in 1 .. Len(jobs) /\ wpc'[w] # "count"
          BY <1>0, <2>5, <3>3, <4>2
        <4> QED
          BY <2>2, <3>3, <4>1, <4>2, <4>3
      <3> QED
        BY <3>1, <3>2, <3>3
    <2>6. ASSUME NEW u \in Worker, NEW v \in Worker, wjob'[u] = wjob'[v], wjob'[u] # 0
          PROVE  u = v
      <3>1. \A t \in Worker : wjob[t] # claimed + 1
        BY <1>0, <1>1
      <3> QED
        BY <1>1, <2>1, <2>6, <3>1
    <2> QED
      BY <2>3, <2>4, <2>5, <2>6 DEF Serving
  <1>11. CASE UNCHANGED <<jobs, claimed>> /\ UNCHANGED <<pool, wpc, wjob>>
    BY <1>0, <1>2, <1>3, <1>11
  <1> QED
    BY <1>4, <1>5, <1>7, <1>8, <1>9, <1>10, <1>11, QueueLeft, WorkersLeft

-----------------------------------------------------------------------------
(* Workers are counted as they are busy, and see the job they took.       *)

(* The sets of workers at work are finite.                                 *)
LEMMA BusyFinite ==
    ASSUME NEW S \in SUBSET Worker
    PROVE  /\ IsFiniteSet(S) /\ Cardinality(S) \in Nat
           /\ Cardinality(S) = 0 <=> S = {}
           /\ \A w \in Worker \ S : Cardinality(S \cup {w}) = Cardinality(S) + 1
           /\ \A w \in S : Cardinality(S \ {w}) = Cardinality(S) - 1
  <1>1. IsFiniteSet(S)
    BY StreamMtAssumption, FS_Subset
  <1> QED
    BY <1>1, FS_AddElement, FS_RemoveElement, FS_EmptySet, FS_CardinalityType

(* The caller leaves its place before the push by pushing.                 *)
LEMMA PushStays ==
    ASSUME Next, pc = "push"
    PROVE  Push \/ \E w \in Worker : ServeQueue(w)
  <1>1. ~Call
    BY DEF Call, Write, Pull, PullOwned, Flush, Finish, Drop, Callable
  <1>2. InCall => Push
    BY DEF InCall, WaitLeave, FeedWrite, FeedRead, MakeSpaceWait, MakeSpace, CheckPoisoned,
       PostReady, PostCheck, Register, SpawnFails, Begin, EncodeInline, EncodeJobs, Drain, Drained,
       Settle, SurfacePoison, Pending, Snapshot, Progressed, PayloadGone
  <1> QED
    BY <1>1, <1>2 DEF Next

(* What has been given back stays so.                                      *)
LEMMA GoneStays ==
    ASSUME Next, pc = "gone"
    PROVE  pc' = "gone"
  <1>1. ~Call
    BY DEF Call, Write, Pull, PullOwned, Flush, Finish, Drop, Callable
  <1>2. ~InCall
    BY DEF InCall, WaitLeave, FeedWrite, FeedRead, MakeSpaceWait, MakeSpace, CheckPoisoned,
       PostReady, PostCheck, Register, SpawnFails, Push, Begin, EncodeInline, EncodeJobs, Drain,
       Drained, Settle, SurfacePoison, Pending, Snapshot, Progressed, PayloadGone
  <1>3. ASSUME NEW w \in Worker, ServeQueue(w) PROVE pc' = pc
    BY <1>3 DEF ServeQueue, callVars
  <1> QED
    BY <1>1, <1>2, <1>3 DEF Next

(* The counters.                                                           *)
LEMMA CountingStep ==
    ASSUME StreamInv, Next
    PROVE  Counting'
  <1> DEFINE P == {"none", "claim", "asleep", "run", "payload", "flag", "abort", "count", "tick", "left"}
             Pushing == IF pc = "push" THEN 1 ELSE 0
  <1>0. /\ wpc \in [Worker -> P] /\ wjob \in [Worker -> Nat]
        /\ claimed \in Nat /\ claimed <= Len(jobs) /\ Len(jobs) \in Nat /\ completed \in Nat
        /\ incomplete = (Len(jobs) - claimed) + Cardinality(Busiest) + Pushing
        /\ completed + Cardinality(Assigned) <= claimed
        /\ Pool
    BY DEF StreamInv, Types, Counting
  <1>1. /\ Busiest \in SUBSET Worker /\ Assigned \in SUBSET Worker
        /\ Cardinality(Busiest) \in Nat /\ Cardinality(Assigned) \in Nat
    BY BusyFinite DEF Busiest, Assigned
  <1>2. \A w \in Worker :
           /\ wjob[w] # 0 <=> wpc[w] \in Working \cup {"tick"}
           /\ wjob[w] <= claimed
    BY DEF StreamInv, Serving
  <1>3. ASSUME Busiest' = Busiest, Assigned' = Assigned,
               completed' = completed,
               NEW c \in Nat, c = claimed', NEW l \in Nat, l = Len(jobs'), claimed <= c,
               NEW q \in Int, q = IF pc' = "push" THEN 1 ELSE 0,
               NEW p \in Int, p = IF pc = "push" THEN 1 ELSE 0,
               incomplete' = incomplete + ((l - c) - (Len(jobs) - claimed)) + (q - p)
        PROVE  Counting'
    <2>1. Cardinality(Busiest)' = Cardinality(Busiest) /\ Cardinality(Assigned)' = Cardinality(Assigned)
      BY <1>3
    <2> DEFINE n == Cardinality(Busiest)
               a == Cardinality(Assigned)
    <2>2. n \in Int /\ Cardinality(Busiest)' = n /\ a \in Int /\ Cardinality(Assigned)' = a
      BY <1>1, <2>1
    <2>3. incomplete = (Len(jobs) - claimed) + n + p /\ completed + a <= claimed
      BY <1>0, <1>3
    <2> HIDE DEF n, a
    <2>4. incomplete' = (l - c) + n + q /\ completed + a <= c
      <3> DEFINE m == Len(jobs)
      <3>1. m \in Int /\ claimed \in Int /\ completed \in Int /\ c \in Int /\ l \in Int /\ q \in Int /\ p \in Int
        BY <1>0
      <3>2. incomplete = (m - claimed) + n + p /\ completed + a <= claimed /\ claimed <= c
        BY <1>3, <2>3
      <3>3. incomplete' = incomplete + ((l - c) - (m - claimed)) + (q - p)
        BY <1>3
      <3> HIDE DEF m
      <3>4. incomplete' = ((m - claimed) + n + p) + ((l - c) - (m - claimed)) + (q - p)
        BY <3>2, <3>3
      <3>5. ((m - claimed) + n + p) + ((l - c) - (m - claimed)) + (q - p) = (l - c) + n + q
        BY <2>2, <3>1
      <3>6. completed + a <= c
        BY <2>2, <3>1, <3>2
      <3> QED
        BY <3>4, <3>5, <3>6
    <2>5. incomplete' = (Len(jobs') - claimed') + n + (IF pc' = "push" THEN 1 ELSE 0)
      BY <1>3, <2>4
    <2>6. completed' + a <= claimed'
      BY <1>3, <2>4
    <2>7. /\ incomplete' = (Len(jobs') - claimed') + Cardinality(Busiest)' + (IF pc' = "push" THEN 1 ELSE 0)
          /\ completed' + Cardinality(Assigned)' <= claimed'
      BY <2>2, <2>5, <2>6
    <2> QED
      BY <2>7 DEF Counting
  <1>4. ASSUME NEW w \in Worker, ServeQueue(w) PROVE Counting'
    <2>1. pc' = pc /\ Len(jobs') = Len(jobs)
      BY <1>4, ServeJobs DEF ServeQueue, callVars, SameJobs, StreamInv
    <2>2. wpc' \in [Worker -> P] /\ wjob' \in [Worker -> Nat]
      BY <1>4, WorkersStep DEF Next
    <2>3. \A v \in Worker \ {w} : wpc'[v] = wpc[v] /\ wjob'[v] = wjob[v]
      BY <1>4, ServeMoves
    <2>4. /\ (wpc[w] \in Working /\ wpc'[w] \in Working) \/ (wpc[w] \notin Working /\ wpc'[w] \notin Working)
              => Busiest' = Busiest
          /\ wpc[w] \notin Working /\ wpc'[w] \in Working => Busiest' = Busiest \cup {w} /\ w \notin Busiest
          /\ wpc[w] \in Working /\ wpc'[w] \notin Working => Busiest' = Busiest \ {w} /\ w \in Busiest
      BY <2>2, <2>3 DEF Busiest
    <2>5. /\ wjob'[w] = wjob[w] => Assigned' = Assigned
          /\ wjob[w] = 0 /\ wjob'[w] # 0 => Assigned' = Assigned \cup {w} /\ w \notin Assigned
          /\ wjob[w] # 0 /\ wjob'[w] = 0 => Assigned' = Assigned \ {w} /\ w \in Assigned
      BY <2>2, <2>3 DEF Assigned
    <2>6. CASE wpc[w] = "claim" /\ wpc'[w] = "run"
      <3>1. /\ claimed < Len(jobs) /\ claimed' = claimed + 1 /\ wjob'[w] = claimed + 1
            /\ UNCHANGED <<jobs, incomplete, completed>> /\ wjob[w] = 0
        BY <1>2, <1>4, <2>6, ServeMoves DEF Working
      <3>2. Busiest' = Busiest \cup {w} /\ w \notin Busiest /\ Assigned' = Assigned \cup {w} /\ w \notin Assigned
        BY <1>0, <2>4, <2>5, <2>6, <3>1 DEF Working
      <3>3. /\ Cardinality(Busiest') = Cardinality(Busiest) + 1
            /\ Cardinality(Assigned') = Cardinality(Assigned) + 1
        BY <1>1, <3>2, BusyFinite
      <3>4. incomplete' = (Len(jobs') - claimed') + Cardinality(Busiest') + Pushing'
        BY <1>0, <1>1, <2>1, <3>1, <3>3
      <3>5. completed' + Cardinality(Assigned') <= claimed'
        BY <1>0, <1>1, <3>1, <3>3
      <3> QED
        BY <3>4, <3>5 DEF Counting
    <2>7. CASE wpc[w] = "count"
      <3>1. /\ wpc'[w] = "tick" /\ wjob'[w] = wjob[w] /\ incomplete' = incomplete - 1
            /\ UNCHANGED <<jobs, claimed, completed>>
        BY <1>4, <2>7, ServeMoves
      <3>2. Busiest' = Busiest \ {w} /\ w \in Busiest /\ Assigned' = Assigned
        BY <2>4, <2>5, <2>7, <3>1 DEF Working
      <3>3. Cardinality(Busiest') = Cardinality(Busiest) - 1 /\ Cardinality(Assigned') = Cardinality(Assigned)
        BY <1>1, <3>2, BusyFinite
      <3>4. incomplete' = (Len(jobs') - claimed') + Cardinality(Busiest') + Pushing'
        BY <1>0, <1>1, <2>1, <3>1, <3>3
      <3>5. completed' + Cardinality(Assigned') <= claimed'
        BY <1>0, <1>1, <3>1, <3>3
      <3> QED
        BY <3>4, <3>5 DEF Counting
    <2>8. CASE wpc[w] = "tick"
      <3>1. /\ wpc'[w] \in {"left", "claim"} /\ wjob'[w] = 0 /\ completed' = completed + 1
            /\ UNCHANGED <<jobs, claimed, incomplete>> /\ wjob[w] # 0
        BY <1>2, <1>4, <2>8, ServeMoves DEF Working
      <3>2. Busiest' = Busiest /\ Assigned' = Assigned \ {w} /\ w \in Assigned
        BY <2>4, <2>5, <2>8, <3>1 DEF Working
      <3>3. Cardinality(Busiest') = Cardinality(Busiest) /\ Cardinality(Assigned') = Cardinality(Assigned) - 1
        BY <1>1, <3>2, BusyFinite
      <3>4. incomplete' = (Len(jobs') - claimed') + Cardinality(Busiest') + Pushing'
        BY <1>0, <1>1, <2>1, <3>1, <3>3
      <3>5. completed' + Cardinality(Assigned') <= claimed'
        BY <1>0, <1>1, <3>1, <3>3
      <3> QED
        BY <3>4, <3>5 DEF Counting
    <2>9. CASE ~(wpc[w] = "claim" /\ wpc'[w] = "run") /\ wpc[w] \notin {"count", "tick"}
      <3>1. /\ wjob'[w] = wjob[w] /\ UNCHANGED <<claimed, incomplete, completed>>
            /\ \/ wpc[w] \in Working /\ wpc'[w] \in Working
               \/ wpc[w] \notin Working /\ wpc'[w] \notin Working
        BY <1>4, <2>9, ServeMoves DEF Working
      <3>2. Busiest' = Busiest /\ Assigned' = Assigned
        BY <2>4, <2>5, <3>1
      <3> QED
        BY <1>0, <1>3, <2>1, <3>1, <3>2
    <2> QED
      BY <2>6, <2>7, <2>8, <2>9
  <1>5. ASSUME wjob' = wjob, \A w \in Worker : wpc'[w] \in Working <=> wpc[w] \in Working
        PROVE  Busiest' = Busiest /\ Assigned' = Assigned
    BY <1>5 DEF Busiest, Assigned
  <1>6. ASSUME wpc' = Woken PROVE \A w \in Worker : wpc'[w] \in Working <=> wpc[w] \in Working
    BY <1>0, <1>6 DEF Woken, Working
  <1>7. CASE Register
    <2>1. /\ UNCHANGED <<jobs, claimed, completed, wjob>> /\ incomplete' = incomplete + 1
          /\ pc = "register" /\ pc' = "push"
      BY <1>7 DEF Register, Goto
    <2>2. ASSUME NEW w \in Worker PROVE wpc'[w] = wpc[w] \/ (wpc[w] = "none" /\ wpc'[w] = "claim")
      BY <1>0, <1>7 DEF Register, Pool
    <2>3. \A w \in Worker : wpc'[w] \in Working <=> wpc[w] \in Working
      BY <2>2 DEF Working
    <2> QED
      BY <1>0, <1>1, <1>3, <1>5, <2>1, <2>3
  <1>8. CASE Push
    <2>1. /\ UNCHANGED <<claimed, incomplete, completed, wjob>> /\ wpc' = Woken
          /\ pc = "push" /\ pc' # "push"
      BY <1>8 DEF Push
    <2>2. Len(jobs') = Len(jobs) + 1
      BY <1>8, PushJob DEF StreamInv
    <2> QED
      BY <1>0, <1>1, <1>3, <1>5, <1>6, <2>1, <2>2
  <1>9. CASE SurfacePoison
    <2>1. /\ UNCHANGED <<completed, wpc, wjob>> /\ incomplete' = incomplete - (Len(jobs) - claimed)
          /\ pc = "surface" /\ pc' = "settle"
      BY <1>9 DEF SurfacePoison, poolVars, Goto
    <2>2. Len(jobs') = Len(jobs) /\ claimed' = Len(jobs)
      BY <1>9, SurfaceJobs DEF StreamInv, SameJobs
    <2> QED
      BY <1>0, <1>1, <1>3, <1>5, <2>1, <2>2
  <1>10. CASE ~Register /\ ~Push /\ ~SurfacePoison /\ ~\E w \in Worker : ServeQueue(w)
    <2>1. UNCHANGED <<jobs, claimed, incomplete, completed>>
      BY <1>10, QueueLeft
    <2>2. pc # "push" /\ pc' # "push"
      BY <1>10, PushStays, Leads
    <2>3. wjob' = wjob /\ \A w \in Worker : wpc'[w] \in Working <=> wpc[w] \in Working
      <3>1. CASE UNCHANGED <<pool, wpc, wjob>>
        BY <3>1
      <3>2. CASE Drop
        BY <1>6, <3>2 DEF Drop
      <3>3. ASSUME NEW S \in SUBSET Worker, SpawnFails(S)
            PROVE  wjob' = wjob /\ \A w \in Worker : wpc'[w] \in Working <=> wpc[w] \in Working
        <4>1. wjob' = wjob
          BY <3>3 DEF SpawnFails
        <4>2. \A w \in Worker : wpc[w] = "none" /\ wpc'[w] \in {"none", "claim"}
          BY <1>0, <3>3 DEF SpawnFails, Pool
        <4> QED
          BY <4>1, <4>2 DEF Working
      <3> QED
        BY <1>10, <3>1, <3>2, <3>3, WorkersLeft
    <2> QED
      BY <1>0, <1>3, <1>5, <2>1, <2>2, <2>3
  <1> QED
    BY <1>4, <1>7, <1>8, <1>9, <1>10

(* The jobs' bytes.                                                        *)
LEMMA ViewedStep ==
    ASSUME StreamInv, Next
    PROVE  Viewed'
  <1>0. /\ claimed \in Nat /\ claimed <= Len(jobs) /\ Len(jobs) \in Nat /\ base \in Nat
        /\ claimed' \in Nat /\ claimed <= claimed' /\ Len(jobs') \in Nat /\ claimed' <= Len(jobs')
        /\ pc # "gone" => \A j \in claimed + 1 .. Len(jobs) : jobs[j].gen = moves /\ jobs[j].view >= base
        /\ \A w \in Worker : wpc[w] = "run" => jobs[wjob[w]].gen = moves /\ jobs[wjob[w]].view >= base
        /\ wjob \in [Worker -> Nat]
    BY QueueStep DEF StreamInv, Types, Viewed
  <1>9. /\ claimed \in Nat /\ claimed <= Len(jobs) /\ Len(jobs) \in Nat
        /\ claimed' \in Nat /\ claimed <= claimed' /\ Len(jobs') \in Nat
    BY <1>0
  <1>1. \A j \in 1 .. Len(jobs) : jobs'[j].view = jobs[j].view /\ jobs'[j].gen = jobs[j].gen
    BY QueueStep
  <1>2. \A w \in Worker : wpc[w] = "run" => wjob[w] \in 1 .. claimed
    BY <1>0 DEF StreamInv, Serving, Working
  <1>3. ASSUME NEW w \in Worker, wpc'[w] = "run"
        PROVE  \/ wpc[w] = "run" /\ wjob'[w] = wjob[w]
               \/ pc # "gone" /\ wjob'[w] = claimed + 1 /\ claimed < Len(jobs)
    <2>1. CASE UNCHANGED <<pool, wpc, wjob>>
      BY <1>3, <2>1
    <2>2. CASE Register
      <3>1. wjob' = wjob /\ wpc'[w] \in {wpc[w], "claim"}
        BY <2>2 DEF Register
      <3> QED
        BY <1>3, <3>1
    <2>3. ASSUME NEW S \in SUBSET Worker, SpawnFails(S) PROVE FALSE
      <3>1. wpc'[w] \in {"none", "claim"}
        BY <2>3 DEF SpawnFails
      <3> QED
        BY <1>3, <3>1
    <2>4. CASE Push \/ Drop
      <3>1. wjob' = wjob /\ wpc'[w] \in {wpc[w], "claim"}
        BY <2>4 DEF Push, Drop, Woken
      <3> QED
        BY <1>3, <3>1
    <2>5. ASSUME NEW v \in Worker, ServeQueue(v)
          PROVE  \/ wpc[w] = "run" /\ wjob'[w] = wjob[w]
                 \/ pc # "gone" /\ wjob'[w] = claimed + 1 /\ claimed < Len(jobs)
      <3>1. CASE v # w
        <4>1. wpc'[w] = wpc[w] /\ wjob'[w] = wjob[w]
          BY <2>5, <3>1, ServeMoves
        <4> QED
          BY <1>3, <4>1
      <3>2. CASE v = w
        <4>1. wpc[w] = "claim" /\ wjob'[w] = claimed + 1 /\ claimed < Len(jobs)
          BY <1>3, <2>5, <3>2, ServeMoves
        <4>2. pc # "gone"
          BY <4>1 DEF StreamInv, Pool
        <4> QED
          BY <4>1, <4>2
      <3> QED
        BY <3>1, <3>2
    <2> QED
      BY <2>1, <2>2, <2>3, <2>4, <2>5, WorkersLeft
  <1>4. CASE UNCHANGED bufferVars
    <2>1. base' = base /\ moves' = moves
      BY <1>4 DEF bufferVars
    <2>2. ASSUME NEW w \in Worker, wpc'[w] = "run"
          PROVE  jobs'[wjob'[w]].gen = moves' /\ jobs'[wjob'[w]].view >= base'
      <3>1. CASE wpc[w] = "run" /\ wjob'[w] = wjob[w]
        <4>1. wjob[w] \in 1 .. Len(jobs)
          BY <1>0, <1>2, <3>1
        <4> QED
          BY <1>0, <1>1, <2>1, <3>1, <4>1
      <3>2. CASE pc # "gone" /\ wjob'[w] = claimed + 1 /\ claimed < Len(jobs)
        <4>1. claimed + 1 \in 1 .. Len(jobs) /\ claimed + 1 \in claimed + 1 .. Len(jobs)
          BY <1>0, <3>2
        <4> QED
          BY <1>0, <1>1, <2>1, <3>2, <4>1
      <3> QED
        BY <1>3, <2>2, <3>1, <3>2
    <2>3. ASSUME pc' # "gone", NEW c \in Nat, claimed <= c, NEW l \in Nat, l = Len(jobs'),
                 NEW j \in c + 1 .. l
          PROVE  jobs'[j].gen = moves' /\ jobs'[j].view >= base'
      <3>1. pc # "gone"
        BY <2>3, GoneStays
      <3>2. CASE j \in 1 .. Len(jobs)
        <4>1. j \in claimed + 1 .. Len(jobs)
          BY <1>9, <2>3, <3>2
        <4> QED
          BY <1>0, <1>1, <2>1, <3>1, <3>2, <4>1
      <3>3. CASE j \notin 1 .. Len(jobs)
        <4>0. j > Len(jobs) /\ j <= l /\ j \in Nat
          BY <1>9, <2>3, <3>3
        <4>1. j > Len(jobs) /\ Push
          BY <1>9, <2>3, <4>0, QueueStep
        <4>2. /\ Len(jobs') = Len(jobs) + 1
              /\ jobs'[Len(jobs) + 1].gen = moves /\ jobs'[Len(jobs) + 1].view = Strip(plan[1])
              /\ plan[1] = hashed
          BY <4>1, PushJob DEF StreamInv
        <4>3. j = Len(jobs) + 1
          BY <1>9, <2>3, <4>0, <4>2
        <4>4. Strip(hashed) >= base
          <5>1. /\ base <= Strip(jobStart) /\ jobStart <= hashed /\ jobStart \in Nat /\ hashed \in Nat
            BY DEF StreamInv, Buffer, Types
          <5> QED
            BY <1>0, <5>1, StreamGridAssumption DEF Strip, Most
        <4> QED
          BY <2>1, <4>2, <4>3, <4>4
      <3> QED
        BY <3>2, <3>3
    <2>4. ASSUME pc' # "gone"
          PROVE  \A j \in claimed' + 1 .. Len(jobs') : jobs'[j].gen = moves' /\ jobs'[j].view >= base'
      <3>1. \A c, l \in Nat : c = claimed' /\ l = Len(jobs') =>
               \A j \in c + 1 .. l : jobs'[j].gen = moves' /\ jobs'[j].view >= base'
        BY <1>9, <2>3, <2>4
      <3> QED
        BY <1>9, <3>1, Zenon
    <2> QED
      BY <2>2, <2>4 DEF Viewed
  <1>5. CASE WaitLeave
    <2>1. pc' = "gone" /\ UNCHANGED <<wpc, wjob>> /\ \A w \in pool : wpc[w] = "left"
      BY <1>5 DEF WaitLeave, Goto, poolVars
    <2>2. \A w \in Worker : wpc'[w] # "run"
      BY <2>1 DEF StreamInv, Pool
    <2> QED
      BY <2>1, <2>2 DEF Viewed
  <1>6. CASE MakeSpace
    <2>1. incomplete = 0 /\ pc = "space" /\ pc' = "feed" /\ UNCHANGED <<jobs, claimed, wpc, wjob>>
      BY <1>6 DEF MakeSpace, Quiescent, Goto, queueVars, poolVars
    <2>2. Busiest \in SUBSET Worker
      BY DEF Busiest
    <2>3. Cardinality(Busiest) \in Nat
      BY <2>2, BusyFinite
    <2>8. incomplete = (Len(jobs) - claimed) + Cardinality(Busiest)
      BY <1>9, <2>1, <2>3 DEF StreamInv, Counting
    <2>4. Len(jobs) = claimed /\ Cardinality(Busiest) = 0
      BY <1>9, <2>1, <2>3, <2>8
    <2>5. Busiest = {}
      BY <2>2, <2>4, BusyFinite
    <2>6. \A w \in Worker : wpc'[w] # "run"
      BY <2>1, <2>5 DEF Busiest, Working
    <2>7. claimed' + 1 .. Len(jobs') = {}
      BY <1>0, <2>1, <2>4
    <2> QED
      BY <2>6, <2>7 DEF Viewed
  <1> QED
    BY <1>4, <1>5, <1>6, BufferLeft

-----------------------------------------------------------------------------
(* What a panic leaves, and the frame after its last job.                 *)

(* Once the frame is finished, it and its output stay as they are.         *)
LEMMA FinishedKeeps ==
    ASSUME StreamInv, Next, finished
    PROVE  UNCHANGED <<header, finishing, finished, closeEmpty, output, assembled>>
  <1>1. pc \in {"idle", "leave", "gone"}
    BY DEF StreamInv, Closed
  <1> QED
    BY <1>1, FrameLeft DEF Register, SpawnFails, Push, Begin, EncodeInline, EncodeJobs, Drain, Drained, Settle

(* Which call follows which, and what it knows of the frame: Closed but    *)
(* for what it says of the frame's length.                                 *)
LEMMA ClosedCalls ==
    ASSUME StreamInv, Next
    PROVE  /\ finishing' => /\ header' /\ pos' = hashed' /\ jobStart' = hashed'
                            /\ pledged' \in {NoPledge, pos'}
                            /\ pc' \notin {"feed", "full", "ready", "begin", "encode"} /\ ~InPost'
                            /\ ~Waiting("space")' /\ op' # "flush"
                            /\ pc' = "idle" /\ mode' = "write" => finished' \/ unwinds' > 0
           /\ closeEmpty' => finishing'
           /\ pc' \in {"pending", "drained"} \/ Waiting("drain")' => (op' # "flush" => finishing')
           /\ pc' = "push" => header'
           /\ pc' = "encode" => hashed' < pos'
           /\ pc' = "encode" \/ (InPost' /\ ret' = "encode") =>
                  (op' # "flush" => pledged' \in {NoPledge, pos'})
           /\ finished' => finishing' /\ pc' \in {"idle", "leave", "gone"}
  <1> DEFINE Goal ==
           /\ finishing' => /\ header' /\ pos' = hashed' /\ jobStart' = hashed'
                            /\ pledged' \in {NoPledge, pos'}
                            /\ pc' \notin {"feed", "full", "ready", "begin", "encode"} /\ ~InPost'
                            /\ ~Waiting("space")' /\ op' # "flush"
                            /\ pc' = "idle" /\ mode' = "write" => finished' \/ unwinds' > 0
           /\ closeEmpty' => finishing'
           /\ pc' \in {"pending", "drained"} \/ Waiting("drain")' => (op' # "flush" => finishing')
           /\ pc' = "push" => header'
           /\ pc' = "encode" => hashed' < pos'
           /\ pc' = "encode" \/ (InPost' /\ ret' = "encode") =>
                  (op' # "flush" => pledged' \in {NoPledge, pos'})
           /\ finished' => finishing' /\ pc' \in {"idle", "leave", "gone"}
  <1>0. /\ finishing => /\ header /\ pos = hashed /\ jobStart = hashed /\ pledged \in {NoPledge, pos}
                        /\ pc \notin {"feed", "full", "ready", "begin", "encode"} /\ ~InPost
                        /\ ~Waiting("space") /\ op # "flush"
                        /\ pc = "idle" /\ mode = "write" => finished \/ unwinds > 0
        /\ closeEmpty => finishing
        /\ pc \in {"pending", "drained"} \/ Waiting("drain") => (op # "flush" => finishing)
        /\ pc = "push" => header
        /\ pc = "encode" => hashed < pos
        /\ pc = "encode" \/ (InPost /\ ret = "encode") => (op # "flush" => pledged \in {NoPledge, pos})
        /\ finished => finishing /\ pc \in {"idle", "leave", "gone"}
    BY DEF StreamInv, Closed
  <1>a. /\ todo \in Nat /\ unwinds \in Nat /\ pos \in Nat /\ jobStart \in Nat /\ hashed \in Nat
        /\ hashed <= pos /\ jobStart <= hashed
        /\ pc \in {"wait", "parked"} => ret \in {"space", "drain", "settle"}
        /\ op = "pull" => mode # "write"
        /\ pc = "idle" <=> op = "none"
        /\ pc \in {"feed", "full", "ready"} \/ Waiting("space") => op \in {"write", "pull"}
        /\ pc \in {"begin", "encode", "pending", "drained"} \/ Waiting("drain") =>
               op \in {"pull", "flush", "finish"}
    BY DEF StreamInv, Types, Buffer, Control
  <1>b. InPost => /\ ret \in {"ready", "encode"}
                  /\ ret = "ready" => op \in {"write", "pull"}
                  /\ ret = "encode" => plan[Len(plan)] = pos /\ op \in {"pull", "flush", "finish"}
                  /\ Len(plan) > 1 /\ Len(plan) \in Nat /\ plan[2] \in Nat
    <2>1. InPost => /\ Len(plan) > 1 /\ plan \in Seq(Nat)
                    /\ ret \in {"ready", "encode"}
                    /\ ret = "ready" => op \in {"write", "pull"}
                    /\ ret = "encode" => plan[Len(plan)] = pos /\ op \in {"pull", "flush", "finish"}
      BY DEF StreamInv, Types, Planned
    <2>2. InPost => plan[2] \in Nat
      BY <2>1
    <2> QED
      BY <2>1, <2>2
  <1>c. pc \in {"begin", "encode", "ready"} => hashed = jobStart \/ poisoned
    BY DEF StreamInv, Absorbed, InPost, Waiting
  <1>1. ASSUME NEW n \in Chunks, Write(n) PROVE Goal
    BY <1>0, <1>a, <1>1 DEF Write, InPost, Waiting, Callable, Goto, Return, Resume, Unwind, frameVars
  <1>2. ASSUME NEW n \in Sources, PullOwned(n) PROVE Goal
    BY <1>0, <1>a, <1>2 DEF PullOwned, InPost, Waiting, Callable, Goto, Return, Resume, Unwind, frameVars
  <1>3. ASSUME Pull PROVE Goal
    BY <1>0, <1>a, <1>3 DEF Pull, InPost, Waiting, Callable, Goto, Return, Resume, Unwind, frameVars
  <1>4. ASSUME Flush PROVE Goal
    BY <1>0, <1>a, <1>4 DEF Flush, InPost, Waiting, Callable, Goto, Return, Resume, Unwind, frameVars
  <1>5. ASSUME Finish PROVE Goal
    BY <1>0, <1>a, <1>5 DEF Finish, InPost, Waiting, Callable, Goto, Return, Resume, Unwind, frameVars
  <1>6. ASSUME Drop PROVE Goal
    BY <1>0, <1>a, <1>6 DEF Drop, InPost, Waiting, Callable, Goto, Return, Resume, Unwind, frameVars
  <1>7. ASSUME NEW n \in 0 .. Step, FeedRead(n) PROVE Goal
    BY <1>0, <1>a, <1>7 DEF FeedRead, InPost, Waiting, Callable, Goto, Return, Resume, Unwind, frameVars
  <1>8. ASSUME NEW S \in SUBSET Worker, SpawnFails(S) PROVE Goal
    BY <1>0, <1>a, <1>8 DEF SpawnFails, InPost, Waiting, Callable, Goto, Return, Resume, Unwind, frameVars
  <1>9. ASSUME WaitLeave PROVE Goal
    BY <1>0, <1>a, <1>9 DEF WaitLeave, InPost, Waiting, Callable, Goto, Return, Resume, Unwind, frameVars
  <1>10. ASSUME FeedWrite PROVE Goal
    <2>1. CASE todo = 0
      BY <1>0, <1>a, <1>10, <2>1 DEF FeedWrite, InPost, Waiting, Callable, Goto, Return, Resume, Unwind, frameVars
    <2>2. CASE todo > 0 /\ Buffered = cap
      BY <1>0, <1>a, <1>10, <2>2 DEF FeedWrite, InPost, Waiting, Callable, Goto, Return, Resume, Unwind, frameVars
    <2>3. CASE todo # 0 /\ Buffered # cap
      BY <1>0, <1>a, <1>10, <2>3 DEF FeedWrite, InPost, Waiting, Callable, Goto, Return, Resume, Unwind, frameVars
    <2> QED
      BY <1>a, <2>1, <2>2, <2>3
  <1>11. ASSUME MakeSpaceWait PROVE Goal
    BY <1>0, <1>a, <1>11 DEF MakeSpaceWait, InPost, Waiting, Callable, Goto, Return, Resume, Unwind, frameVars
  <1>12. ASSUME CheckPoisoned PROVE Goal
    BY <1>0, <1>a, <1>12 DEF CheckPoisoned, InPost, Waiting, Callable, Goto, Return, Resume, Unwind, frameVars
  <1>13. ASSUME MakeSpace PROVE Goal
    BY <1>0, <1>a, <1>13 DEF MakeSpace, InPost, Waiting, Callable, Goto, Return, Resume, Unwind, frameVars
  <1>14. ASSUME PostReady PROVE Goal
    BY <1>0, <1>a, <1>14, <1>c DEF PostReady, InPost, Waiting, Callable, Goto, Return, Resume, Unwind, frameVars
  <1>15. ASSUME PostCheck PROVE Goal
    BY <1>0, <1>a, <1>15, <1>b DEF PostCheck, InPost, Waiting, Callable, Goto, Return, Resume, Unwind, frameVars
  <1>16. ASSUME Register PROVE Goal
    BY <1>0, <1>a, <1>16, <1>b DEF Register, InPost, Waiting, Callable, Goto, Return, Resume, Unwind, frameVars
  <1>17. ASSUME Push PROVE Goal
    <2>1. /\ pc = "push" /\ InPost /\ ~finishing /\ UNCHANGED <<mode, pledged, pos, header, finished, closeEmpty, op, ret, unwinds>>
          /\ header
      BY <1>0, <1>17 DEF Push, InPost
    <2>2. CASE Len(plan) > 2
      <3>1. pc' = "post" /\ (finishing' <=> finishing)
        BY <1>17, <2>2 DEF Push
      <3> QED
        BY <1>0, <1>a, <2>1, <3>1 DEF InPost, Waiting
    <2>3. CASE ~(Len(plan) > 2)
      <3>1. /\ hashed' = plan[2] /\ jobStart' = plan[2]
            /\ finishing' <=> finishing \/ (ret = "encode" /\ op # "flush")
            /\ pc' = IF ret = "encode" THEN "drain" ELSE "ready"
        BY <1>17, <2>3 DEF Push
      <3>2. Len(plan) = 2
        <4> DEFINE n == Len(plan)
        <4>1. n > 1 /\ n \in Nat /\ ~(n > 2)
          BY <1>b, <2>1, <2>3
        <4> HIDE DEF n
        <4>2. n = 2
          BY <4>1
        <4> QED
          BY <4>2 DEF n
      <3>3. ret = "encode" => plan[2] = pos
        BY <1>b, <2>1, <3>2
      <3> QED
        BY <1>0, <1>a, <1>b, <2>1, <3>1, <3>3 DEF InPost, Waiting
    <2> QED
      BY <2>2, <2>3
  <1>18. ASSUME Begin PROVE Goal
    <2>1. /\ pc = "begin" /\ ~finishing /\ ~finished /\ ~closeEmpty
          /\ UNCHANGED <<mode, pledged, pos, jobStart, hashed, finished, unwinds>>
      BY <1>0, <1>18 DEF Begin
    <2>2. CASE op # "flush" /\ pledged \notin {NoPledge, pos}
      <3>1. pc' = "idle" /\ op' = "none" /\ UNCHANGED <<header, closeEmpty, finishing>>
        BY <1>18, <2>2 DEF Begin, Return
      <3> QED
        BY <2>1, <3>1 DEF InPost, Waiting
    <2>3. CASE ~(op # "flush" /\ pledged \notin {NoPledge, pos}) /\ poisoned
      <3>1. pc' = "surface" /\ UNCHANGED <<op, ret, header, closeEmpty, finishing>>
        BY <1>18, <2>3 DEF Begin, Goto
      <3> QED
        BY <1>a, <2>1, <3>1 DEF InPost, Waiting
    <2>4. CASE ~(op # "flush" /\ pledged \notin {NoPledge, pos}) /\ ~poisoned /\ pos > jobStart
      <3>1. pc' = "encode" /\ UNCHANGED <<op, ret, header, closeEmpty, finishing>>
        BY <1>18, <2>4 DEF Begin, Goto
      <3>2. hashed = jobStart
        BY <1>c, <2>4, <2>1
      <3> QED
        BY <1>a, <2>1, <2>4, <3>1, <3>2 DEF InPost, Waiting
    <2>5. CASE ~(op # "flush" /\ pledged \notin {NoPledge, pos}) /\ ~poisoned /\ ~(pos > jobStart)
      <3>1. /\ pc' = "drain" /\ UNCHANGED <<op, ret>>
            /\ header' = (header \/ op # "flush") /\ closeEmpty' = (closeEmpty \/ op # "flush")
            /\ finishing' = (finishing \/ op # "flush")
        BY <1>18, <2>5 DEF Begin, Goto
      <3>2. pos = hashed /\ jobStart = hashed
        BY <1>a, <2>5
      <3> QED
        BY <1>a, <2>1, <2>5, <3>1, <3>2 DEF InPost, Waiting
    <2> QED
      BY <2>2, <2>3, <2>4, <2>5
  <1>19. ASSUME EncodeInline PROVE Goal
    BY <1>0, <1>a, <1>19 DEF EncodeInline, InPost, Waiting, Callable, Goto, Return, Resume, Unwind, frameVars
  <1>20. ASSUME EncodeJobs PROVE Goal
    BY <1>0, <1>a, <1>20 DEF EncodeJobs, InPost, Waiting, Callable, Goto, Return, Resume, Unwind, frameVars
  <1>21. ASSUME Drain PROVE Goal
    BY <1>0, <1>a, <1>21 DEF Drain, InPost, Waiting, Callable, Goto, Return, Resume, Unwind, frameVars
  <1>22. ASSUME Pending PROVE Goal
    BY <1>0, <1>a, <1>22 DEF Pending, InPost, Waiting, Callable, Goto, Return, Resume, Unwind, frameVars
  <1>23. ASSUME Drained PROVE Goal
    BY <1>0, <1>a, <1>23 DEF Drained, InPost, Waiting, Callable, Goto, Return, Resume, Unwind, frameVars
  <1>24. ASSUME Snapshot PROVE Goal
    BY <1>0, <1>a, <1>24 DEF Snapshot, InPost, Waiting, Callable, Goto, Return, Resume, Unwind, frameVars
  <1>25. ASSUME Progressed PROVE Goal
    BY <1>0, <1>a, <1>25 DEF Progressed, InPost, Waiting, Callable, Goto, Return, Resume, Unwind, frameVars
  <1>26. ASSUME SurfacePoison PROVE Goal
    BY <1>0, <1>a, <1>26 DEF SurfacePoison, InPost, Waiting, Callable, Goto, Return, Resume, Unwind, frameVars
  <1>27. ASSUME PayloadGone PROVE Goal
    BY <1>0, <1>a, <1>27 DEF PayloadGone, InPost, Waiting, Callable, Goto, Return, Resume, Unwind, frameVars
  <1>28. ASSUME Settle PROVE Goal
    BY <1>0, <1>a, <1>28 DEF Settle, InPost, Waiting, Callable, Goto, Return, Resume, Unwind, frameVars
  <1>29. ASSUME NEW w \in Worker, ServeQueue(w) PROVE Goal
    BY <1>0, <1>a, <1>29 DEF ServeQueue, InPost, Waiting, callVars, frameVars
  <1>30. Goal
    <2> HIDE DEF Goal
    <2>1. ASSUME Call PROVE Goal
      BY <2>1, <1>1, <1>2, <1>3, <1>4, <1>5, <1>6 DEF Call
    <2>2. ASSUME InCall PROVE Goal
      BY <2>2, <1>7, <1>8, <1>9, <1>10, <1>11, <1>12, <1>13, <1>14, <1>15, <1>16, <1>17, <1>18, <1>19, <1>20, <1>21, <1>22, <1>23, <1>24, <1>25, <1>26, <1>27, <1>28 DEF InCall
    <2> QED
      BY <2>1, <2>2, <1>29 DEF Next
  <1> QED
    BY <1>30

-----------------------------------------------------------------------------
(* The frame and the calls that end it.                                   *)

(* The frame as it will be read has its last block.                        *)
Ended == finishing /\ (closeEmpty => finished)

(* It is left as it was.                                                   *)
FrameSame ==
    /\ Total' = Total
    /\ \A i \in 1 .. Total : Lo(i)' = Lo(i) /\ Hi(i)' = Hi(i) /\ LastOf(i)' = LastOf(i)

(* It gets a part more.                                                    *)
FrameGrows(n, lo, hi, last) ==
    /\ n = Total + 1 /\ Total' = n
    /\ \A i \in 1 .. Total : Lo(i)' = Lo(i) /\ Hi(i)' = Hi(i) /\ LastOf(i)' = LastOf(i)
    /\ Lo(n)' = lo /\ Hi(n)' = hi /\ LastOf(n)' = last

(* What it is made of is left alone.                                       *)
LEMMA SameParts ==
    ASSUME Types, output' = output, assembled' = assembled, Len(jobs') = Len(jobs),
           \A j \in 1 .. Len(jobs) :
               /\ jobs'[j].lo = jobs[j].lo /\ jobs'[j].hi = jobs[j].hi
               /\ jobs'[j].last = jobs[j].last
    PROVE  Total \in Nat /\ FrameSame
  <1>1. /\ Len(output) \in Nat /\ Len(jobs) \in Nat /\ assembled \in Nat /\ assembled <= Len(jobs)
    BY DEF Types
  <1>2. Total \in Nat /\ Total' = Total
    BY <1>1 DEF Total
  <1>3. ASSUME NEW i \in 1 .. Total
        PROVE  Lo(i)' = Lo(i) /\ Hi(i)' = Hi(i) /\ LastOf(i)' = LastOf(i)
    <2>1. CASE i <= Len(output)
      BY <2>1 DEF Lo, Hi, LastOf
    <2>2. CASE ~(i <= Len(output))
      <3>1. assembled + (i - Len(output)) \in 1 .. Len(jobs)
        BY <1>1, <2>2 DEF Total
      <3> QED
        BY <2>2, <3>1 DEF Lo, Hi, LastOf
    <2> QED
      BY <2>1, <2>2
  <1> QED
    BY <1>2, <1>3 DEF FrameSame

(* A part is appended to the output when no job is pending.                *)
LEMMA PartAppended ==
    ASSUME Types, NEW p \in Part, output' = Append(output, p), assembled' = assembled,
           assembled = Len(jobs), UNCHANGED jobs, NEW n \in Nat, n = Total + 1
    PROVE  FrameGrows(n, p.lo, p.hi, p.last)
  <1>1. /\ output \in Seq(Part) /\ Len(output) \in Nat /\ Len(jobs) \in Nat
    BY DEF Types
  <1>2. Total = Len(output)
    BY <1>1 DEF Total
  <1>3. /\ Len(output') = n /\ output'[n] = p
        /\ \A i \in 1 .. Len(output) : output'[i] = output[i]
    BY <1>1, <1>2, AppendProperties
  <1>4. Total' = n
    <2>1. Len(jobs') - assembled' = 0
      BY <1>1
    <2> QED
      BY <1>3, <2>1 DEF Total
  <1>5. Lo(n)' = p.lo /\ Hi(n)' = p.hi /\ LastOf(n)' = p.last
    <2>1. n <= Len(output')
      BY <1>3
    <2> QED
      BY <1>3, <2>1 DEF Lo, Hi, LastOf
  <1>6. ASSUME NEW i \in 1 .. Total
        PROVE  Lo(i)' = Lo(i) /\ Hi(i)' = Hi(i) /\ LastOf(i)' = LastOf(i)
    <2>1. i \in 1 .. Len(output) /\ i <= Len(output) /\ i <= n
      BY <1>1, <1>2
    <2>2. i <= Len(output')
      BY <1>3, <2>1
    <2> QED
      BY <1>3, <2>1, <2>2 DEF Lo, Hi, LastOf
  <1> QED
    BY <1>4, <1>5, <1>6 DEF FrameGrows

(* A push is a part more.                                                  *)
LEMMA JobPushed ==
    ASSUME StreamInv, Push, NEW n \in Nat, n = Total + 1
    PROVE  FrameGrows(n, hashed, plan[2], ret = "encode" /\ op # "flush" /\ ~(Len(plan) > 2))
  <1> DEFINE e == Len(jobs) + 1
             last == ret = "encode" /\ op # "flush" /\ ~(Len(plan) > 2)
  <1>1. /\ Len(output) \in Nat /\ Len(jobs) \in Nat /\ assembled \in Nat /\ assembled <= Len(jobs)
        /\ output' = output /\ assembled' = assembled
    BY DEF StreamInv, Types, Push
  <1>2. /\ Len(jobs') = e
        /\ jobs'[e].lo = plan[1] /\ jobs'[e].hi = plan[2] /\ jobs'[e].last = last
        /\ plan[1] = hashed
        /\ \A i \in 1 .. Len(jobs) : jobs'[i] = jobs[i]
    BY PushJob DEF StreamInv
  <1> HIDE DEF last
  <1>3. n = Len(output) + (e - assembled) /\ e \in Nat
    BY <1>1 DEF Total
  <1>4. Total' = n
    BY <1>1, <1>2, <1>3 DEF Total
  <1>5. ~(n <= Len(output)) /\ assembled + (n - Len(output)) = e
    BY <1>1, <1>3
  <1>6. Lo(n)' = hashed /\ Hi(n)' = plan[2] /\ LastOf(n)' = last
    <2> HIDE DEF e
    <2> QED
      BY <1>1, <1>2, <1>5 DEF Lo, Hi, LastOf
  <1>7. ASSUME NEW i \in 1 .. Total
        PROVE  Lo(i)' = Lo(i) /\ Hi(i)' = Hi(i) /\ LastOf(i)' = LastOf(i)
    <2>1. CASE i <= Len(output)
      BY <1>1, <2>1 DEF Lo, Hi, LastOf
    <2>2. CASE ~(i <= Len(output))
      <3>1. assembled + (i - Len(output)) \in 1 .. Len(jobs)
        BY <1>1, <2>2 DEF Total
      <3> QED
        BY <1>1, <1>2, <2>2, <3>1 DEF Lo, Hi, LastOf
    <2> QED
      BY <2>1, <2>2
  <1> QED
    BY <1>4, <1>6, <1>7 DEF FrameGrows, last

(* The frame as it will be read grows at its end, by what is absorbed.     *)
LEMMA FrameStep ==
    ASSUME StreamInv, Next
    PROVE  /\ Total \in Nat
           /\ \/ /\ FrameSame /\ hashed' = hashed
                 /\ Ended' <=> Ended
                 /\ finishing' /\ ~closeEmpty' => finishing /\ ~closeEmpty
                 /\ finished' /\ closeEmpty' => finished /\ closeEmpty
              \/ \E n \in Nat, last \in BOOLEAN :
                     FrameGrows(n, hashed, hashed', last) /\ (last <=> Ended') /\ ~Ended
  <1> DEFINE Kept == /\ FrameSame /\ hashed' = hashed
                     /\ Ended' <=> Ended
                     /\ finishing' /\ ~closeEmpty' => finishing /\ ~closeEmpty
                     /\ finished' /\ closeEmpty' => finished /\ closeEmpty
             Grown == \E n \in Nat, last \in BOOLEAN :
                          FrameGrows(n, hashed, hashed', last) /\ (last <=> Ended') /\ ~Ended
  <1>0. /\ Types /\ Len(output) \in Nat /\ Len(jobs) \in Nat /\ assembled \in Nat /\ assembled <= Len(jobs)
        /\ finishing \in BOOLEAN /\ finished \in BOOLEAN /\ closeEmpty \in BOOLEAN
        /\ pos \in Nat /\ jobStart \in Nat /\ hashed \in Nat
    BY DEF StreamInv, Types
  <1>1. Total \in Nat /\ Total + 1 \in Nat
    BY <1>0 DEF Total
  <1>2. ASSUME UNCHANGED <<finishing, finished, closeEmpty>>, FrameSame, hashed' = hashed PROVE Kept
    BY <1>2 DEF Ended
  <1>3. ASSUME AssembleReady, UNCHANGED jobs PROVE FrameSame
    BY <1>0, <1>3, AssembleKeeps DEF FrameSame
  <1>4. ASSUME UNCHANGED <<output, assembled>>, ~Push PROVE FrameSame
    BY <1>0, <1>4, QueueStep, SameParts
  <1>5. ASSUME ~Push, ~EncodeInline PROVE hashed' = hashed
    <2>1. CASE UNCHANGED <<mode, pledged, pos, jobStart, hashed>>
      BY <2>1
    <2>2. ASSUME NEW n \in Sources, PullOwned(n) PROVE hashed' = hashed
      BY <2>2 DEF PullOwned
    <2>3. ASSUME NEW n \in 0 .. Step, FeedRead(n) PROVE hashed' = hashed
      BY <2>3 DEF FeedRead
    <2>4. CASE FeedWrite
      BY <2>4 DEF FeedWrite
    <2> QED
      BY <1>5, <2>1, <2>2, <2>3, <2>4, OffsetsLeft
  <1>6. CASE Push
    <2> DEFINE last == ret = "encode" /\ op # "flush" /\ ~(Len(plan) > 2)
    <2>1. FrameGrows(Total + 1, hashed, plan[2], last)
      BY <1>1, <1>6, JobPushed
    <2>2. hashed' = plan[2] /\ finishing' = (finishing \/ last) /\ closeEmpty' = closeEmpty /\ pc = "push"
      BY <1>6 DEF Push
    <2>3. ~finishing /\ ~closeEmpty
      BY <2>2 DEF StreamInv, Closed, InPost
    <2>4. last \in BOOLEAN
      OBVIOUS
    <2> HIDE DEF last
    <2>5. last <=> Ended'
      BY <2>2, <2>3, <2>4 DEF Ended
    <2>6. ~Ended
      BY <2>3 DEF Ended
    <2>7. Grown
      BY <1>1, <2>1, <2>2, <2>4, <2>5, <2>6
    <2> QED
      BY <1>1, <2>7
  <1>7. CASE EncodeInline
    <2> DEFINE last == op # "flush"
               p == [lo |-> jobStart, hi |-> pos, last |-> last, hole |-> FALSE]
    <2>1. /\ output' = Append(output, p) /\ assembled' = assembled /\ UNCHANGED jobs
          /\ hashed' = pos /\ finishing' = (finishing \/ last) /\ closeEmpty' = closeEmpty
          /\ pc = "encode" /\ pool = {}
      BY <1>7 DEF EncodeInline, queueVars
    <2>2. ~finishing /\ ~closeEmpty /\ hashed = jobStart
      BY <2>1 DEF StreamInv, Closed, InPost, Absorbed
    <2>3. jobs = <<>>
      BY <2>1 DEF StreamInv, Pool
    <2>4. assembled = Len(jobs)
      <3>1. Len(jobs) = 0
        BY <2>3
      <3> QED
        BY <1>0, <3>1
    <2>5. p \in Part /\ p.lo = jobStart /\ p.hi = pos /\ p.last = last /\ last \in BOOLEAN
      BY <1>0 DEF Part
    <2> HIDE DEF p, last
    <2>6. FrameGrows(Total + 1, hashed, hashed', last)
      BY <1>0, <1>1, <2>1, <2>2, <2>4, <2>5, PartAppended
    <2>7. last <=> Ended'
      BY <2>1, <2>2, <2>5 DEF Ended
    <2>8. ~Ended
      BY <2>2 DEF Ended
    <2>9. Grown
      BY <1>1, <2>5, <2>6, <2>7, <2>8
    <2> QED
      BY <1>1, <2>9
  <1>8. CASE Drained /\ ~poisoned /\ op # "flush" /\ closeEmpty
    <2> DEFINE p == [lo |-> pos, hi |-> pos, last |-> TRUE, hole |-> FALSE]
    <2>1. /\ output' = Append(output, p) /\ assembled' = assembled /\ UNCHANGED jobs
          /\ finished' /\ closeEmpty' = closeEmpty /\ finishing' = finishing /\ hashed' = hashed
          /\ pc = "drained"
      BY <1>8 DEF Drained, queueVars
    <2>2. finishing /\ pos = hashed /\ ~finished /\ assembled = Len(jobs)
      BY <1>8, <2>1 DEF StreamInv, Closed
    <2>3. p \in Part /\ p.lo = pos /\ p.hi = pos /\ p.last = TRUE
      BY <1>0 DEF Part
    <2> HIDE DEF p
    <2>4. FrameGrows(Total + 1, hashed, hashed', TRUE)
      BY <1>0, <1>1, <2>1, <2>2, <2>3, PartAppended
    <2>5. Ended' /\ ~Ended
      BY <1>8, <2>1, <2>2 DEF Ended
    <2>6. Grown
      BY <1>1, <2>4, <2>5
    <2> QED
      BY <1>1, <2>6
  <1>9. CASE Drained /\ ~(~poisoned /\ op # "flush" /\ closeEmpty)
    <2>1. /\ output' = output /\ assembled' = assembled /\ hashed' = hashed
          /\ closeEmpty' = closeEmpty /\ finishing' = finishing
          /\ finished' = finished \/ (~poisoned /\ finished' = (op # "flush"))
          /\ pc = "drained"
      BY <1>9 DEF Drained
    <2>2. ~finished /\ (finishing => op # "flush")
      BY <2>1 DEF StreamInv, Closed
    <2>3. FrameSame
      BY <1>4, <1>9, <2>1 DEF Push, Drained
    <2>4. Kept
      BY <1>0, <1>9, <2>1, <2>2, <2>3 DEF Ended
    <2> QED
      BY <1>1, <2>4
  <1>10. CASE Begin
    <2>1. /\ output' = output /\ assembled' = assembled /\ hashed' = hashed /\ finished' = finished
          /\ pc = "begin"
          /\ \/ UNCHANGED <<closeEmpty, finishing>>
             \/ closeEmpty' = (closeEmpty \/ op # "flush") /\ finishing' = (finishing \/ op # "flush")
      BY <1>10 DEF Begin
    <2>2. ~finished /\ ~finishing /\ ~closeEmpty
      BY <2>1 DEF StreamInv, Closed
    <2>3. FrameSame
      BY <1>4, <1>10, <2>1 DEF Push, Begin
    <2>4. Kept
      BY <1>0, <2>1, <2>2, <2>3 DEF Ended
    <2> QED
      BY <1>1, <2>4
  <1>11. CASE ~Push /\ ~EncodeInline /\ ~Drained /\ ~Begin
    <2>1. hashed' = hashed
      BY <1>5, <1>11
    <2>2. CASE UNCHANGED <<header, finishing, finished, closeEmpty, output, assembled>>
      BY <1>1, <1>2, <1>4, <1>11, <2>1, <2>2
    <2>3. CASE Register
      <3>1. AssembleReady /\ UNCHANGED <<finishing, finished, closeEmpty, jobs>>
        BY <2>3 DEF Register
      <3> QED
        BY <1>1, <1>2, <1>3, <2>1, <3>1
    <2>4. ASSUME NEW S \in SUBSET Worker, SpawnFails(S)
          PROVE  AssembleReady /\ UNCHANGED <<finishing, finished, closeEmpty, jobs>>
      BY <2>4 DEF SpawnFails, queueVars
    <2>5. CASE EncodeJobs
      <3>1. UNCHANGED <<finishing, finished, closeEmpty, output, assembled>>
        BY <2>5 DEF EncodeJobs
      <3> QED
        BY <1>1, <1>2, <1>4, <1>11, <2>1, <3>1
    <2>6. CASE Drain
      <3>1. AssembleReady /\ UNCHANGED <<finishing, finished, closeEmpty, jobs>>
        BY <2>6 DEF Drain, queueVars
      <3> QED
        BY <1>1, <1>2, <1>3, <2>1, <3>1
    <2>7. CASE Settle
      <3>1. /\ UNCHANGED <<finishing, finished, closeEmpty, jobs>>
            /\ AssembleReady \/ UNCHANGED <<output, assembled>>
        BY <2>7 DEF Settle, queueVars
      <3> QED
        BY <1>1, <1>2, <1>3, <1>4, <1>11, <2>1, <3>1
    <2> QED
      BY <1>1, <1>2, <1>3, <1>11, <2>1, <2>2, <2>3, <2>4, <2>5, <2>6, <2>7, FrameLeft
  <1> QED
    BY <1>6, <1>7, <1>8, <1>9, <1>10, <1>11

(* The frame's bytes stay whole.                                           *)
LEMMA ChainStep ==
    ASSUME StreamInv, Next
    PROVE  Chain'
  <1>0. /\ \A i \in 1 .. Total : Lo(i) = IF i = 1 THEN 0 ELSE Hi(i - 1)
        /\ hashed = IF Total = 0 THEN 0 ELSE Hi(Total)
        /\ Total \in Nat
    BY FrameStep DEF StreamInv, Chain
  <1>1. CASE FrameSame /\ hashed' = hashed
    <2>1. Total' = Total
      BY <1>1 DEF FrameSame
    <2>2. ASSUME NEW i \in 1 .. Total PROVE Lo(i)' = IF i = 1 THEN 0 ELSE Hi(i - 1)'
      <3>1. i # 1 => i - 1 \in 1 .. Total
        BY <1>0
      <3> QED
        BY <1>0, <1>1, <3>1 DEF FrameSame
    <2>3. ASSUME NEW m \in Nat, m = Total PROVE hashed' = IF m = 0 THEN 0 ELSE Hi(m)'
      <3>1. m # 0 => m \in 1 .. Total
        BY <2>3
      <3> QED
        BY <1>0, <1>1, <2>3, <3>1 DEF FrameSame
    <2> QED
      BY <1>0, <2>1, <2>2, <2>3 DEF Chain, Hi, Lo
  <1>2. ASSUME NEW n \in Nat, NEW last \in BOOLEAN, FrameGrows(n, hashed, hashed', last)
        PROVE  Chain'
    <2>1. n = Total + 1 /\ Total' = n /\ Lo(n)' = hashed /\ Hi(n)' = hashed'
      BY <1>2 DEF FrameGrows
    <2>2. ASSUME NEW i \in 1 .. n PROVE Lo(i)' = IF i = 1 THEN 0 ELSE Hi(i - 1)'
      <3>1. CASE i = n
        <4>1. i # 1 => i - 1 \in 1 .. Total /\ i - 1 = Total /\ Total # 0
          BY <1>0, <2>1, <3>1
        <4>2. i # 1 => Hi(i - 1)' = Hi(i - 1)
          BY <1>2, <4>1 DEF FrameGrows
        <4>3. i = 1 => Total = 0
          BY <1>0, <2>1, <3>1
        <4> QED
          BY <1>0, <2>1, <3>1, <4>1, <4>2, <4>3
      <3>2. CASE i # n
        <4>1. i \in 1 .. Total /\ (i # 1 => i - 1 \in 1 .. Total)
          BY <1>0, <2>1, <3>2
        <4> QED
          BY <1>0, <1>2, <4>1 DEF FrameGrows
      <3> QED
        BY <3>1, <3>2
    <2>3. n # 0
      BY <1>0, <2>1
    <2> QED
      BY <2>1, <2>2, <2>3 DEF Chain, Hi, Lo
  <1> QED
    BY <1>1, <1>2, FrameStep

(* The last block stays the last.                                          *)
LEMMA MarkedStep ==
    ASSUME StreamInv, Next
    PROVE  Marked'
  <1>0. /\ \A i \in 1 .. Total : LastOf(i) <=> i = Total /\ Ended
        /\ Total \in Nat
    BY FrameStep DEF StreamInv, Marked, Ended
  <1>1. CASE FrameSame /\ (Ended' <=> Ended)
    <2>1. Total' = Total
      BY <1>1 DEF FrameSame
    <2>2. ASSUME NEW i \in 1 .. Total PROVE LastOf(i)' <=> i = Total /\ Ended'
      BY <1>0, <1>1 DEF FrameSame
    <2> QED
      BY <2>1, <2>2 DEF Marked, Ended
  <1>2. ASSUME NEW n \in Nat, NEW last \in BOOLEAN, FrameGrows(n, hashed, hashed', last),
               last <=> Ended', ~Ended
        PROVE  Marked'
    <2>1. n = Total + 1 /\ Total' = n /\ LastOf(n)' = last
      BY <1>2 DEF FrameGrows
    <2>2. ASSUME NEW i \in 1 .. n PROVE LastOf(i)' <=> i = n /\ Ended'
      <3>1. CASE i = n
        BY <1>2, <2>1, <3>1
      <3>2. CASE i # n
        <4>1. i \in 1 .. Total
          BY <1>0, <2>1, <3>2
        <4>2. LastOf(i)' = LastOf(i) /\ ~LastOf(i)
          BY <1>0, <1>2, <4>1 DEF FrameGrows
        <4> QED
          BY <3>2, <4>2
      <3> QED
        BY <3>1, <3>2
    <2> QED
      BY <2>1, <2>2 DEF Marked, Ended
  <1> QED
    BY <1>1, <1>2, FrameStep

(* The frame is closed after its end, and once.                            *)
LEMMA ClosedStep ==
    ASSUME StreamInv, Next
    PROVE  Closed'
  <1>0. /\ finishing /\ ~closeEmpty => Total > 0
        /\ pc = "drained" => assembled = Len(jobs)
        /\ finished => assembled = Len(jobs) /\ (closeEmpty => Total > 0)
    BY DEF StreamInv, Closed
  <1>1. /\ finishing' /\ ~closeEmpty' => Total' > 0
        /\ finished' /\ closeEmpty' => Total' > 0
    <2>1. CASE /\ FrameSame
               /\ finishing' /\ ~closeEmpty' => finishing /\ ~closeEmpty
               /\ finished' /\ closeEmpty' => finished /\ closeEmpty
      BY <1>0, <2>1 DEF FrameSame
    <2>2. ASSUME NEW n \in Nat, NEW last \in BOOLEAN, FrameGrows(n, hashed, hashed', last)
          PROVE  Total' > 0
      <3>1. n = Total + 1 /\ Total' = n /\ Total \in Nat
        BY <2>2, FrameStep DEF FrameGrows
      <3> QED
        BY <3>1
    <2> QED
      BY <2>1, <2>2, FrameStep
  <1>2. pc' = "drained" => assembled' = Len(jobs')
    <2>1. CASE Drain
      <3>1. UNCHANGED jobs /\ assembled' = Assembled /\ (pc' = "drained" => Assembled = Len(jobs))
        BY <2>1 DEF Drain, AssembleReady, queueVars, Goto, Return
      <3> QED
        BY <3>1
    <2>2. ASSUME NEW w \in Worker, ServeQueue(w) PROVE pc' = pc /\ assembled' = assembled /\ Len(jobs') = Len(jobs)
      BY <2>2, ServeJobs DEF ServeQueue, callVars, SameJobs, StreamInv
    <2>3. ASSUME Call PROVE pc' # "drained"
      BY <2>3 DEF Call, Write, Pull, PullOwned, Flush, Finish, Drop
    <2>4. ASSUME InCall, ~Drain PROVE pc' # "drained"
      <3>1. pc \in {"wait", "parked"} => ret \in {"space", "drain", "settle"}
        BY DEF StreamInv, Control
      <3>2. todo \in Nat
        BY DEF StreamInv, Types
      <3>3. CASE FeedWrite
        <4>1. CASE todo = 0
          BY <3>3, <4>1 DEF FeedWrite, Return
        <4>2. CASE todo > 0 /\ Buffered = cap
          BY <3>3, <4>2 DEF FeedWrite, Goto
        <4>3. CASE todo # 0 /\ Buffered # cap
          BY <3>3, <4>3 DEF FeedWrite
        <4> QED
          BY <3>2, <4>1, <4>2, <4>3
      <3> QED
        BY <2>4, <3>1, <3>3 DEF InCall, WaitLeave, FeedRead, MakeSpaceWait, MakeSpace, CheckPoisoned,
           PostReady, PostCheck, Register, SpawnFails, Push, Begin, EncodeInline, EncodeJobs,
           Drained, Settle, SurfacePoison, Pending, Snapshot, Progressed, PayloadGone,
           Goto, Return, Resume, Unwind
    <2> QED
      BY <1>0, <2>1, <2>2, <2>3, <2>4 DEF Next
  <1>3. finished' => assembled' = Len(jobs')
    <2>1. CASE finished
      <3>1. assembled' = assembled
        BY <2>1, FinishedKeeps
      <3>2. ~Push
        BY <2>1 DEF StreamInv, Closed, Push
      <3>3. Len(jobs') = Len(jobs)
        BY <3>2, QueueStep
      <3> QED
        BY <1>0, <2>1, <3>1, <3>3
    <2>2. CASE ~finished /\ finished'
      <3>1. Drained
        BY <2>2, FrameLeft DEF Register, SpawnFails, Push, Begin, EncodeInline, EncodeJobs, Drain, Settle
      <3>2. assembled' = assembled /\ UNCHANGED jobs /\ pc = "drained"
        BY <3>1 DEF Drained, queueVars
      <3> QED
        BY <1>0, <3>2
    <2> QED
      BY <2>1, <2>2
  <1> QED
    BY <1>1, <1>2, <1>3, ClosedCalls DEF Closed

(* A panic is surfaced once its flag is up.                                *)
LEMMA Surfacing ==
    ASSUME StreamInv, Next
    PROVE  pc' = "surface" \/ Waiting("settle")' => poisoned'
  <1> DEFINE Goal == pc' = "surface" \/ Waiting("settle")' => poisoned'
  <1>0. /\ todo \in Nat
        /\ pc = "surface" \/ Waiting("settle") => poisoned
        /\ pc \in {"wait", "parked"} => ret \in {"space", "drain", "settle"}
        /\ poisoned => poisoned'
    BY Sticky DEF StreamInv, Types, Poison, Control
  <1>1. ASSUME NEW n \in Chunks, Write(n) PROVE Goal
    BY <1>0, <1>1 DEF Write, Waiting, Goto, Return, Resume, Unwind, frameVars, queueVars
  <1>2. ASSUME NEW n \in Sources, PullOwned(n) PROVE Goal
    BY <1>0, <1>2 DEF PullOwned, Waiting, Goto, Return, Resume, Unwind, frameVars, queueVars
  <1>3. ASSUME Pull PROVE Goal
    BY <1>0, <1>3 DEF Pull, Waiting, Goto, Return, Resume, Unwind, frameVars, queueVars
  <1>4. ASSUME Flush PROVE Goal
    BY <1>0, <1>4 DEF Flush, Waiting, Goto, Return, Resume, Unwind, frameVars, queueVars
  <1>5. ASSUME Finish PROVE Goal
    BY <1>0, <1>5 DEF Finish, Waiting, Goto, Return, Resume, Unwind, frameVars, queueVars
  <1>6. ASSUME Drop PROVE Goal
    BY <1>0, <1>6 DEF Drop, Waiting, Goto, Return, Resume, Unwind, frameVars, queueVars
  <1>7. ASSUME NEW n \in 0 .. Step, FeedRead(n) PROVE Goal
    BY <1>0, <1>7 DEF FeedRead, Waiting, Goto, Return, Resume, Unwind, frameVars, queueVars
  <1>8. ASSUME NEW S \in SUBSET Worker, SpawnFails(S) PROVE Goal
    BY <1>0, <1>8 DEF SpawnFails, Waiting, Goto, Return, Resume, Unwind, frameVars, queueVars
  <1>9. ASSUME WaitLeave PROVE Goal
    BY <1>0, <1>9 DEF WaitLeave, Waiting, Goto, Return, Resume, Unwind, frameVars, queueVars
  <1>10. ASSUME FeedWrite PROVE Goal
    <2>1. CASE todo = 0
      BY <1>0, <1>10, <2>1 DEF FeedWrite, Waiting, Goto, Return, Resume, Unwind, frameVars, queueVars
    <2>2. CASE todo > 0 /\ Buffered = cap
      BY <1>0, <1>10, <2>2 DEF FeedWrite, Waiting, Goto, Return, Resume, Unwind, frameVars, queueVars
    <2>3. CASE todo # 0 /\ Buffered # cap
      BY <1>0, <1>10, <2>3 DEF FeedWrite, Waiting, Goto, Return, Resume, Unwind, frameVars, queueVars
    <2> QED
      BY <1>0, <2>1, <2>2, <2>3
  <1>11. ASSUME MakeSpaceWait PROVE Goal
    BY <1>0, <1>11 DEF MakeSpaceWait, Waiting, Goto, Return, Resume, Unwind, frameVars, queueVars
  <1>12. ASSUME CheckPoisoned PROVE Goal
    BY <1>0, <1>12 DEF CheckPoisoned, Waiting, Goto, Return, Resume, Unwind, frameVars, queueVars
  <1>13. ASSUME MakeSpace PROVE Goal
    BY <1>0, <1>13 DEF MakeSpace, Waiting, Goto, Return, Resume, Unwind, frameVars, queueVars
  <1>14. ASSUME PostReady PROVE Goal
    BY <1>0, <1>14 DEF PostReady, Waiting, Goto, Return, Resume, Unwind, frameVars, queueVars
  <1>15. ASSUME PostCheck PROVE Goal
    BY <1>0, <1>15 DEF PostCheck, Waiting, Goto, Return, Resume, Unwind, frameVars, queueVars
  <1>16. ASSUME Register PROVE Goal
    BY <1>0, <1>16 DEF Register, Waiting, Goto, Return, Resume, Unwind, frameVars, queueVars
  <1>17. ASSUME Push PROVE Goal
    BY <1>0, <1>17 DEF Push, Waiting, Goto, Return, Resume, Unwind, frameVars, queueVars
  <1>18. ASSUME Begin PROVE Goal
    BY <1>0, <1>18 DEF Begin, Waiting, Goto, Return, Resume, Unwind, frameVars, queueVars
  <1>19. ASSUME EncodeInline PROVE Goal
    BY <1>0, <1>19 DEF EncodeInline, Waiting, Goto, Return, Resume, Unwind, frameVars, queueVars
  <1>20. ASSUME EncodeJobs PROVE Goal
    BY <1>0, <1>20 DEF EncodeJobs, Waiting, Goto, Return, Resume, Unwind, frameVars, queueVars
  <1>21. ASSUME Drain PROVE Goal
    BY <1>0, <1>21 DEF Drain, Waiting, Goto, Return, Resume, Unwind, frameVars, queueVars
  <1>22. ASSUME Pending PROVE Goal
    BY <1>0, <1>22 DEF Pending, Waiting, Goto, Return, Resume, Unwind, frameVars, queueVars
  <1>23. ASSUME Drained PROVE Goal
    BY <1>0, <1>23 DEF Drained, Waiting, Goto, Return, Resume, Unwind, frameVars, queueVars
  <1>24. ASSUME Snapshot PROVE Goal
    BY <1>0, <1>24 DEF Snapshot, Waiting, Goto, Return, Resume, Unwind, frameVars, queueVars
  <1>25. ASSUME Progressed PROVE Goal
    BY <1>0, <1>25 DEF Progressed, Waiting, Goto, Return, Resume, Unwind, frameVars, queueVars
  <1>26. ASSUME SurfacePoison PROVE Goal
    BY <1>0, <1>26 DEF SurfacePoison, Waiting, Goto, Return, Resume, Unwind, frameVars, queueVars
  <1>27. ASSUME PayloadGone PROVE Goal
    BY <1>0, <1>27 DEF PayloadGone, Waiting, Goto, Return, Resume, Unwind, frameVars, queueVars
  <1>28. ASSUME Settle PROVE Goal
    BY <1>0, <1>28 DEF Settle, Waiting, Goto, Return, Resume, Unwind, frameVars, queueVars
  <1>29. ASSUME NEW w \in Worker, ServeQueue(w) PROVE Goal
    BY <1>0, <1>29 DEF ServeQueue, Waiting, callVars
  <1>30. Goal
    <2> HIDE DEF Goal
    <2>1. ASSUME Call PROVE Goal
      BY <2>1, <1>1, <1>2, <1>3, <1>4, <1>5, <1>6 DEF Call
    <2>2. ASSUME InCall PROVE Goal
      BY <2>2, <1>7, <1>8, <1>9, <1>10, <1>11, <1>12, <1>13, <1>14, <1>15, <1>16, <1>17, <1>18, <1>19, <1>20, <1>21, <1>22, <1>23, <1>24, <1>25, <1>26, <1>27, <1>28 DEF InCall
    <2> QED
      BY <2>1, <2>2, <1>29 DEF Next
  <1> QED
    BY <1>30

(* No lost job is passed off as a whole one.                               *)
LEMMA PoisonStep ==
    ASSUME StreamInv, Next
    PROVE  Poison'
  <1>0. /\ \A j \in 1 .. Len(jobs) : jobs[j].state = "aborted" => poisoned
        /\ \A w \in Worker : wpc[w] = "abort" => poisoned
        /\ pc = "surface" \/ Waiting("settle") => poisoned
        /\ \A i \in 1 .. Len(output) : output[i].hole => poisoned /\ ~finished
        /\ poisoned => poisoned'
        /\ output \in Seq(Part) /\ Len(output) \in Nat /\ Len(jobs) \in Nat
        /\ pos \in Nat /\ jobStart \in Nat
        /\ wpc \in [Worker -> {"none", "claim", "asleep", "run", "payload", "flag", "abort",
                               "count", "tick", "left"}]
    BY Sticky DEF StreamInv, Types, Poison
  <1>1. \A j \in 1 .. Len(jobs') : jobs'[j].state = "aborted" => poisoned'
    <2>1. CASE UNCHANGED <<jobs, claimed, incomplete, completed, payload, poisoned>> \/ Register
      <3>1. UNCHANGED jobs
        BY <2>1 DEF Register
      <3> QED
        BY <1>0, <3>1
    <2>2. CASE Push
      <3>1. /\ Len(jobs') = Len(jobs) + 1 /\ jobs'[Len(jobs) + 1].state = "posted"
            /\ \A i \in 1 .. Len(jobs) : jobs'[i] = jobs[i]
        BY <2>2, PushJob DEF StreamInv
      <3> DEFINE e == Len(jobs) + 1
      <3>2. \A j \in 1 .. e : j = e \/ j \in 1 .. Len(jobs)
        BY <1>0
      <3>3. Len(jobs') = e /\ jobs'[e].state = "posted"
        BY <3>1
      <3> HIDE DEF e
      <3> QED
        BY <1>0, <3>1, <3>2, <3>3
    <2>3. CASE SurfacePoison
      BY <1>0, <2>3 DEF SurfacePoison
    <2>4. ASSUME NEW w \in Worker, ServeQueue(w)
          PROVE  \A j \in 1 .. Len(jobs') : jobs'[j].state = "aborted" => poisoned'
      <3>1. /\ Len(jobs') = Len(jobs)
            /\ \A j \in 1 .. Len(jobs) : jobs'[j] = jobs[j] \/ jobs'[j].state = "done" \/ Abort(w)
        BY <2>4, ServeJobs DEF StreamInv, SameJobs
      <3>2. Abort(w) => poisoned
        BY <1>0 DEF Abort
      <3> QED
        BY <1>0, <3>1, <3>2
    <2> QED
      BY <2>1, <2>2, <2>3, <2>4, QueueLeft
  <1>2. ASSUME NEW w \in Worker, wpc'[w] = "abort" PROVE poisoned'
    <2>1. CASE UNCHANGED <<pool, wpc, wjob>>
      BY <1>0, <1>2, <2>1
    <2>2. CASE Register
      BY <1>0, <1>2, <2>2 DEF Register
    <2>3. ASSUME NEW S \in SUBSET Worker, SpawnFails(S) PROVE FALSE
      BY <1>2, <2>3 DEF SpawnFails
    <2>4. CASE Push \/ Drop
      BY <1>0, <1>2, <2>4 DEF Push, Drop, Woken
    <2>5. ASSUME NEW v \in Worker, ServeQueue(v) PROVE poisoned'
      <3>1. CASE v # w
        BY <1>0, <1>2, <2>5, <3>1, ServeMoves
      <3>2. CASE v = w
        BY <1>0, <1>2, <2>5, <3>2, ServeMoves
      <3> QED
        BY <3>1, <3>2
    <2> QED
      BY <2>1, <2>2, <2>3, <2>4, <2>5, WorkersLeft
  <1>3. pc' = "surface" \/ Waiting("settle")' => poisoned'
    BY <1>0, Surfacing
  <1>4. ASSUME NEW i \in 1 .. Len(output'), output'[i].hole PROVE poisoned' /\ ~finished'
    <2>1. poisoned' /\ ((i \in 1 .. Len(output) /\ output[i].hole) \/ ~finished)
      <3>1. ASSUME UNCHANGED output PROVE i \in 1 .. Len(output) /\ output[i].hole
        BY <1>4, <3>1
      <3>2. ASSUME AssembleReady, UNCHANGED jobs PROVE poisoned
        <4>1. \/ i \in 1 .. Len(output) /\ output[i].hole
              \/ \E j \in 1 .. Len(jobs) : jobs[j].state = "aborted"
          BY <1>4, <3>2, AssembleKeeps DEF StreamInv
        <4> QED
          BY <1>0, <4>1
      <3>3. ASSUME NEW p \in Part, output' = Append(output, p), ~p.hole
            PROVE  i \in 1 .. Len(output) /\ output[i].hole
        <4> DEFINE e == Len(output) + 1
        <4>1. /\ Len(output') = e /\ output'[e] = p
              /\ \A k \in 1 .. Len(output) : output'[k] = output[k]
          BY <1>0, <3>3, AppendProperties
        <4>2. \A k \in 1 .. e : k = e \/ k \in 1 .. Len(output)
          BY <1>0
        <4> HIDE DEF e
        <4> QED
          BY <1>4, <3>3, <4>1, <4>2
      <3>4. CASE UNCHANGED <<header, finishing, finished, closeEmpty, output, assembled>>
        BY <1>0, <3>1, <3>4
      <3>5. CASE finished
        BY <1>0, <3>1, <3>5, FinishedKeeps
      <3>6. CASE Register
        BY <1>0, <3>2, <3>5, <3>6 DEF Register
      <3>7. ASSUME NEW S \in SUBSET Worker, SpawnFails(S) PROVE poisoned
        BY <3>2, <3>7 DEF SpawnFails, queueVars
      <3>8. CASE Push \/ Begin \/ EncodeJobs
        BY <1>0, <3>1, <3>8 DEF Push, Begin, EncodeJobs
      <3>9. CASE EncodeInline
        <4> DEFINE p == [lo |-> jobStart, hi |-> pos, last |-> op # "flush", hole |-> FALSE]
        <4>1. p \in Part /\ ~p.hole
          BY <1>0 DEF Part
        <4>2. output' = Append(output, p)
          BY <3>9 DEF EncodeInline
        <4> HIDE DEF p
        <4> QED
          BY <1>0, <3>3, <4>1, <4>2
      <3>10. CASE Drain
        BY <1>0, <3>2, <3>5, <3>10 DEF Drain, queueVars
      <3>11. CASE Drained
        <4> DEFINE p == [lo |-> pos, hi |-> pos, last |-> TRUE, hole |-> FALSE]
        <4>1. p \in Part /\ ~p.hole
          BY <1>0 DEF Part
        <4>2. output' = output \/ output' = Append(output, p)
          BY <3>11 DEF Drained
        <4> HIDE DEF p
        <4> QED
          BY <1>0, <3>1, <3>3, <4>1, <4>2
      <3>12. CASE Settle
        <4>1. (AssembleReady /\ UNCHANGED jobs) \/ UNCHANGED output
          BY <3>12 DEF Settle, queueVars
        <4> QED
          BY <1>0, <3>1, <3>2, <3>5, <4>1
      <3> QED
        BY <1>0, <3>4, <3>5, <3>6, <3>7, <3>8, <3>9, <3>10, <3>11, <3>12, FrameLeft
    <2>2. ~finished
      BY <1>0, <2>1
    <2>3. ASSUME finished' PROVE FALSE
      <3>1. Drained
        BY <2>2, <2>3, FrameLeft DEF Register, SpawnFails, Push, Begin, EncodeInline, EncodeJobs, Drain, Settle
      <3>2. ~poisoned /\ poisoned' = poisoned
        BY <2>2, <2>3, <3>1 DEF Drained, queueVars
      <3> QED
        BY <2>1, <3>2
    <2> QED
      BY <2>1, <2>3
  <1> QED
    BY <1>1, <1>2, <1>3, <1>4 DEF Poison

-----------------------------------------------------------------------------
(* The invariant holds at first and after every step; what it implies.    *)

(* The initial reserve is a number of bytes.                               *)
LEMMA ReserveType ==
    ASSUME pledged \in Pledges
    PROVE  InitialReserve \in Nat
  <1>1. Cardinality(Worker) \in Nat
    BY StreamMtAssumption, FS_CardinalityType
  <1> DEFINE n == Most(Cardinality(Worker), 2)
             job == IF Grid = "fixed" THEN Size ELSE Most(MinJob, Overlap)
  <1>2. n \in Nat /\ job \in Nat
    BY <1>1, StreamGridAssumption DEF Most
  <1>3. InitialReserve = Least(n * job + Overlap + Slack, BufCapMax)
    BY DEF InitialReserve
  <1> HIDE DEF n, job
  <1>4. n * job \in Nat
    BY <1>2
  <1> DEFINE m == n * job
  <1> HIDE DEF m
  <1>5. m \in Nat /\ InitialReserve = Least(m + Overlap + Slack, BufCapMax)
    BY <1>3, <1>4 DEF m
  <1> QED
    BY <1>5, StreamGridAssumption, StreamMtAssumption DEF Least

(* The invariant holds at first.                                           *)
LEMMA StreamInit ==
    ASSUME Init
    PROVE  StreamInv
  <1>1. /\ output = <<>> /\ jobs = <<>> /\ plan = <<>> /\ Len(output) = 0 /\ Len(jobs) = 0
        /\ output \in Seq(Part) /\ jobs \in Seq(Job) /\ plan \in Seq(Nat)
    BY EmptySeq DEF Init
  <1>2. cap \in Nat
    BY ReserveType, StreamGridAssumption DEF Init
  <1>3. Types
    <2>1. mode \in Modes /\ pledged \in Pledges
      BY DEF Init
    <2>2. /\ pos \in Nat /\ jobStart \in Nat /\ hashed \in Nat /\ hashed <= pos
          /\ base \in Nat /\ moves \in Nat /\ completed \in Nat
          /\ todo \in Nat /\ before \in Nat /\ unwinds \in Nat
      BY DEF Init
    <2>3. /\ delivered \in Nat /\ delivered <= Len(output)
          /\ claimed \in 0 .. Len(jobs) /\ assembled \in 0 .. Len(jobs)
      <3> DEFINE n == Len(output)
                 l == Len(jobs)
      <3>1. n = 0 /\ l = 0 /\ delivered = 0 /\ claimed = 0 /\ assembled = 0
        BY <1>1 DEF Init
      <3> HIDE DEF n, l
      <3>2. delivered \in Nat /\ delivered <= n /\ claimed \in 0 .. l /\ assembled \in 0 .. l
        BY <3>1
      <3> QED
        BY <3>2 DEF n, l
    <2>4. /\ header \in BOOLEAN /\ finishing \in BOOLEAN /\ finished \in BOOLEAN
          /\ closeEmpty \in BOOLEAN /\ flushed \in BOOLEAN
          /\ payload \in BOOLEAN /\ poisoned \in BOOLEAN /\ shutdown \in BOOLEAN
      BY DEF Init
    <2>5. pool \subseteq Worker
      BY DEF Init
    <2>6. wpc \in [Worker -> {"none", "claim", "asleep", "run", "payload", "flag", "abort",
                              "count", "tick", "left"}]
      BY DEF Init
    <2>7. wjob \in [Worker -> Nat]
      BY DEF Init
    <2>8. op = "none" /\ pc = "idle" /\ ret = "none"
      BY DEF Init
    <2> QED
      BY <1>1, <1>2, <2>1, <2>2, <2>3, <2>4, <2>5, <2>6, <2>7, <2>8 DEF Types
  <1>4. Buffer
    BY <1>2, StreamGridAssumption DEF Init, Buffer, Strip, Most
  <1>5. Control /\ Planned /\ Absorbed
    BY DEF Init, Control, Planned, Absorbed, Waiting, InPost
  <1>6. Pool /\ Serving
    BY <1>1 DEF Init, Pool, Serving, Working
  <1>7. Busiest = {} /\ Assigned = {}
    BY DEF Init, Busiest, Assigned, Working
  <1>8. Cardinality(Busiest) = 0 /\ Cardinality(Assigned) = 0
    BY <1>7, FS_EmptySet
  <1>9. Counting
    BY <1>1, <1>8 DEF Init, Counting
  <1>10. Viewed /\ Poison
    BY <1>1 DEF Init, Viewed, Poison, Waiting
  <1>11. Total = 0
    BY <1>1 DEF Init, Total
  <1>12. Chain /\ Marked
    BY <1>11 DEF Init, Chain, Marked
  <1>13. Closed
    BY <1>11 DEF Init, Closed, Waiting, InPost
  <1> QED
    BY <1>3, <1>4, <1>5, <1>6, <1>9, <1>10, <1>12, <1>13 DEF StreamInv

(* The types.                                                              *)
LEMMA TypesStep ==
    ASSUME StreamInv, Next
    PROVE  Types'
  <1>1. mode' \in Modes /\ pledged' \in Pledges
    BY OffsetsStep DEF StreamInv, Types
  <1>2. assembled' \in 0 .. Len(jobs')
    <2>1. /\ Len(jobs) \in Nat /\ Len(jobs') \in Nat /\ Len(jobs) <= Len(jobs')
          /\ assembled' \in 0 .. Len(jobs)
      BY OutputStep, QueueStep DEF StreamInv, Types
    <2> DEFINE l == Len(jobs)'
    <2>2. l \in Nat /\ Len(jobs) <= l
      BY <2>1
    <2> HIDE DEF l
    <2>3. assembled' \in 0 .. l
      BY <2>1, <2>2
    <2> QED
      BY <2>3 DEF l
  <1>3. /\ pos' \in Nat /\ jobStart' \in Nat /\ hashed' \in Nat /\ hashed' <= pos'
    BY OffsetsStep
  <1>4. base' \in Nat /\ cap' \in Nat /\ moves' \in Nat
    BY BufferStep
  <1>5. plan' \in Seq(Nat)
    BY PlanStep
  <1> QED
    BY <1>1, <1>2, <1>3, <1>4, <1>5, FlagsStep, QueueStep, OutputStep, WorkersStep, ControlStep
       DEF Types

(* Every step keeps the invariant.                                         *)
LEMMA StreamStep ==
    ASSUME StreamInv, [Next]_vars
    PROVE  StreamInv'
  <1>1. CASE Next
    BY <1>1, TypesStep, BufferStep, ControlStep, PlanStep, AbsorbedStep, PoolStep, ServingStep,
       CountingStep, ViewedStep, PoisonStep, ChainStep, ClosedStep, MarkedStep DEF StreamInv
  <1>2. CASE UNCHANGED vars
    <2>1. /\ UNCHANGED <<mode, pledged, pos, jobStart, hashed, header, finishing, finished, closeEmpty,
                         output, delivered, flushed, base, cap, moves>>
          /\ UNCHANGED <<jobs, claimed, incomplete, completed, payload, poisoned, assembled>>
          /\ UNCHANGED <<shutdown, pool, wpc, wjob>>
          /\ UNCHANGED <<op, pc, todo, plan, ret, before, faults, unwinds>>
      BY <1>2 DEF vars, frameVars, bufferVars, queueVars, poolVars, callVars
    <2>2. Types' <=> Types
      BY <2>1 DEF Types
    <2>3. Buffer' <=> Buffer
      BY <2>1 DEF Buffer, Strip
    <2>4. (Control' <=> Control) /\ (Planned' <=> Planned) /\ (Absorbed' <=> Absorbed)
      BY <2>1 DEF Control, Planned, Absorbed, Waiting, InPost
    <2>5. Pool' <=> Pool
      BY <2>1 DEF Pool
    <2>6. Serving' <=> Serving
      BY <2>1 DEF Serving
    <2>7. Busiest' = Busiest /\ Assigned' = Assigned
      BY <2>1 DEF Busiest, Assigned
    <2>8. Counting' <=> Counting
      BY <2>1, <2>7 DEF Counting
    <2>9. Viewed' <=> Viewed
      BY <2>1 DEF Viewed
    <2>10. Poison' <=> Poison
      BY <2>1 DEF Poison, Waiting
    <2>11. Total' = Total
      BY <2>1 DEF Total
    <2>12. Chain' <=> Chain
      BY <2>1, <2>11 DEF Chain, Lo, Hi
    <2>13. Closed' <=> Closed
      BY <2>1, <2>11 DEF Closed, Waiting, InPost
    <2>14. Marked' <=> Marked
      BY <2>1, <2>11 DEF Marked, LastOf
    <2> QED
      BY <2>2, <2>3, <2>4, <2>5, <2>6, <2>8, <2>9, <2>10, <2>12, <2>13, <2>14 DEF StreamInv
  <1> QED
    BY <1>1, <1>2

(* The encoder keeps its invariant.                                        *)
THEOREM StreamCorrect == Spec => []StreamInv
  <1> QED
    BY StreamInit, StreamStep, PTL DEF Spec

-----------------------------------------------------------------------------
(* Every variable keeps its type, whatever the user calls, the workers do  *)
(* and the grid is; no more jobs run than were claimed.                    *)
THEOREM StreamTypeCorrect == Spec => []TypeOK
  <1>1. ASSUME StreamInv PROVE TypeOK
    <2>1. Types /\ Serving
      BY <1>1 DEF StreamInv
    <2>2. wjob \in [Worker -> 0 .. Len(jobs)]
      <3>1. /\ wjob \in [Worker -> Nat] /\ claimed \in Nat /\ claimed <= Len(jobs) /\ Len(jobs) \in Nat
            /\ \A w \in Worker : wjob[w] <= claimed
        BY <2>1 DEF Types, Serving
      <3>2. \A w \in Worker : wjob[w] \in 0 .. Len(jobs)
        BY <3>1
      <3> DEFINE D == 0 .. Len(jobs)
      <3> HIDE DEF D
      <3>3. \A w \in Worker : wjob[w] \in D
        BY <3>2 DEF D
      <3>4. wjob \in [Worker -> D]
        BY <3>1, <3>3
      <3> QED
        BY <3>4 DEF D
    <2>3. Busiest \subseteq Assigned
      BY <2>1 DEF Busiest, Assigned, Serving
    <2>4. Cardinality(Busiest) \in Nat /\ Cardinality(Busiest) <= Cardinality(Assigned)
      <3>1. Assigned \in SUBSET Worker /\ Busiest \in SUBSET Worker
        BY DEF Assigned, Busiest
      <3>2. IsFiniteSet(Assigned) /\ Cardinality(Busiest) \in Nat
        BY <3>1, BusyFinite
      <3> QED
        BY <2>3, <3>2, FS_Subset
    <2>5. incomplete \in 0 .. Len(jobs) + 1 /\ completed \in 0 .. Len(jobs)
      <3>1. /\ claimed \in Nat /\ claimed <= Len(jobs) /\ Len(jobs) \in Nat /\ completed \in Nat
        BY <2>1 DEF Types
      <3> DEFINE n == Cardinality(Busiest)
                 a == Cardinality(Assigned)
                 p == IF pc = "push" THEN 1 ELSE 0
      <3>2. incomplete = (Len(jobs) - claimed) + n + p /\ completed + a <= claimed
        BY <1>1 DEF StreamInv, Counting
      <3>3. n \in Nat /\ n <= a /\ a \in Nat
        <4>1. Assigned \in SUBSET Worker
          BY DEF Assigned
        <4> QED
          BY <2>4, <4>1, BusyFinite
      <3>4. p \in {0, 1}
        OBVIOUS
      <3> HIDE DEF n, a, p
      <3> QED
        BY <3>1, <3>2, <3>3, <3>4
    <2>6. /\ hashed \in 0 .. pos /\ jobStart \in 0 .. pos /\ base \in 0 .. jobStart
      <3>1. /\ hashed \in Nat /\ hashed <= pos /\ jobStart \in Nat /\ pos \in Nat /\ base \in Nat
            /\ jobStart <= hashed /\ base <= Strip(jobStart)
        BY <1>1 DEF StreamInv, Types, Buffer
      <3>2. Strip(jobStart) \in Nat /\ Strip(jobStart) <= jobStart
        BY <3>1, StreamGridAssumption DEF Strip, Most
      <3> QED
        BY <3>1, <3>2
    <2>7. delivered \in 0 .. Len(output)
      BY <2>1 DEF Types
    <2> QED
      BY <2>1, <2>2, <2>5, <2>6, <2>7 DEF TypeOK, Types
  <1> QED
    BY <1>1, StreamCorrect, PTL

(* A worker reads its job's bytes where they were when it was posted, for  *)
(* every number of workers, grid and buffer size, whatever is called, fed, *)
(* refused or lost to a panic; and the buffer keeps what the checksum has  *)
(* yet to take.                                                            *)
THEOREM BufferSafe == Spec => []BufferServes
  <1>1. ASSUME StreamInv PROVE BufferServes
    <2>1. /\ hashed \in Nat /\ jobStart \in Nat /\ base \in Nat
          /\ jobStart <= hashed /\ base <= Strip(jobStart)
      BY <1>1 DEF StreamInv, Types, Buffer
    <2>2. Strip(jobStart) \in Nat /\ Strip(jobStart) <= jobStart
      BY <2>1, StreamGridAssumption DEF Strip, Most
    <2>3. base <= hashed
      BY <2>1, <2>2
    <2> QED
      BY <1>1, <2>3 DEF StreamInv, Viewed, BufferServes
  <1> QED
    BY <1>1, StreamCorrect, PTL

(* A finished frame is whole: every byte fed, once and in order, one last  *)
(* block at its end, its pledge kept and no job lost to a panic in it.     *)
THEOREM FrameSafe == Spec => []FrameWhole
  <1>1. ASSUME StreamInv, finished PROVE
            /\ header /\ hashed = pos /\ pledged \in {NoPledge, pos}
            /\ output # <<>> /\ output[1].lo = 0 /\ output[Len(output)].hi = pos
            /\ \A i \in DOMAIN output :
                   /\ ~output[i].hole
                   /\ output[i].last <=> i = Len(output)
                   /\ i > 1 => output[i].lo = output[i - 1].hi
    <2>1. /\ output \in Seq(Part) /\ Len(output) \in Nat /\ Len(jobs) \in Nat
          /\ assembled = Len(jobs) /\ finishing /\ header /\ pos = hashed
          /\ pledged \in {NoPledge, pos}
          /\ (closeEmpty => Total > 0) /\ (~closeEmpty => Total > 0)
      BY <1>1 DEF StreamInv, Types, Closed
    <2>2. Total = Len(output) /\ Total > 0
      BY <2>1 DEF Total
    <2>3. \A i \in 1 .. Len(output) : /\ Lo(i) = output[i].lo /\ Hi(i) = output[i].hi
                                      /\ LastOf(i) = output[i].last
      BY DEF Lo, Hi, LastOf
    <2>4. /\ \A i \in 1 .. Len(output) : Lo(i) = IF i = 1 THEN 0 ELSE Hi(i - 1)
          /\ hashed = Hi(Len(output))
      BY <1>1, <2>2 DEF StreamInv, Chain
    <2>5. \A i \in 1 .. Len(output) : LastOf(i) <=> i = Len(output)
      BY <1>1, <2>1, <2>2 DEF StreamInv, Marked
    <2>6. \A i \in 1 .. Len(output) : ~output[i].hole
      BY <1>1 DEF StreamInv, Poison
    <2>7. 1 \in 1 .. Len(output) /\ Len(output) \in 1 .. Len(output) /\ DOMAIN output = 1 .. Len(output)
          /\ output # <<>>
      BY <2>1, <2>2
    <2>8. output[1].lo = 0 /\ output[Len(output)].hi = pos
      BY <2>1, <2>3, <2>4, <2>7
    <2>9. ASSUME NEW i \in 1 .. Len(output)
          PROVE  /\ output[i].last <=> i = Len(output)
                 /\ i > 1 => output[i].lo = output[i - 1].hi
      <3>1. i > 1 => i - 1 \in 1 .. Len(output)
        BY <2>1
      <3> QED
        BY <2>3, <2>4, <2>5, <3>1
    <2> QED
      BY <2>1, <2>6, <2>7, <2>8, <2>9
  <1>2. StreamInv => FrameWhole
    BY <1>1 DEF FrameWhole
  <1> QED
    BY <1>2, StreamCorrect, PTL

-----------------------------------------------------------------------------
(* A flush drains with everything absorbed, and without a pool nothing has *)
(* panicked.                                                               *)
FlushInv ==
    /\ op = "flush" /\ (pc \in {"pending", "drained"} \/ Waiting("drain")) => hashed = pos
    /\ pool = {} => ~poisoned

(* Every step keeps that, too.                                             *)
LEMMA FlushStep ==
    ASSUME StreamInv, FlushInv, Next
    PROVE  FlushInv'
  <1> DEFINE Goal == op' = "flush" /\ (pc' \in {"pending", "drained"} \/ Waiting("drain")') => hashed' = pos'
  <1>0. /\ op = "flush" /\ (pc \in {"pending", "drained"} \/ Waiting("drain")) => hashed = pos
        /\ todo \in Nat /\ pos \in Nat /\ jobStart \in Nat /\ hashed \in Nat
        /\ hashed <= pos /\ jobStart <= hashed
        /\ pc \in {"wait", "parked"} => ret \in {"space", "drain", "settle"}
        /\ pc \in {"feed", "full", "ready"} \/ Waiting("space") => op \in {"write", "pull"}
        /\ pc \in {"begin", "encode", "pending", "drained"} \/ Waiting("drain") =>
               op \in {"pull", "flush", "finish"}
    BY DEF StreamInv, Types, Buffer, Control, FlushInv
  <1>a. InPost => /\ ret = "encode" => plan[Len(plan)] = pos
                  /\ Len(plan) > 1 /\ Len(plan) \in Nat
    <2>1. InPost => /\ ret = "encode" => plan[Len(plan)] = pos
                    /\ Len(plan) > 1 /\ plan \in Seq(Nat)
      BY DEF StreamInv, Types, Planned
    <2> QED
      BY <2>1
  <1>1. ASSUME NEW n \in Chunks, Write(n) PROVE Goal
    BY <1>0, <1>1 DEF Write, Waiting, Goto, Return, Resume, Unwind, frameVars
  <1>2. ASSUME NEW n \in Sources, PullOwned(n) PROVE Goal
    BY <1>0, <1>2 DEF PullOwned, Waiting, Goto, Return, Resume, Unwind, frameVars
  <1>3. ASSUME Pull PROVE Goal
    BY <1>0, <1>3 DEF Pull, Waiting, Goto, Return, Resume, Unwind, frameVars
  <1>4. ASSUME Flush PROVE Goal
    BY <1>0, <1>4 DEF Flush, Waiting, Goto, Return, Resume, Unwind, frameVars
  <1>5. ASSUME Finish PROVE Goal
    BY <1>0, <1>5 DEF Finish, Waiting, Goto, Return, Resume, Unwind, frameVars
  <1>6. ASSUME Drop PROVE Goal
    BY <1>0, <1>6 DEF Drop, Waiting, Goto, Return, Resume, Unwind, frameVars
  <1>7. ASSUME NEW n \in 0 .. Step, FeedRead(n) PROVE Goal
    BY <1>0, <1>7 DEF FeedRead, Waiting, Goto, Return, Resume, Unwind, frameVars
  <1>8. ASSUME NEW S \in SUBSET Worker, SpawnFails(S) PROVE Goal
    BY <1>0, <1>8 DEF SpawnFails, Waiting, Goto, Return, Resume, Unwind, frameVars
  <1>9. ASSUME WaitLeave PROVE Goal
    BY <1>0, <1>9 DEF WaitLeave, Waiting, Goto, Return, Resume, Unwind, frameVars
  <1>10. ASSUME FeedWrite PROVE Goal
    <2>1. CASE todo = 0
      BY <1>0, <1>10, <2>1 DEF FeedWrite, Waiting, Goto, Return, Resume, Unwind, frameVars
    <2>2. CASE todo > 0 /\ Buffered = cap
      BY <1>0, <1>10, <2>2 DEF FeedWrite, Waiting, Goto, Return, Resume, Unwind, frameVars
    <2>3. CASE todo # 0 /\ Buffered # cap
      BY <1>0, <1>10, <2>3 DEF FeedWrite, Waiting, Goto, Return, Resume, Unwind, frameVars
    <2> QED
      BY <1>0, <2>1, <2>2, <2>3
  <1>11. ASSUME MakeSpaceWait PROVE Goal
    BY <1>0, <1>11 DEF MakeSpaceWait, Waiting, Goto, Return, Resume, Unwind, frameVars
  <1>12. ASSUME CheckPoisoned PROVE Goal
    BY <1>0, <1>12 DEF CheckPoisoned, Waiting, Goto, Return, Resume, Unwind, frameVars
  <1>13. ASSUME MakeSpace PROVE Goal
    BY <1>0, <1>13 DEF MakeSpace, Waiting, Goto, Return, Resume, Unwind, frameVars
  <1>14. ASSUME PostReady PROVE Goal
    BY <1>0, <1>14 DEF PostReady, Waiting, Goto, Return, Resume, Unwind, frameVars
  <1>15. ASSUME PostCheck PROVE Goal
    BY <1>0, <1>15 DEF PostCheck, Waiting, Goto, Return, Resume, Unwind, frameVars
  <1>16. ASSUME Register PROVE Goal
    BY <1>0, <1>16 DEF Register, Waiting, Goto, Return, Resume, Unwind, frameVars
  <1>17. ASSUME Push PROVE Goal
    <2>1. /\ pc = "push" /\ InPost /\ UNCHANGED <<pos, op, ret>>
      BY <1>17 DEF Push, InPost
    <2>2. CASE Len(plan) > 2
      <3>1. pc' = "post"
        BY <1>17, <2>2 DEF Push
      <3> QED
        BY <3>1 DEF Waiting
    <2>3. CASE ~(Len(plan) > 2)
      <3>1. /\ hashed' = plan[2] /\ pc' = IF ret = "encode" THEN "drain" ELSE "ready"
        BY <1>17, <2>3 DEF Push
      <3> DEFINE n == Len(plan)
      <3>2. n > 1 /\ n \in Nat /\ ~(n > 2) /\ (ret = "encode" => plan[n] = pos)
        BY <1>a, <2>1, <2>3
      <3> HIDE DEF n
      <3>3. n = 2
        BY <3>2
      <3> QED
        BY <2>1, <3>1, <3>2, <3>3 DEF Waiting
    <2> QED
      BY <2>2, <2>3
  <1>18. ASSUME Begin PROVE Goal
    BY <1>0, <1>18 DEF Begin, Waiting, Goto, Return, Resume, Unwind, frameVars
  <1>19. ASSUME EncodeInline PROVE Goal
    BY <1>0, <1>19 DEF EncodeInline, Waiting, Goto, Return, Resume, Unwind, frameVars
  <1>20. ASSUME EncodeJobs PROVE Goal
    BY <1>0, <1>20 DEF EncodeJobs, Waiting, Goto, Return, Resume, Unwind, frameVars
  <1>21. ASSUME Drain PROVE Goal
    BY <1>0, <1>21 DEF Drain, Waiting, Goto, Return, Resume, Unwind, frameVars
  <1>22. ASSUME Pending PROVE Goal
    BY <1>0, <1>22 DEF Pending, Waiting, Goto, Return, Resume, Unwind, frameVars
  <1>23. ASSUME Drained PROVE Goal
    BY <1>0, <1>23 DEF Drained, Waiting, Goto, Return, Resume, Unwind, frameVars
  <1>24. ASSUME Snapshot PROVE Goal
    BY <1>0, <1>24 DEF Snapshot, Waiting, Goto, Return, Resume, Unwind, frameVars
  <1>25. ASSUME Progressed PROVE Goal
    BY <1>0, <1>25 DEF Progressed, Waiting, Goto, Return, Resume, Unwind, frameVars
  <1>26. ASSUME SurfacePoison PROVE Goal
    BY <1>0, <1>26 DEF SurfacePoison, Waiting, Goto, Return, Resume, Unwind, frameVars
  <1>27. ASSUME PayloadGone PROVE Goal
    BY <1>0, <1>27 DEF PayloadGone, Waiting, Goto, Return, Resume, Unwind, frameVars
  <1>28. ASSUME Settle PROVE Goal
    BY <1>0, <1>28 DEF Settle, Waiting, Goto, Return, Resume, Unwind, frameVars
  <1>29. ASSUME NEW w \in Worker, ServeQueue(w) PROVE Goal
    BY <1>0, <1>29 DEF ServeQueue, Waiting, callVars, frameVars
  <1>30. Goal
    <2> HIDE DEF Goal
    <2>1. ASSUME Call PROVE Goal
      BY <2>1, <1>1, <1>2, <1>3, <1>4, <1>5, <1>6 DEF Call
    <2>2. ASSUME InCall PROVE Goal
      BY <2>2, <1>7, <1>8, <1>9, <1>10, <1>11, <1>12, <1>13, <1>14, <1>15, <1>16, <1>17, <1>18, <1>19, <1>20, <1>21, <1>22, <1>23, <1>24, <1>25, <1>26, <1>27, <1>28 DEF InCall
    <2> QED
      BY <2>1, <2>2, <1>29 DEF Next
  <1>z. pool' = {} => ~poisoned'
    <2>1. ASSUME pool' = {}, poisoned' PROVE FALSE
      <3>1. pool = {} /\ ~poisoned
        BY <2>1, Sticky DEF FlushInv
      <3>2. ASSUME NEW w \in Worker, ServeQueue(w) PROVE FALSE
        <4>1. wpc[w] # "none"
          BY <3>2 DEF ServeQueue, Claim, RunJob, JobPanics, PublishPayload, PublishFlag, Abort, Count, Tick
        <4> QED
          BY <3>1, <4>1 DEF StreamInv, Pool
      <3>3. UNCHANGED poisoned
        BY <3>2, QueueLeft DEF Register, Push, SurfacePoison
      <3> QED
        BY <2>1, <3>1, <3>3
    <2> QED
      BY <2>1
  <1> QED
    BY <1>30, <1>z DEF FlushInv

(* A flush returns from two places only.                                   *)
LEMMA FlushReturns ==
    ASSUME StreamInv, Next, op = "flush", pc # "idle", pc' = "idle", unwinds' = unwinds
    PROVE  Drained \/ EncodeInline
  <1> DEFINE Goal == Drained \/ EncodeInline
  <1>0. /\ todo \in Nat /\ unwinds \in Nat /\ op = "flush" /\ pc # "idle" /\ pc' = "idle"
        /\ unwinds' = unwinds
        /\ pc \in {"wait", "parked"} => ret \in {"space", "drain", "settle"}
        /\ pc \in {"feed", "full", "ready"} \/ Waiting("space") => op \in {"write", "pull"}
    BY DEF StreamInv, Types, Control
  <1>1. ASSUME NEW n \in Chunks, Write(n) PROVE Goal
    BY <1>0, <1>1 DEF Write, Callable, Goto, Return, Resume, Unwind
  <1>2. ASSUME NEW n \in Sources, PullOwned(n) PROVE Goal
    BY <1>0, <1>2 DEF PullOwned, Callable, Goto, Return, Resume, Unwind
  <1>3. ASSUME Pull PROVE Goal
    BY <1>0, <1>3 DEF Pull, Callable, Goto, Return, Resume, Unwind
  <1>4. ASSUME Flush PROVE Goal
    BY <1>0, <1>4 DEF Flush, Callable, Goto, Return, Resume, Unwind
  <1>5. ASSUME Finish PROVE Goal
    BY <1>0, <1>5 DEF Finish, Callable, Goto, Return, Resume, Unwind
  <1>6. ASSUME Drop PROVE Goal
    BY <1>0, <1>6 DEF Drop, Callable, Goto, Return, Resume, Unwind
  <1>7. ASSUME NEW n \in 0 .. Step, FeedRead(n) PROVE Goal
    BY <1>0, <1>7 DEF FeedRead, Callable, Goto, Return, Resume, Unwind
  <1>8. ASSUME NEW S \in SUBSET Worker, SpawnFails(S) PROVE Goal
    BY <1>0, <1>8 DEF SpawnFails, Callable, Goto, Return, Resume, Unwind
  <1>9. ASSUME WaitLeave PROVE Goal
    BY <1>0, <1>9 DEF WaitLeave, Callable, Goto, Return, Resume, Unwind
  <1>10. ASSUME FeedWrite PROVE Goal
    <2>1. CASE todo = 0
      BY <1>0, <1>10, <2>1 DEF FeedWrite, Callable, Goto, Return, Resume, Unwind
    <2>2. CASE todo > 0 /\ Buffered = cap
      BY <1>0, <1>10, <2>2 DEF FeedWrite, Callable, Goto, Return, Resume, Unwind
    <2>3. CASE todo # 0 /\ Buffered # cap
      BY <1>0, <1>10, <2>3 DEF FeedWrite, Callable, Goto, Return, Resume, Unwind
    <2> QED
      BY <1>0, <2>1, <2>2, <2>3
  <1>11. ASSUME MakeSpaceWait PROVE Goal
    BY <1>0, <1>11 DEF MakeSpaceWait, Callable, Goto, Return, Resume, Unwind
  <1>12. ASSUME CheckPoisoned PROVE Goal
    BY <1>0, <1>12 DEF CheckPoisoned, Callable, Goto, Return, Resume, Unwind
  <1>13. ASSUME MakeSpace PROVE Goal
    BY <1>0, <1>13 DEF MakeSpace, Callable, Goto, Return, Resume, Unwind
  <1>14. ASSUME PostReady PROVE Goal
    BY <1>0, <1>14 DEF PostReady, Callable, Goto, Return, Resume, Unwind
  <1>15. ASSUME PostCheck PROVE Goal
    BY <1>0, <1>15 DEF PostCheck, Callable, Goto, Return, Resume, Unwind
  <1>16. ASSUME Register PROVE Goal
    BY <1>0, <1>16 DEF Register, Callable, Goto, Return, Resume, Unwind
  <1>17. ASSUME Push PROVE Goal
    BY <1>0, <1>17 DEF Push, Callable, Goto, Return, Resume, Unwind
  <1>18. ASSUME Begin PROVE Goal
    BY <1>0, <1>18 DEF Begin, Callable, Goto, Return, Resume, Unwind
  <1>19. ASSUME EncodeInline PROVE Goal
    BY <1>0, <1>19 DEF EncodeInline, Callable, Goto, Return, Resume, Unwind
  <1>20. ASSUME EncodeJobs PROVE Goal
    BY <1>0, <1>20 DEF EncodeJobs, Callable, Goto, Return, Resume, Unwind
  <1>21. ASSUME Drain PROVE Goal
    BY <1>0, <1>21 DEF Drain, Callable, Goto, Return, Resume, Unwind
  <1>22. ASSUME Pending PROVE Goal
    BY <1>0, <1>22 DEF Pending, Callable, Goto, Return, Resume, Unwind
  <1>23. ASSUME Drained PROVE Goal
    BY <1>0, <1>23 DEF Drained, Callable, Goto, Return, Resume, Unwind
  <1>24. ASSUME Snapshot PROVE Goal
    BY <1>0, <1>24 DEF Snapshot, Callable, Goto, Return, Resume, Unwind
  <1>25. ASSUME Progressed PROVE Goal
    BY <1>0, <1>25 DEF Progressed, Callable, Goto, Return, Resume, Unwind
  <1>26. ASSUME SurfacePoison PROVE Goal
    BY <1>0, <1>26 DEF SurfacePoison, Callable, Goto, Return, Resume, Unwind
  <1>27. ASSUME PayloadGone PROVE Goal
    BY <1>0, <1>27 DEF PayloadGone, Callable, Goto, Return, Resume, Unwind
  <1>28. ASSUME Settle PROVE Goal
    BY <1>0, <1>28 DEF Settle, Callable, Goto, Return, Resume, Unwind
  <1>29. ASSUME NEW w \in Worker, ServeQueue(w) PROVE Goal
    BY <1>0, <1>29 DEF ServeQueue, callVars
  <1>30. Goal
    <2> HIDE DEF Goal
    <2>1. ASSUME Call PROVE Goal
      BY <2>1, <1>1, <1>2, <1>3, <1>4, <1>5, <1>6 DEF Call
    <2>2. ASSUME InCall PROVE Goal
      BY <2>2, <1>7, <1>8, <1>9, <1>10, <1>11, <1>12, <1>13, <1>14, <1>15, <1>16, <1>17, <1>18, <1>19, <1>20, <1>21, <1>22, <1>23, <1>24, <1>25, <1>26, <1>27, <1>28 DEF InCall
    <2> QED
      BY <2>1, <2>2, <1>29 DEF Next
  <1> QED
    BY <1>30

(* A flush that returns has put out everything written before it, and      *)
(* nothing is missing from it.                                             *)
THEOREM FlushSafe == Spec => FlushVisible
  <1>1. Init => FlushInv
    BY DEF Init, FlushInv, Waiting
  <1>2. StreamInv /\ FlushInv /\ [Next]_vars => FlushInv'
    <2>1. ASSUME FlushInv, UNCHANGED vars PROVE FlushInv'
      BY <2>1 DEF FlushInv, Waiting, vars, frameVars, queueVars, poolVars, callVars
    <2> QED
      BY <2>1, FlushStep
  <1> DEFINE A == op = "flush" /\ pc # "idle" /\ pc' = "idle" /\ unwinds' = unwinds =>
                      /\ assembled' = Len(jobs')
                      /\ pos > 0 => output'[Len(output')].hi = pos
                      /\ \A i \in DOMAIN output' : ~output'[i].hole
  <1>3. ASSUME StreamInv, FlushInv, Next, op = "flush", pc # "idle", pc' = "idle", unwinds' = unwinds
        PROVE  /\ assembled' = Len(jobs')
               /\ pos > 0 => output'[Len(output')].hi = pos
               /\ \A i \in DOMAIN output' : ~output'[i].hole
    <2>0. /\ output \in Seq(Part) /\ Len(output) \in Nat /\ Len(jobs) \in Nat /\ assembled \in Nat
          /\ pos \in Nat /\ jobStart \in Nat /\ unwinds \in Nat /\ assembled <= Len(jobs)
      BY <1>3 DEF StreamInv, Types
    <2>1. Drained \/ EncodeInline
      BY <1>3, FlushReturns
    <2>2. ASSUME ~poisoned, NEW i \in 1 .. Len(output) PROVE ~output[i].hole
      BY <1>3, <2>2 DEF StreamInv, Poison
    <2>3. CASE EncodeInline
      <3> DEFINE p == [lo |-> jobStart, hi |-> pos, last |-> op # "flush", hole |-> FALSE]
                 e == Len(output) + 1
      <3>1. /\ pool = {} /\ output' = Append(output, p) /\ UNCHANGED <<jobs, assembled>>
        BY <2>3 DEF EncodeInline, queueVars
      <3>2. jobs = <<>> /\ ~poisoned
        BY <1>3, <3>1 DEF StreamInv, Pool, FlushInv
      <3>3. assembled = Len(jobs)
        <4>1. Len(jobs) = 0
          BY <3>2
        <4> QED
          BY <2>0, <4>1
      <3>4. p \in Part /\ p.hi = pos /\ ~p.hole
        BY <2>0 DEF Part
      <3> HIDE DEF p
      <3>5. /\ output' \in Seq(Part) /\ Len(output') = e /\ output'[e] = p
            /\ \A i \in 1 .. Len(output) : output'[i] = output[i]
        BY <2>0, <3>1, <3>4, AppendProperties
      <3>6. DOMAIN output' = 1 .. e
        BY <3>5
      <3>7. \A i \in 1 .. e : i = e \/ i \in 1 .. Len(output)
        BY <2>0
      <3> HIDE DEF e
      <3>8. \A i \in DOMAIN output' : ~output'[i].hole
        BY <2>2, <3>2, <3>4, <3>5, <3>6, <3>7
      <3> QED
        BY <3>1, <3>3, <3>4, <3>5, <3>8
    <2>4. CASE Drained
      <3>1. /\ ~poisoned /\ pc = "drained"
            /\ UNCHANGED <<output, jobs, assembled>>
        BY <1>3, <2>4 DEF Drained, Goto, queueVars
      <3>2. assembled = Len(jobs) /\ hashed = pos
        BY <1>3, <3>1 DEF StreamInv, Closed, FlushInv
      <3>3. Total = Len(output)
        BY <2>0, <3>2 DEF Total
      <3>4. pos > 0 => Len(output) # 0 /\ Hi(Len(output)) = pos
        BY <1>3, <3>2, <3>3 DEF StreamInv, Chain
      <3>5. pos > 0 => output[Len(output)].hi = pos
        BY <2>0, <3>4 DEF Hi
      <3>6. DOMAIN output = 1 .. Len(output)
        BY <2>0
      <3> QED
        BY <2>2, <3>1, <3>2, <3>5, <3>6
    <2> QED
      BY <2>1, <2>3, <2>4
  <1>4. StreamInv /\ FlushInv /\ [Next]_vars => [A]_vars
    BY <1>3
  <1> HIDE DEF A
  <1>5. Spec => [][A]_vars
    BY <1>1, <1>2, <1>4, StreamCorrect, PTL DEF Spec
  <1> QED
    BY <1>5 DEF A, FlushVisible

-----------------------------------------------------------------------------
(* The points of the grid: where the jobs of a frame without an end would  *)
(* be cut.  A job size is not passed on from one epoch to the next: each   *)
(* epoch is cut from its floor.                                            *)
Floor(grid, o) == IF grid = "fixed" THEN 0 ELSE EpochFloor(o)
Stride(grid, o) == IF grid = "fixed" THEN Size ELSE EpochSize[EpochOf(o)]
OnGrid(grid, o) == \E i \in Nat : o = Floor(grid, o) + i * Stride(grid, o)
GridTo(grid, o) == {p \in 0 .. o : OnGrid(grid, p)}
Members(c) == {c[i] : i \in DOMAIN c}

LEMMA Multiples ==
    ASSUME NEW s \in Nat, s > 0, NEW i \in Nat, NEW j \in Nat
    PROVE  /\ i * s \in Nat /\ (i + 1) * s = i * s + s
           /\ i * s < j * s => i < j
           /\ i < j => i * s + s <= j * s
  <1>1. i * s \in Nat /\ (i + 1) * s = i * s + s
    BY Z3
  <1>2. i * s < j * s => i < j
    BY Z3
  <1>3. ASSUME i < j PROVE i * s + s <= j * s
    <2>1. PICK d \in Nat : j = (i + 1) + d
      <3>1. j - (i + 1) \in Nat /\ j = (i + 1) + (j - (i + 1))
        BY <1>3
      <3> QED
        BY <3>1
    <2>2. ((i + 1) + d) * s = (i + 1) * s + d * s /\ d * s \in Nat
      BY Z3
    <2> QED
      BY <1>1, <2>1, <2>2
  <1> QED
    BY <1>1, <1>2, <1>3

LEMMA GridStart ==
    ASSUME NEW grid
    PROVE  OnGrid(grid, 0)
  <1>1. EpochFloor(0) = 0
    <2>1. EpochOf(0) = 0
      BY EpochStarts, EpochFound
    <2> QED
      BY <2>1, EpochStarts DEF EpochFloor
  <1>2. Stride(grid, 0) \in Nat
    <2>1. EpochOf(0) \in Nat
      BY EpochFound
    <2> QED
      BY <2>1, EpochSizes, StreamGridAssumption DEF Stride
  <1>3. 0 * Stride(grid, 0) = 0
    BY <1>2
  <1> QED
    BY <1>1, <1>3 DEF OnGrid, Floor

(* From a point of the grid a job reaches the next, within the epoch.      *)
LEMMA GridNext ==
    ASSUME NEW grid, NEW o \in Nat, OnGrid(grid, o)
    PROVE  /\ OnGrid(grid, JobEnd(grid, o))
           /\ \A p \in Nat : OnGrid(grid, p) /\ o < p => JobEnd(grid, o) <= p
           /\ grid # "fixed" => JobEnd(grid, o) <= EpochEnd(o)
  <1> DEFINE e == JobEnd(grid, o)
             s == Stride(grid, o)
             lo == Floor(grid, o)
  <1>1. e = o + s
    BY DEF JobEnd, Stride
  <1>2. EpochOf(o) \in Nat
    BY EpochFound
  <1>3. s \in Nat /\ s > 0 /\ lo \in Nat
    <2>1. EpochFloor(o) \in Nat
      BY JobAhead
    <2> QED
      BY <1>2, <2>1, EpochSizes, StreamGridAssumption DEF Stride, Floor
  <1>4. PICK i \in Nat : o = lo + i * s
    BY DEF OnGrid
  <1>5. e = lo + (i + 1) * s /\ i + 1 \in Nat /\ i * s \in Nat /\ e \in Nat /\ o < e
    BY <1>1, <1>3, <1>4, Multiples
  <1>6. CASE grid = "fixed"
    <2>1. \A p : Floor(grid, p) = lo /\ Stride(grid, p) = s
      BY <1>6 DEF Floor, Stride
    <2> HIDE DEF e, s, lo
    <2>2. OnGrid(grid, e)
      BY <1>5, <2>1 DEF OnGrid
    <2>3. ASSUME NEW p \in Nat, OnGrid(grid, p), o < p PROVE e <= p
      <3>1. PICK j \in Nat : p = lo + j * s
        BY <2>1, <2>3 DEF OnGrid
      <3>2. j * s \in Nat
        BY <1>3, Multiples
      <3>3. i * s < j * s
        BY <1>3, <1>4, <1>5, <2>3, <3>1, <3>2
      <3>4. i * s + s <= j * s
        BY <1>3, <3>3, Multiples
      <3> QED
        BY <1>1, <1>3, <1>4, <1>5, <3>1, <3>2, <3>4
    <2> QED
      BY <1>6, <2>2, <2>3 DEF e
  <1>7. CASE grid # "fixed"
    <2> DEFINE k == EpochOf(o)
               top == EpochLo[k + 1]
    <2>1. /\ k \in Nat /\ lo = EpochLo[k] /\ s = EpochSize[k] /\ lo <= o /\ o < top
          /\ top = lo + Burst * s /\ top \in Nat /\ EpochEnd(o) = top
      <3>1. lo = EpochLo[k] /\ s = EpochSize[k] /\ EpochEnd(o) = top
        BY <1>7 DEF Floor, Stride, EpochFloor, EpochEnd
      <3>2. k + 1 \in Nat
        BY <1>2
      <3> QED
        BY <1>2, <3>1, <3>2, EpochFound, EpochStarts
    <2>2. Burst \in Nat /\ Burst * s \in Nat
      <3>1. Burst \in Nat
        BY StreamGridAssumption
      <3> QED
        BY <1>3, <3>1, Multiples
    <2> HIDE DEF e, s, lo, k, top
    <2>3. e <= top
      <3>1. i * s < Burst * s
        BY <1>3, <1>4, <1>5, <2>1, <2>2
      <3>2. i * s + s <= Burst * s
        BY <1>3, <2>2, <3>1, Multiples
      <3> QED
        BY <1>1, <1>3, <1>4, <1>5, <2>1, <2>2, <3>2
    <2>4. ASSUME NEW p \in Nat, lo <= p, p < top PROVE Floor(grid, p) = lo /\ Stride(grid, p) = s
      <3>1. EpochOf(p) = k
        BY <2>1, <2>4, EpochUnique DEF top
      <3> QED
        BY <1>7, <2>1, <3>1 DEF Floor, Stride, EpochFloor
    <2>5. OnGrid(grid, e)
      <3>1. CASE e < top
        <4>1. lo <= e
          BY <1>3, <1>4, <1>5
        <4>2. Floor(grid, e) = lo /\ Stride(grid, e) = s
          BY <1>5, <2>4, <3>1, <4>1
        <4> QED
          BY <1>5, <4>2 DEF OnGrid
      <3>2. CASE e = top
        <4>1. k + 1 \in Nat /\ EpochLo[k + 1] <= e /\ e < EpochLo[(k + 1) + 1]
          <5>1. k + 1 \in Nat
            BY <2>1
          <5>2. EpochLo[k + 1] < EpochLo[(k + 1) + 1] /\ EpochLo[k + 1] \in Nat
            BY <5>1, EpochStarts
          <5> QED
            BY <3>2, <5>1, <5>2 DEF top
        <4>2. EpochOf(e) = k + 1
          BY <1>5, <4>1, EpochUnique
        <4>3. Floor(grid, e) = e
          BY <1>7, <3>2, <4>2 DEF Floor, EpochFloor, top
        <4>4. Stride(grid, e) \in Nat
          BY <1>7, <4>1, <4>2, EpochSizes DEF Stride
        <4>5. e = e + 0 * Stride(grid, e)
          BY <1>5, <4>4
        <4> QED
          BY <4>3, <4>5 DEF OnGrid
      <3> QED
        BY <1>5, <2>1, <2>3, <3>1, <3>2
    <2>6. ASSUME NEW p \in Nat, OnGrid(grid, p), o < p, p < e PROVE FALSE
      <3>1. lo <= p /\ p < top
        BY <1>3, <1>5, <2>1, <2>3, <2>6
      <3>2. Floor(grid, p) = lo /\ Stride(grid, p) = s
        BY <2>4, <3>1
      <3>3. PICK j \in Nat : p = lo + j * s
        BY <2>6, <3>2 DEF OnGrid
      <3>4. j * s \in Nat
        BY <1>3, Multiples
      <3>5. i * s < j * s
        BY <1>3, <1>4, <1>5, <2>6, <3>3, <3>4
      <3>6. i * s + s <= j * s
        BY <1>3, <3>5, Multiples
      <3> QED
        BY <1>1, <1>3, <1>4, <1>5, <2>6, <3>3, <3>4, <3>6
    <2>7. \A p \in Nat : OnGrid(grid, p) /\ o < p => e <= p
      BY <1>5, <2>6
    <2> QED
      BY <2>1, <2>3, <2>5, <2>7 DEF e
  <1> QED
    BY <1>6, <1>7

(* Epochs follow one another.                                              *)
LEMMA FloorsAscend ==
    ASSUME NEW o \in Nat, NEW p \in Nat, o <= p
    PROVE  EpochFloor(o) <= EpochFloor(p)
  <1> DEFINE d == EpochOf(o)
             e == EpochOf(p)
  <1>1. /\ d \in Nat /\ e \in Nat /\ EpochLo[d] <= o /\ o < EpochLo[d + 1]
        /\ EpochLo[e] <= p /\ p < EpochLo[e + 1]
    BY EpochFound
  <1>2. /\ EpochLo[d] \in Nat /\ EpochLo[e] \in Nat /\ EpochLo[d + 1] \in Nat /\ EpochLo[e + 1] \in Nat
        /\ EpochLo[d] < EpochLo[d + 1]
    BY <1>1, EpochStarts
  <1> HIDE DEF d, e
  <1>3. ~(e < d)
    <2> SUFFICES ASSUME e < d PROVE FALSE
      OBVIOUS
    <2>1. EpochLo[e + 1] <= EpochLo[d]
      BY <1>1, EpochsAscend
    <2> QED
      BY <1>1, <1>2, <2>1
  <1>4. CASE d = e
    BY <1>2, <1>4 DEF EpochFloor, d, e
  <1>5. CASE d < e
    <2>1. EpochLo[d + 1] <= EpochLo[e]
      BY <1>1, <1>5, EpochsAscend
    <2>2. EpochLo[d] <= EpochLo[e]
      BY <1>2, <2>1
    <2> QED
      BY <2>2 DEF EpochFloor, d, e
  <1> QED
    BY <1>1, <1>3, <1>4, <1>5

(* The end of an epoch is a floor.                                         *)
LEMMA EndIsFloor ==
    ASSUME NEW o \in Nat, NEW p \in Nat, EpochEnd(o) <= p
    PROVE  EpochEnd(o) <= EpochFloor(p)
  <1> DEFINE k == EpochOf(o) + 1
             e == EpochLo[k]
  <1>1. k \in Nat
    BY EpochFound
  <1>2. e \in Nat /\ EpochLo[k] < EpochLo[k + 1]
    BY <1>1, EpochStarts
  <1>3. EpochOf(e) = k
    BY <1>1, <1>2, EpochUnique
  <1>4. EpochFloor(e) = e /\ EpochEnd(o) = e
    BY <1>3 DEF EpochFloor, EpochEnd
  <1> HIDE DEF e, k
  <1> QED
    BY <1>2, <1>4, FloorsAscend

LEMMA MembersConcat ==
    ASSUME NEW c \in Seq(Nat), NEW d \in Seq(Nat)
    PROVE  Members(c \o d) = Members(c) \cup Members(d)
  <1>1. /\ Len(c) \in Nat /\ Len(d) \in Nat /\ c \o d \in Seq(Nat) /\ Len(c \o d) = Len(c) + Len(d)
        /\ \A i \in 1 .. Len(c) + Len(d) : (c \o d)[i] = IF i <= Len(c) THEN c[i] ELSE d[i - Len(c)]
    BY ConcatProperties
  <1>2. /\ DOMAIN c = 1 .. Len(c) /\ DOMAIN d = 1 .. Len(d)
        /\ DOMAIN (c \o d) = 1 .. Len(c) + Len(d)
    BY <1>1
  <1> DEFINE e == c \o d
  <1> HIDE DEF e
  <1>3. ASSUME NEW x \in Members(e) PROVE x \in Members(c) \cup Members(d)
    <2>1. PICK i \in 1 .. Len(c) + Len(d) : x = e[i]
      BY <1>2 DEF Members, e
    <2>2. CASE i <= Len(c)
      BY <1>1, <1>2, <2>1, <2>2 DEF Members, e
    <2>3. CASE ~(i <= Len(c))
      <3>1. i - Len(c) \in 1 .. Len(d)
        BY <1>1, <2>3
      <3> QED
        BY <1>1, <1>2, <2>1, <2>3, <3>1 DEF Members, e
    <2> QED
      BY <2>2, <2>3
  <1>4. ASSUME NEW i \in 1 .. Len(c) PROVE c[i] \in Members(e)
    <2>1. i \in 1 .. Len(c) + Len(d) /\ i <= Len(c)
      BY <1>1
    <2>2. e[i] = c[i]
      BY <1>1, <2>1 DEF e
    <2> QED
      BY <1>2, <2>1, <2>2 DEF Members, e
  <1>5. ASSUME NEW i \in 1 .. Len(d) PROVE d[i] \in Members(e)
    <2>1. Len(c) + i \in 1 .. Len(c) + Len(d) /\ ~(Len(c) + i <= Len(c)) /\ (Len(c) + i) - Len(c) = i
      BY <1>1
    <2>2. e[Len(c) + i] = d[i]
      BY <1>1, <2>1 DEF e
    <2> QED
      BY <1>2, <2>1, <2>2 DEF Members, e
  <1>6. Members(c) \cup Members(d) \subseteq Members(e)
    BY <1>2, <1>4, <1>5 DEF Members
  <1>7. Members(e) \subseteq Members(c) \cup Members(d)
    BY <1>3
  <1> QED
    BY <1>6, <1>7 DEF e

LEMMA MembersOne ==
    ASSUME NEW o \in Nat
    PROVE  <<o>> \in Seq(Nat) /\ Members(<<o>>) = {o}
  BY DEF Members

(* A walk from a point of the grid stops at each that follows.             *)
LEMMA WalkMembers ==
    ASSUME NEW grid, NEW hi \in Nat, NEW lo \in 0 .. hi, OnGrid(grid, lo)
    PROVE  Members(Walk(grid, lo, hi)) = {o \in lo .. hi : OnGrid(grid, o)} \cup {hi}
  <1> DEFINE Right(o) == {p \in o .. hi : OnGrid(grid, p)} \cup {hi}
             S == {n \in Nat : \A o \in 0 .. hi : hi - o <= n /\ OnGrid(grid, o)
                                   => Members(Walk(grid, o, hi)) = Right(o)}
  <1>1. ASSUME NEW o \in 0 .. hi, o = hi PROVE Members(Walk(grid, o, hi)) = Right(o)
    <2>1. Walk(grid, o, hi) = <<o>>
      <3>1. o \in Nat /\ o >= hi
        BY <1>1
      <3> HIDE DEF Right, S
      <3> QED
        BY <3>1, WalkUnrolls
    <2>2. Right(o) = {hi}
      BY <1>1
    <2> QED
      BY <1>1, <2>1, <2>2, MembersOne
  <1>2. 0 \in S
    <2>1. \A o \in 0 .. hi : hi - o <= 0 => o = hi
      OBVIOUS
    <2> HIDE DEF Right
    <2> QED
      BY <1>1, <2>1
  <1>3. ASSUME NEW n \in Nat, n \in S PROVE n + 1 \in S
    <2> SUFFICES ASSUME NEW o \in 0 .. hi, hi - o <= n + 1, OnGrid(grid, o)
                 PROVE  Members(Walk(grid, o, hi)) = Right(o)
      OBVIOUS
    <2>1. CASE o = hi
      BY <1>1, <2>1
    <2>2. CASE o < hi
      <3> DEFINE e == JobEnd(grid, o)
                 m == Least(e, hi)
      <3>1. e \in Nat /\ o < e /\ OnGrid(grid, e)
            /\ \A p \in Nat : OnGrid(grid, p) /\ o < p => e <= p
        BY JobAhead, GridNext
      <3>2. m \in 0 .. hi /\ o < m /\ m <= hi /\ (m = e \/ (m = hi /\ hi < e))
        BY <2>2, <3>1 DEF Least
      <3>3. Walk(grid, o, hi) = <<o>> \o Walk(grid, m, hi) /\ Walk(grid, m, hi) \in Seq(Nat)
        <4>1. o \in Nat /\ m \in Nat
          BY <3>2
        <4> QED
          BY <2>2, <4>1, WalkUnrolls
      <3>4. Members(Walk(grid, m, hi)) = Right(m)
        <4>1. CASE m = hi
          BY <1>1, <3>2, <4>1
        <4>2. CASE m # hi
          <5>1. OnGrid(grid, m)
            BY <3>1, <3>2, <4>2
          <5>2. hi - m <= n
            BY <3>2
          <5> HIDE DEF Right, m
          <5> QED
            BY <1>3, <3>2, <5>1, <5>2
        <4> QED
          BY <4>1, <4>2
      <3> HIDE DEF m, e
      <3>5. Members(Walk(grid, o, hi)) = {o} \cup Right(m)
        <4>1. o \in Nat
          OBVIOUS
        <4> DEFINE w == Walk(grid, m, hi)
        <4>2. <<o>> \in Seq(Nat) /\ Members(<<o>>) = {o}
          BY <4>1, MembersOne
        <4>3. w \in Seq(Nat) /\ Walk(grid, o, hi) = <<o>> \o w /\ Members(w) = Right(m)
          BY <3>3, <3>4
        <4> HIDE DEF Right, w, S
        <4>4. Members(<<o>> \o w) = Members(<<o>>) \cup Members(w)
          BY <4>2, <4>3, MembersConcat
        <4> QED
          BY <4>2, <4>3, <4>4
      <3>6. Right(o) \subseteq {o} \cup Right(m)
        <4> SUFFICES ASSUME NEW p \in o .. hi, OnGrid(grid, p), p # o PROVE p \in Right(m)
          OBVIOUS
        <4>1. p \in Nat /\ o < p
          OBVIOUS
        <4>2. e <= p
          BY <3>1, <4>1
        <4>3. m <= p
          BY <3>1, <3>2, <4>2
        <4> QED
          BY <3>2, <4>3
      <3>7. {o} \cup Right(m) \subseteq Right(o)
        BY <3>2
      <3> HIDE DEF Right
      <3> QED
        BY <3>5, <3>6, <3>7
    <2> QED
      BY <2>1, <2>2
  <1> HIDE DEF S
  <1>4. hi - lo \in S
    <2>1. Nat \subseteq S
      BY <1>2, <1>3, SetInduction
    <2> QED
      BY <2>1
  <1> HIDE DEF Right
  <1>5. Members(Walk(grid, lo, hi)) = Right(lo)
    BY <1>4 DEF S
  <1> QED
    BY <1>5 DEF Right

(* A frame cut from a point of the grid on, its beginning along the grid,  *)
(* is cut as it is when cut whole.                                         *)
LEMMA BoundsMembers ==
    ASSUME NEW grid \in {"fixed", "growing"}, NEW hi \in Nat, NEW lo \in 0 .. hi, OnGrid(grid, lo),
           grid = "growing" => lo <= EpochFloor(hi)
    PROVE  Members(Bounds(grid, 0, hi)) = GridTo(grid, lo) \cup Members(Bounds(grid, lo, hi))
  <1>1. OnGrid(grid, 0)
    BY GridStart
  <1>2. ASSUME NEW to \in Nat, lo <= to
        PROVE  Members(Walk(grid, 0, to)) = GridTo(grid, lo) \cup Members(Walk(grid, lo, to))
    <2>1. Members(Walk(grid, 0, to)) = {o \in 0 .. to : OnGrid(grid, o)} \cup {to}
      <3>1. 0 \in 0 .. to
        OBVIOUS
      <3> QED
        BY <1>1, <3>1, WalkMembers
    <2>2. Members(Walk(grid, lo, to)) = {o \in lo .. to : OnGrid(grid, o)} \cup {to}
      <3>1. lo \in 0 .. to
        BY <1>2
      <3> QED
        BY <3>1, WalkMembers
    <2>3. \A o : o \in 0 .. to <=> o \in 0 .. lo \/ o \in lo .. to
      BY <1>2
    <2> QED
      BY <2>1, <2>2, <2>3 DEF GridTo
  <1>3. CASE grid = "fixed"
    <2>1. \A a : Bounds(grid, a, hi) = Walk(grid, a, hi)
      BY <1>3 DEF Bounds
    <2> QED
      BY <1>2, <2>1
  <1>4. CASE grid = "growing"
    <2> DEFINE f == EpochFloor(hi)
    <2>1. f \in Nat /\ f <= hi /\ lo <= f
      BY <1>4, JobAhead
    <2>2. ASSUME NEW a \in 0 .. f
          PROVE  /\ Walk(grid, a, f) \in Seq(Nat)
                 /\ Bounds(grid, a, hi) = IF f < hi THEN Walk(grid, a, f) \o TailCuts(f, hi)
                                          ELSE Walk(grid, a, f)
      <3>1. Cuts(Walk(grid, a, f), a, f)
        BY <2>1, WalkCuts
      <3>2. Walk(grid, a, f)[Len(Walk(grid, a, f))] = f
        BY <3>1 DEF Cuts
      <3>3. Bounds(grid, a, hi) = LET walk == Walk(grid, a, f)
                                      from == walk[Len(walk)]
                                  IN  IF from < hi THEN walk \o TailCuts(from, hi) ELSE walk
        BY <1>4 DEF Bounds
      <3> QED
        BY <3>1, <3>2, <3>3 DEF Cuts
    <2>3. Members(Walk(grid, 0, f)) = GridTo(grid, lo) \cup Members(Walk(grid, lo, f))
      BY <1>2, <2>1
    <2>4. 0 \in 0 .. f /\ lo \in 0 .. f
      BY <2>1
    <2> HIDE DEF f
    <2>5. CASE f < hi
      <3>1. TailCuts(f, hi) \in Seq(Nat)
        BY <2>1, <2>5, TailCutsAscend
      <3>2. ASSUME NEW a \in 0 .. f
            PROVE  Members(Bounds(grid, a, hi)) = Members(Walk(grid, a, f)) \cup Members(TailCuts(f, hi))
        BY <2>2, <2>5, <3>1, MembersConcat
      <3> QED
        BY <2>3, <2>4, <3>2
    <2>6. CASE ~(f < hi)
      BY <2>2, <2>3, <2>4, <2>6
    <2> QED
      BY <2>5, <2>6
  <1> QED
    BY <1>3, <1>4

-----------------------------------------------------------------------------
(* Where the jobs of the frame as it will be read end.                     *)
Ends == {0} \cup {Hi(i) : i \in 1 .. Total}

(* A frame that is closed is cut as it is when cut whole ...               *)
WholeCut == finishing => Ends = Members(FrameCuts(Grid, pos))

(* ... one that is fed has the points of the grid up to where it is posted, *)
(* and on the growing grid no epoch that may yet be cut short ...           *)
AtGrid == ~finishing /\ hashed = jobStart =>
    /\ OnGrid(Grid, jobStart) /\ Ends = GridTo(Grid, jobStart)
    /\ Grid = "growing" => jobStart <= EpochFloor(pos)

(* ... and what is being posted is the next point, or the rest of the cuts. *)
NextCut == InPost /\ ret = "ready" =>
    /\ hashed = jobStart /\ plan[2] = JobEnd(Grid, jobStart)
    /\ Grid = "growing" => plan[2] <= EpochFloor(pos)
RestCut == InPost /\ ret = "encode" => Ends \cup Members(plan) = Members(FrameCuts(Grid, pos))

(* A flush that posts has moved the grid.                                  *)
Unmoved == ~(op = "flush" /\ (pc = "encode" \/ InPost))

Gridded == ~flushed => WholeCut /\ AtGrid /\ NextCut /\ RestCut /\ Unmoved

(* The frame gains an end where the checksum comes to stand.               *)
LEMMA EndsStep ==
    ASSUME StreamInv, Next
    PROVE  hashed \in Ends /\ Ends' = Ends \cup {hashed'}
  <1>1. Total \in Nat /\ hashed = IF Total = 0 THEN 0 ELSE Hi(Total)
    BY FrameStep DEF StreamInv, Chain
  <1>2. hashed \in Ends
    <2>1. Total # 0 => Total \in 1 .. Total
      BY <1>1
    <2> QED
      BY <1>1, <2>1 DEF Ends
  <1>3. CASE FrameSame /\ hashed' = hashed
    <2>1. Total' = Total /\ \A i \in 1 .. Total : Hi(i)' = Hi(i)
      BY <1>3 DEF FrameSame
    <2>2. {Hi(i)' : i \in 1 .. Total'} = {Hi(i) : i \in 1 .. Total}
      BY <2>1
    <2>3. Ends' = Ends
      BY <2>2 DEF Ends
    <2> QED
      BY <1>2, <1>3, <2>3
  <1>4. ASSUME NEW n \in Nat, NEW last \in BOOLEAN, FrameGrows(n, hashed, hashed', last)
        PROVE  Ends' = Ends \cup {hashed'}
    <2>1. n = Total + 1 /\ Total' = n /\ Hi(n)' = hashed' /\ \A i \in 1 .. Total : Hi(i)' = Hi(i)
      BY <1>4 DEF FrameGrows
    <2>2. \A i : i \in 1 .. n <=> i \in 1 .. Total \/ i = n
      BY <1>1, <2>1
    <2>3. {Hi(i)' : i \in 1 .. n} = {Hi(i) : i \in 1 .. Total} \cup {hashed'}
      BY <2>1, <2>2
    <2>4. Ends' = {0} \cup {Hi(i)' : i \in 1 .. n}
      BY <2>1 DEF Ends
    <2> QED
      BY <2>3, <2>4 DEF Ends
  <1> QED
    BY <1>2, <1>3, <1>4, FrameStep

(* What posts nothing leaves the offsets posted alone; after the close no  *)
(* input comes.                                                            *)
LEMMA OffsetsKept ==
    ASSUME StreamInv, Next, ~Push, ~EncodeInline
    PROVE  hashed' = hashed /\ jobStart' = jobStart /\ (finishing => pos' = pos)
  <1> DEFINE Goal == hashed' = hashed /\ jobStart' = jobStart /\ (finishing => pos' = pos)
  <1>1. finishing => pc # "feed"
    BY DEF StreamInv, Closed
  <1>2. CASE UNCHANGED <<mode, pledged, pos, jobStart, hashed>>
    BY <1>2
  <1>3. ASSUME NEW n \in Sources, PullOwned(n) PROVE Goal
    BY <1>3 DEF PullOwned
  <1>4. ASSUME NEW n \in 0 .. Step, FeedRead(n) PROVE Goal
    BY <1>1, <1>4 DEF FeedRead
  <1>5. CASE FeedWrite
    BY <1>1, <1>5 DEF FeedWrite
  <1> QED
    BY <1>2, <1>3, <1>4, <1>5, OffsetsLeft

LEMMA FinishingKept ==
    ASSUME StreamInv, Next, ~Push, ~EncodeInline, ~Begin
    PROVE  finishing' = finishing
  <1>1. ASSUME NEW S \in SUBSET Worker, SpawnFails(S) PROVE finishing' = finishing
    BY <1>1 DEF SpawnFails
  <1> QED
    BY <1>1, FrameLeft DEF Register, EncodeJobs, Drain, Drained, Settle

(* Only a flush that begins moves the grid; only a call that begins encodes. *)
LEMMA Begins ==
    ASSUME StreamInv, Next
    PROVE  /\ flushed' = flushed \/ (Begin /\ flushed' = (flushed \/ op = "flush"))
           /\ pc' = "encode" => Begin \/ (pc = "encode" /\ op' = op)
  <1> DEFINE Goal == /\ flushed' = flushed \/ (Begin /\ flushed' = (flushed \/ op = "flush"))
                     /\ pc' = "encode" => Begin \/ (pc = "encode" /\ op' = op)
  <1>0. /\ todo \in Nat
        /\ pc \in {"wait", "parked"} => ret \in {"space", "drain", "settle"}
    BY DEF StreamInv, Types, Control
  <1>1. ASSUME NEW n \in Chunks, Write(n) PROVE Goal
    BY <1>0, <1>1 DEF Write, Goto, Return, Resume, Unwind, frameVars
  <1>2. ASSUME NEW n \in Sources, PullOwned(n) PROVE Goal
    BY <1>0, <1>2 DEF PullOwned, Goto, Return, Resume, Unwind, frameVars
  <1>3. ASSUME Pull PROVE Goal
    BY <1>0, <1>3 DEF Pull, Goto, Return, Resume, Unwind, frameVars
  <1>4. ASSUME Flush PROVE Goal
    BY <1>0, <1>4 DEF Flush, Goto, Return, Resume, Unwind, frameVars
  <1>5. ASSUME Finish PROVE Goal
    BY <1>0, <1>5 DEF Finish, Goto, Return, Resume, Unwind, frameVars
  <1>6. ASSUME Drop PROVE Goal
    BY <1>0, <1>6 DEF Drop, Goto, Return, Resume, Unwind, frameVars
  <1>7. ASSUME NEW n \in 0 .. Step, FeedRead(n) PROVE Goal
    BY <1>0, <1>7 DEF FeedRead, Goto, Return, Resume, Unwind, frameVars
  <1>8. ASSUME NEW S \in SUBSET Worker, SpawnFails(S) PROVE Goal
    BY <1>0, <1>8 DEF SpawnFails, Goto, Return, Resume, Unwind, frameVars
  <1>9. ASSUME WaitLeave PROVE Goal
    BY <1>0, <1>9 DEF WaitLeave, Goto, Return, Resume, Unwind, frameVars
  <1>10. ASSUME FeedWrite PROVE Goal
    <2>1. CASE todo = 0
      BY <1>0, <1>10, <2>1 DEF FeedWrite, Goto, Return, Resume, Unwind, frameVars
    <2>2. CASE todo > 0 /\ Buffered = cap
      BY <1>0, <1>10, <2>2 DEF FeedWrite, Goto, Return, Resume, Unwind, frameVars
    <2>3. CASE todo # 0 /\ Buffered # cap
      BY <1>0, <1>10, <2>3 DEF FeedWrite, Goto, Return, Resume, Unwind, frameVars
    <2> QED
      BY <1>0, <2>1, <2>2, <2>3
  <1>11. ASSUME MakeSpaceWait PROVE Goal
    BY <1>0, <1>11 DEF MakeSpaceWait, Goto, Return, Resume, Unwind, frameVars
  <1>12. ASSUME CheckPoisoned PROVE Goal
    BY <1>0, <1>12 DEF CheckPoisoned, Goto, Return, Resume, Unwind, frameVars
  <1>13. ASSUME MakeSpace PROVE Goal
    BY <1>0, <1>13 DEF MakeSpace, Goto, Return, Resume, Unwind, frameVars
  <1>14. ASSUME PostReady PROVE Goal
    BY <1>0, <1>14 DEF PostReady, Goto, Return, Resume, Unwind, frameVars
  <1>15. ASSUME PostCheck PROVE Goal
    BY <1>0, <1>15 DEF PostCheck, Goto, Return, Resume, Unwind, frameVars
  <1>16. ASSUME Register PROVE Goal
    BY <1>0, <1>16 DEF Register, Goto, Return, Resume, Unwind, frameVars
  <1>17. ASSUME Push PROVE Goal
    BY <1>0, <1>17 DEF Push, Goto, Return, Resume, Unwind, frameVars
  <1>18. ASSUME Begin PROVE Goal
    BY <1>0, <1>18 DEF Begin, Goto, Return, Resume, Unwind, frameVars
  <1>19. ASSUME EncodeInline PROVE Goal
    BY <1>0, <1>19 DEF EncodeInline, Goto, Return, Resume, Unwind, frameVars
  <1>20. ASSUME EncodeJobs PROVE Goal
    BY <1>0, <1>20 DEF EncodeJobs, Goto, Return, Resume, Unwind, frameVars
  <1>21. ASSUME Drain PROVE Goal
    BY <1>0, <1>21 DEF Drain, Goto, Return, Resume, Unwind, frameVars
  <1>22. ASSUME Pending PROVE Goal
    BY <1>0, <1>22 DEF Pending, Goto, Return, Resume, Unwind, frameVars
  <1>23. ASSUME Drained PROVE Goal
    BY <1>0, <1>23 DEF Drained, Goto, Return, Resume, Unwind, frameVars
  <1>24. ASSUME Snapshot PROVE Goal
    BY <1>0, <1>24 DEF Snapshot, Goto, Return, Resume, Unwind, frameVars
  <1>25. ASSUME Progressed PROVE Goal
    BY <1>0, <1>25 DEF Progressed, Goto, Return, Resume, Unwind, frameVars
  <1>26. ASSUME SurfacePoison PROVE Goal
    BY <1>0, <1>26 DEF SurfacePoison, Goto, Return, Resume, Unwind, frameVars
  <1>27. ASSUME PayloadGone PROVE Goal
    BY <1>0, <1>27 DEF PayloadGone, Goto, Return, Resume, Unwind, frameVars
  <1>28. ASSUME Settle PROVE Goal
    BY <1>0, <1>28 DEF Settle, Goto, Return, Resume, Unwind, frameVars
  <1>29. ASSUME NEW w \in Worker, ServeQueue(w) PROVE Goal
    BY <1>29 DEF ServeQueue, callVars, frameVars
  <1>30. Goal
    <2> HIDE DEF Goal
    <2>1. ASSUME Call PROVE Goal
      BY <2>1, <1>1, <1>2, <1>3, <1>4, <1>5, <1>6 DEF Call
    <2>2. ASSUME InCall PROVE Goal
      BY <2>2, <1>7, <1>8, <1>9, <1>10, <1>11, <1>12, <1>13, <1>14, <1>15, <1>16, <1>17, <1>18, <1>19, <1>20, <1>21, <1>22, <1>23, <1>24, <1>25, <1>26, <1>27, <1>28 DEF InCall
    <2> QED
      BY <2>1, <2>2, <1>29 DEF Next
  <1> QED
    BY <1>30


LEMMA MembersTail ==
    ASSUME NEW c \in Seq(Nat), c # <<>>
    PROVE  Members(c) = {c[1]} \cup Members(Tail(c))
  <1> DEFINE n == Len(c)
             t == Tail(c)
  <1>1. /\ n \in Nat /\ n >= 1 /\ DOMAIN c = 1 .. n
        /\ t \in Seq(Nat) /\ Len(t) = n - 1 /\ DOMAIN t = 1 .. n - 1
        /\ \A i \in 1 .. n - 1 : t[i] = c[i + 1]
    <2>1. n \in Nat /\ n >= 1
      BY EmptySeq, LenProperties
    <2> QED
      BY <2>1, HeadTailProperties, LenProperties
  <1> HIDE DEF n, t
  <1>2. Members(c) = {c[i] : i \in 1 .. n} /\ Members(t) = {t[i] : i \in 1 .. n - 1}
    BY <1>1 DEF Members
  <1>3. ASSUME NEW i \in 1 .. n PROVE c[i] \in {c[1]} \cup {t[k] : k \in 1 .. n - 1}
    <2>1. CASE i = 1
      BY <2>1
    <2>2. CASE i # 1
      <3>1. i - 1 \in 1 .. n - 1 /\ (i - 1) + 1 = i
        BY <1>1, <2>2
      <3>2. t[i - 1] = c[i]
        BY <1>1, <3>1
      <3> QED
        BY <3>1, <3>2
    <2> QED
      BY <2>1, <2>2
  <1>4. ASSUME NEW i \in 1 .. n - 1 PROVE t[i] \in {c[k] : k \in 1 .. n}
    <2>1. i + 1 \in 1 .. n
      BY <1>1
    <2> QED
      BY <1>1, <2>1
  <1>5. c[1] \in {c[k] : k \in 1 .. n}
    <2>1. 1 \in 1 .. n
      BY <1>1
    <2> QED
      BY <2>1
  <1> QED
    BY <1>2, <1>3, <1>4, <1>5 DEF t

(* A frame posted up to a point of the grid has all points up to the next   *)
(* once its next job is posted.                                            *)
LEMMA GridGrows ==
    ASSUME NEW grid, NEW o \in Nat, OnGrid(grid, o)
    PROVE  GridTo(grid, JobEnd(grid, o)) = GridTo(grid, o) \cup {JobEnd(grid, o)}
  <1> DEFINE e == JobEnd(grid, o)
  <1>1. e \in Nat /\ o < e
    BY JobAhead
  <1>2. OnGrid(grid, e) /\ \A p \in Nat : OnGrid(grid, p) /\ o < p => e <= p
    BY GridNext
  <1> HIDE DEF e
  <1>3. ASSUME NEW p \in 0 .. e, OnGrid(grid, p) PROVE p \in 0 .. o \/ p = e
    <2>1. CASE o < p
      BY <1>1, <1>2, <1>3, <2>1
    <2>2. CASE ~(o < p)
      BY <1>1, <2>2
    <2> QED
      BY <2>1, <2>2
  <1>4. 0 .. o \subseteq 0 .. e /\ e \in 0 .. e
    BY <1>1
  <1>5. GridTo(grid, e) = GridTo(grid, o) \cup {e}
    BY <1>2, <1>3, <1>4 DEF GridTo
  <1> QED
    BY <1>5 DEF e

(* A frame at a point of the grid that no epoch cut short follows is cut    *)
(* there already.                                                          *)
LEMMA GridWhole ==
    ASSUME NEW grid \in {"fixed", "growing"}, NEW o \in Nat, OnGrid(grid, o),
           grid = "growing" => o <= EpochFloor(o)
    PROVE  Members(FrameCuts(grid, o)) = GridTo(grid, o)
  <1>1. o \in 0 .. o /\ o \in Nat /\ o >= o
    OBVIOUS
  <1>2. Bounds(grid, o, o) = <<o>>
    <2>1. CASE grid = "fixed"
      <3>1. Walk(grid, o, o) = <<o>>
        BY <1>1, WalkUnrolls
      <3> QED
        BY <2>1, <3>1 DEF Bounds
    <2>2. CASE grid = "growing"
      <3>1. EpochFloor(o) = o
        BY <2>2, JobAhead
      <3>2. Walk(grid, o, o) = <<o>>
        BY <1>1, WalkUnrolls
      <3>3. <<o>>[Len(<<o>>)] = o /\ ~(o < o)
        BY <1>1
      <3> QED
        BY <2>2, <3>1, <3>2, <3>3 DEF Bounds
    <2> QED
      BY <2>1, <2>2
  <1>3. Members(<<o>>) = {o}
    BY MembersOne
  <1>4. Members(Bounds(grid, 0, o)) = GridTo(grid, o) \cup Members(Bounds(grid, o, o))
    BY <1>1, BoundsMembers
  <1>5. o \in GridTo(grid, o)
    BY <1>1 DEF GridTo
  <1> QED
    BY <1>2, <1>3, <1>4, <1>5 DEF FrameCuts

-----------------------------------------------------------------------------
(* Each step keeps to the grid.                                            *)
GridFacts ==
    /\ pos \in Nat /\ jobStart \in Nat /\ hashed \in Nat /\ hashed <= pos /\ jobStart <= hashed
    /\ pos' \in Nat /\ pos <= pos' /\ jobStart' \in Nat
    /\ Grid \in {"fixed", "growing"} /\ Grid' = Grid
    /\ finishing \in BOOLEAN /\ finishing' \in BOOLEAN
    /\ hashed \in Ends /\ Ends' = Ends \cup {hashed'}

LEMMA GridFactsHold ==
    ASSUME StreamInv, Next
    PROVE  GridFacts
  <1>1. /\ pos \in Nat /\ jobStart \in Nat /\ hashed \in Nat /\ hashed <= pos /\ jobStart <= hashed
        /\ finishing \in BOOLEAN
    BY DEF StreamInv, Types, Buffer
  <1>2. pledged' = pledged /\ pos' \in Nat /\ pos <= pos' /\ jobStart' \in Nat
    BY OffsetsStep
  <1>3. finishing' \in BOOLEAN
    BY StreamStep DEF StreamInv, Types
  <1>4. Grid \in {"fixed", "growing"} /\ Grid' = Grid
    BY <1>2 DEF Grid
  <1> QED
    BY <1>1, <1>2, <1>3, <1>4, EndsStep DEF GridFacts

(* Before a call encodes or posts, all is posted that was absorbed.        *)
LEMMA PostedAll ==
    ASSUME StreamInv
    PROVE  /\ pc = "encode" => hashed = jobStart /\ ~finishing
           /\ pc = "ready" => hashed = jobStart /\ ~finishing /\ op \in {"write", "pull"}
           /\ pc = "begin" /\ ~poisoned => hashed = jobStart /\ ~finishing
           /\ pc = "begin" => ~finishing
           /\ InPost => ~finishing
  <1>1. pc = "ready" => op \in {"write", "pull"} /\ unwinds = 0
    BY DEF StreamInv, Control
  <1>2. pc \in {"encode", "ready", "begin"} => ~InPost /\ ~Waiting("settle")
    BY DEF InPost, Waiting
  <1>3. finishing => pc \notin {"ready", "begin", "encode"} /\ ~InPost
    BY DEF StreamInv, Closed
  <1>4. Absorbed
    BY DEF StreamInv
  <1> QED
    BY <1>1, <1>2, <1>3, <1>4 DEF Absorbed

(* What a call or a finish does once it posts the next job of the grid.    *)
LEMMA PushNext ==
    ASSUME StreamInv, Push, ret = "ready"
    PROVE  /\ Len(plan) = 2 /\ hashed' = plan[2] /\ jobStart' = plan[2] /\ finishing' = finishing
           /\ pos' = pos /\ pc' = "ready"
  <1>1. InPost
    BY DEF Push, InPost
  <1>2. Len(plan) = 2 /\ finishing \in BOOLEAN
    BY <1>1 DEF StreamInv, Planned, Types
  <1> QED
    BY <1>2 DEF Push

LEMMA PushRest ==
    ASSUME StreamInv, Push, ret = "encode", op # "flush"
    PROVE  /\ plan \in Seq(Nat) /\ Len(plan) > 1 /\ plan[1] = hashed /\ hashed < plan[2]
           /\ plan[2] = hashed' /\ plan[Len(plan)] = pos /\ pos' = pos /\ Len(plan) \in Nat
           /\ Len(plan) > 2 => /\ plan' = Tail(plan) /\ finishing' = finishing
                               /\ jobStart' = jobStart /\ ret' = ret /\ op' = op
           /\ ~(Len(plan) > 2) => finishing' = TRUE /\ pc' = "drain"
  <1>1. InPost
    BY DEF Push, InPost
  <1>2. Len(plan) > 1 /\ plan[Len(plan)] = pos /\ finishing \in BOOLEAN /\ plan \in Seq(Nat)
        /\ Len(plan) \in Nat
    BY <1>1, LenProperties DEF StreamInv, Planned, Types
  <1>3. plan[1] = hashed /\ plan[1] < plan[2]
    BY PushJob DEF StreamInv
  <1> QED
    BY <1>2, <1>3 DEF Push

LEMMA UnmovedStep ==
    ASSUME StreamInv, Next, ~flushed', Unmoved, ~flushed
    PROVE  Unmoved'
  <1>1. CASE PostReady
    <2>1. op \in {"write", "pull"}
      BY <1>1, PostedAll DEF PostReady
    <2>2. op' = op \/ op' = "none"
      BY <1>1 DEF PostReady, Return, Goto
    <2> QED
      BY <2>1, <2>2 DEF Unmoved
  <1>2. CASE EncodeJobs
    BY <1>2 DEF EncodeJobs, Unmoved
  <1>3. CASE Push
    BY <1>3 DEF Push, Unmoved, InPost
  <1>4. CASE ~PostReady /\ ~EncodeJobs /\ ~Push
    <2>1. InPost' => InPost /\ op' = op
      BY <1>4, PostKept
    <2>2. CASE Begin
      <3>1. op' = "flush" => pc' # "encode"
        BY <2>2 DEF Begin, Goto, Return
      <3>2. ~InPost
        BY <2>2 DEF Begin, InPost
      <3> QED
        BY <2>1, <3>1, <3>2 DEF Unmoved
    <2>3. CASE ~Begin
      BY <2>1, <2>3, Begins DEF Unmoved
    <2> QED
      BY <2>2, <2>3
  <1> QED
    BY <1>1, <1>2, <1>3, <1>4

LEMMA AtGridStep ==
    ASSUME StreamInv, Next, GridFacts, Unmoved, AtGrid, NextCut
    PROVE  AtGrid'
  <1>1. CASE Push /\ ret = "ready"
    <2>1. /\ jobStart' = plan[2] /\ hashed' = plan[2] /\ pos' = pos /\ finishing' = finishing
      BY <1>1, PushNext
    <2>2. InPost /\ ~finishing
      BY <1>1, PostedAll DEF Push, InPost
    <2>3. /\ hashed = jobStart /\ plan[2] = JobEnd(Grid, jobStart)
          /\ Grid = "growing" => plan[2] <= EpochFloor(pos)
      BY <1>1, <2>2 DEF NextCut
    <2>4. OnGrid(Grid, jobStart) /\ Ends = GridTo(Grid, jobStart)
      BY <2>2, <2>3 DEF AtGrid
    <2> DEFINE e == JobEnd(Grid, jobStart)
    <2>5. OnGrid(Grid, e) /\ GridTo(Grid, e) = GridTo(Grid, jobStart) \cup {e}
      BY <2>4, GridNext, GridGrows DEF GridFacts
    <2>6. jobStart' = e /\ Ends' = Ends \cup {e} /\ Grid' = Grid
      BY <2>1, <2>3 DEF GridFacts
    <2> HIDE DEF e
    <2>7. OnGrid(Grid', jobStart') /\ Ends' = GridTo(Grid', jobStart')
      BY <2>4, <2>5, <2>6
    <2>8. Grid' = "growing" => jobStart' <= EpochFloor(pos')
      BY <2>1, <2>3, <2>6
    <2> QED
      BY <2>7, <2>8 DEF AtGrid
  <1>2. CASE Push /\ ret # "ready"
    <2>1. InPost
      BY <1>2 DEF Push, InPost
    <2>2. ret = "encode" /\ op # "flush"
      BY <1>2, <2>1 DEF StreamInv, Planned, Unmoved
    <2>3. /\ hashed < hashed' /\ jobStart <= hashed
          /\ (jobStart' = jobStart \/ finishing' = TRUE)
      BY <1>2, <2>2, PushRest DEF GridFacts
    <2>4. hashed \in Nat /\ jobStart \in Nat /\ hashed' \in Nat
      BY OffsetsStep DEF GridFacts
    <2>5. finishing' \/ hashed' # jobStart'
      BY <2>3, <2>4
    <2> QED
      BY <2>5 DEF AtGrid
  <1>3. CASE EncodeInline
    <2>1. finishing'
      BY <1>3 DEF EncodeInline, Unmoved
    <2> QED
      BY <2>1 DEF AtGrid
  <1>4. CASE ~Push /\ ~EncodeInline
    <2>1. hashed' = hashed /\ jobStart' = jobStart /\ (finishing => finishing')
      BY <1>4, OffsetsKept, Sticky
    <2>2. SUFFICES ASSUME ~finishing', hashed = jobStart
                   PROVE  /\ OnGrid(Grid', jobStart') /\ Ends' = GridTo(Grid', jobStart')
                          /\ Grid' = "growing" => jobStart' <= EpochFloor(pos')
      BY <2>1 DEF AtGrid
    <2>3. /\ OnGrid(Grid, jobStart) /\ Ends = GridTo(Grid, jobStart)
          /\ Grid = "growing" => jobStart <= EpochFloor(pos)
      BY <2>1, <2>2 DEF AtGrid
    <2>4. Ends' = Ends /\ Grid' = Grid
      BY <2>1 DEF GridFacts
    <2>5. EpochFloor(pos) <= EpochFloor(pos') /\ EpochFloor(pos) \in Nat /\ EpochFloor(pos') \in Nat
      BY FloorsAscend, JobAhead DEF GridFacts
    <2>6. jobStart <= EpochFloor(pos) => jobStart <= EpochFloor(pos')
      BY <2>5 DEF GridFacts
    <2> QED
      BY <2>1, <2>3, <2>4, <2>6
  <1> QED
    BY <1>1, <1>2, <1>3, <1>4

LEMMA NextCutStep ==
    ASSUME StreamInv, Next, GridFacts, AtGrid, NextCut
    PROVE  NextCut'
  <1>1. CASE PostReady
    <2>1. pc = "ready" /\ hashed = jobStart /\ ~finishing
      BY <1>1, PostedAll DEF PostReady
    <2>2. hashed' = hashed /\ jobStart' = jobStart
      BY <1>1, OffsetsKept DEF PostReady, Push, EncodeInline
    <2>3. pos' = pos
      BY <1>1 DEF PostReady, frameVars
    <2> DEFINE job == JobEnd(Grid, jobStart)
               end == IF Grid = "growing" THEN Least(job, EpochEnd(jobStart)) ELSE job
    <2>4. CASE PostDue(end)
      <3>1. plan' = <<jobStart, end>>
        BY <1>1, <2>4 DEF PostReady
      <3>2. plan'[2] = end
        BY <3>1
      <3>3. CASE Grid = "fixed"
        BY <2>1, <2>2, <3>2, <3>3 DEF NextCut, GridFacts
      <3>4. CASE Grid = "growing"
        <4>1. EpochEnd(jobStart) <= pos
          <5>1. pos >= EpochEnd(jobStart)
            BY <2>4, <3>4 DEF PostDue
          <5>2. EpochEnd(jobStart) \in Nat
            BY JobAhead DEF GridFacts
          <5> QED
            BY <5>1, <5>2 DEF GridFacts
        <4>2. OnGrid(Grid, jobStart)
          BY <2>1 DEF AtGrid
        <4>3. job <= EpochEnd(jobStart)
          BY <3>4, <4>2, GridNext DEF GridFacts
        <4>4. job \in Nat /\ EpochEnd(jobStart) \in Nat
          BY JobAhead DEF GridFacts
        <4>5. EpochEnd(jobStart) <= EpochFloor(pos) /\ EpochFloor(pos) \in Nat
          BY <4>1, EndIsFloor, JobAhead DEF GridFacts
        <4> HIDE DEF job
        <4>6. end = job
          BY <3>4, <4>3, <4>4 DEF Least
        <4>7. job <= EpochFloor(pos)
          BY <4>3, <4>4, <4>5
        <4>8. plan'[2] = JobEnd(Grid', jobStart') /\ plan'[2] <= EpochFloor(pos')
          BY <2>2, <2>3, <3>2, <4>6, <4>7 DEF job, GridFacts
        <4> QED
          BY <2>1, <2>2, <4>8 DEF NextCut
      <3> QED
        BY <3>3, <3>4 DEF GridFacts
    <2>5. CASE ~PostDue(end)
      <3>1. ~InPost'
        BY <1>1, <2>5 DEF PostReady, Return, Goto, InPost
      <3> QED
        BY <3>1 DEF NextCut
    <2> QED
      BY <2>4, <2>5
  <1>2. CASE EncodeJobs
    BY <1>2 DEF EncodeJobs, NextCut
  <1>3. CASE Push
    <2>1. InPost
      BY <1>3 DEF Push, InPost
    <2>2. ret = "ready" => pc' = "ready"
      BY <1>3, PushNext
    <2>3. ret' = ret
      BY <1>3 DEF Push
    <2> QED
      BY <2>2, <2>3 DEF NextCut, InPost
  <1>4. CASE ~PostReady /\ ~EncodeJobs /\ ~Push
    <2>1. InPost' => InPost /\ UNCHANGED <<op, ret, plan, hashed>>
      BY <1>4, PostKept
    <2>2. InPost => ~EncodeInline /\ pos' = pos
      BY PostFed DEF EncodeInline, InPost
    <2>3. InPost => jobStart' = jobStart
      BY <1>4, <2>2, OffsetsKept
    <2> QED
      BY <2>1, <2>2, <2>3 DEF NextCut, GridFacts
  <1> QED
    BY <1>1, <1>2, <1>3, <1>4

LEMMA RestCutStep ==
    ASSUME StreamInv, Next, GridFacts, Unmoved, AtGrid, RestCut
    PROVE  RestCut'
  <1>1. CASE PostReady
    BY <1>1 DEF PostReady, RestCut, InPost, Return, Goto
  <1>2. CASE EncodeJobs
    <2>1. pc = "encode" /\ plan' = Bounds(Grid, jobStart, pos) /\ pos' = pos
      BY <1>2 DEF EncodeJobs
    <2>2. hashed = jobStart /\ ~finishing
      BY <2>1, PostedAll
    <2>3. /\ OnGrid(Grid, jobStart) /\ Ends = GridTo(Grid, jobStart)
          /\ Grid = "growing" => jobStart <= EpochFloor(pos)
      BY <2>2 DEF AtGrid
    <2>4. jobStart \in 0 .. pos
      BY <2>2 DEF GridFacts
    <2>5. Members(Bounds(Grid, 0, pos)) = GridTo(Grid, jobStart) \cup Members(Bounds(Grid, jobStart, pos))
      BY <2>3, <2>4, BoundsMembers DEF GridFacts
    <2>6. hashed' = hashed
      BY <1>2, OffsetsKept DEF EncodeJobs, Push, EncodeInline
    <2>7. Ends' = Ends
      BY <2>6 DEF GridFacts
    <2> DEFINE c == Bounds(Grid, jobStart, pos)
               f == Bounds(Grid, 0, pos)
    <2>8. plan' = c /\ FrameCuts(Grid', pos') = f
      BY <2>1 DEF FrameCuts, GridFacts
    <2> HIDE DEF c, f
    <2>9. Ends' \cup Members(c) = Members(f)
      BY <2>3, <2>5, <2>7 DEF c, f
    <2>10. Ends' \cup Members(plan') = Members(FrameCuts(Grid', pos'))
      BY <2>8, <2>9
    <2> QED
      BY <2>10 DEF RestCut
  <1>3. CASE Push /\ ret = "ready"
    BY <1>3, PushNext DEF RestCut, InPost
  <1>4. CASE Push /\ ret # "ready"
    <2>1. InPost
      BY <1>4 DEF Push, InPost
    <2>2. ret = "encode" /\ op # "flush"
      BY <1>4, <2>1 DEF StreamInv, Planned, Unmoved
    <2>3. /\ plan \in Seq(Nat) /\ Len(plan) > 1 /\ plan[1] = hashed /\ pos' = pos
          /\ plan[2] = hashed' /\ Len(plan) \in Nat
          /\ Len(plan) > 2 => plan' = Tail(plan)
          /\ ~(Len(plan) > 2) => pc' = "drain"
      BY <1>4, <2>2, PushRest
    <2>4. CASE Len(plan) > 2
      <3>1. plan # <<>>
        BY <2>3
      <3>2. Members(plan) = {plan[1]} \cup Members(Tail(plan))
        BY <2>3, <3>1, MembersTail
      <3>3. plan[2] \in Members(Tail(plan))
        <4>1. /\ Tail(plan) \in Seq(Nat) /\ Len(Tail(plan)) = Len(plan) - 1
              /\ \A i \in 1 .. Len(plan) - 1 : Tail(plan)[i] = plan[i + 1]
          BY <2>3, <3>1, HeadTailProperties
        <4>2. 1 \in 1 .. Len(plan) - 1 /\ 1 + 1 = 2
          BY <2>3
        <4>3. Tail(plan)[1] = plan[2] /\ 1 \in DOMAIN Tail(plan)
          <5>1. DOMAIN Tail(plan) = 1 .. Len(plan) - 1
            BY <4>1
          <5> QED
            BY <4>1, <4>2, <5>1
        <4> QED
          BY <4>3 DEF Members
      <3>4. Ends \cup Members(plan) = Members(FrameCuts(Grid, pos))
        BY <2>1, <2>2 DEF RestCut
      <3>5. Ends' = Ends \cup {plan[2]} /\ plan[1] \in Ends
        BY <2>3 DEF GridFacts
      <3>6. Ends' \cup Members(Tail(plan)) = Members(FrameCuts(Grid, pos))
        BY <3>2, <3>3, <3>4, <3>5
      <3>7. Ends' \cup Members(plan') = Members(FrameCuts(Grid', pos'))
        BY <2>3, <2>4, <3>6 DEF GridFacts
      <3> QED
        BY <3>7 DEF RestCut
    <2>5. CASE ~(Len(plan) > 2)
      BY <2>3, <2>5 DEF RestCut, InPost
    <2> QED
      BY <2>4, <2>5
  <1>5. CASE ~PostReady /\ ~EncodeJobs /\ ~Push
    <2>1. InPost' => InPost /\ UNCHANGED <<op, ret, plan, hashed>>
      BY <1>5, PostKept
    <2>2. InPost => pos' = pos
      BY PostFed
    <2>3. hashed' = hashed => Ends' = Ends
      BY DEF GridFacts
    <2> QED
      BY <2>1, <2>2, <2>3 DEF RestCut, GridFacts
  <1> QED
    BY <1>1, <1>2, <1>3, <1>4, <1>5

LEMMA WholeCutStep ==
    ASSUME StreamInv, Next, GridFacts, Unmoved, WholeCut, AtGrid, RestCut
    PROVE  WholeCut'
  <1>0. ASSUME Ends' = Members(FrameCuts(Grid, pos)), pos' = pos PROVE WholeCut'
    <2>1. Ends' = Members(FrameCuts(Grid', pos'))
      BY <1>0 DEF GridFacts
    <2> QED
      BY <2>1 DEF WholeCut
  <1>1. CASE finishing
    <2>1. ~Push /\ ~EncodeInline
      BY <1>1, PostedAll DEF Push, EncodeInline, InPost
    <2>2. hashed' = hashed /\ pos' = pos
      BY <1>1, <2>1, OffsetsKept
    <2>3. Ends' = Ends
      BY <2>2 DEF GridFacts
    <2> QED
      BY <1>0, <1>1, <2>2, <2>3 DEF WholeCut
  <1>2. CASE Push /\ ret = "ready"
    <2>1. ~finishing'
      BY <1>2, PushNext, PostedAll DEF Push, InPost
    <2> QED
      BY <2>1 DEF WholeCut
  <1>3. CASE Push /\ ret # "ready"
    <2>1. InPost
      BY <1>3 DEF Push, InPost
    <2>2. ret = "encode" /\ op # "flush" /\ ~finishing
      BY <1>3, <2>1, PostedAll DEF StreamInv, Planned, Unmoved
    <2>3. /\ plan \in Seq(Nat) /\ Len(plan) > 1 /\ plan[1] = hashed /\ pos' = pos
          /\ plan[2] = hashed' /\ Len(plan) \in Nat
          /\ Len(plan) > 2 => finishing' = finishing
      BY <1>3, <2>2, PushRest
    <2>4. CASE Len(plan) > 2
      BY <2>2, <2>3, <2>4 DEF WholeCut
    <2>5. CASE ~(Len(plan) > 2)
      <3>1. DOMAIN plan = {1, 2}
        <4>1. DOMAIN plan = 1 .. Len(plan)
          BY <2>3, LenProperties
        <4>2. Len(plan) = 2
          <5> DEFINE n == Len(plan)
          <5>1. n \in Nat /\ n > 1 /\ ~(n > 2)
            BY <2>3, <2>5
          <5> HIDE DEF n
          <5>2. n = 2
            BY <5>1
          <5> QED
            BY <5>2 DEF n
        <4> QED
          BY <4>1, <4>2
      <3>2. Members(plan) = {hashed, hashed'}
        BY <2>3, <3>1 DEF Members
      <3>3. Ends \cup Members(plan) = Members(FrameCuts(Grid, pos))
        BY <2>1, <2>2 DEF RestCut
      <3>4. Ends' = Members(FrameCuts(Grid, pos))
        BY <3>2, <3>3 DEF GridFacts
      <3> QED
        BY <1>0, <2>3, <3>4
    <2> QED
      BY <2>4, <2>5
  <1>4. CASE EncodeInline
    <2>1. pc = "encode" /\ pos' = pos /\ hashed' = pos /\ Len(Bounds(Grid, jobStart, pos)) = 2
      BY <1>4 DEF EncodeInline
    <2>2. hashed = jobStart /\ ~finishing
      BY <2>1, PostedAll
    <2>3. hashed < pos
      BY <2>1 DEF StreamInv, Closed
    <2>4. /\ OnGrid(Grid, jobStart) /\ Ends = GridTo(Grid, jobStart)
          /\ Grid = "growing" => jobStart <= EpochFloor(pos)
      BY <2>2 DEF AtGrid
    <2>5. jobStart \in 0 .. pos
      BY <2>2 DEF GridFacts
    <2> DEFINE c == Bounds(Grid, jobStart, pos)
    <2>6. Members(Bounds(Grid, 0, pos)) = GridTo(Grid, jobStart) \cup Members(c)
      BY <2>4, <2>5, BoundsMembers DEF GridFacts
    <2>7. Cuts(c, jobStart, pos)
      BY <2>2, <2>3, BoundsCut DEF GridFacts
    <2> HIDE DEF c
    <2>8. Len(c) = 2
      BY <2>1 DEF c
    <2>9. c \in Seq(Nat) /\ c[1] = jobStart /\ c[2] = pos
      BY <2>7, <2>8 DEF Cuts
    <2>10. DOMAIN c = {1, 2}
      BY <2>8, <2>9
    <2>11. Members(c) = {jobStart, pos}
      BY <2>9, <2>10 DEF Members
    <2>12. Ends' = Members(FrameCuts(Grid, pos))
      BY <2>1, <2>2, <2>4, <2>6, <2>11 DEF GridFacts, FrameCuts
    <2> QED
      BY <1>0, <2>1, <2>12
  <1>5. CASE Begin /\ ~finishing /\ finishing'
    <2>1. pc = "begin" /\ ~poisoned /\ ~(pos > jobStart) /\ pos' = pos /\ hashed' = hashed
      BY <1>5 DEF Begin
    <2>2. hashed = jobStart /\ pos = jobStart
      BY <2>1, PostedAll DEF GridFacts
    <2>3. /\ OnGrid(Grid, pos) /\ Ends = GridTo(Grid, pos)
          /\ Grid = "growing" => pos <= EpochFloor(pos)
      BY <1>5, <2>2 DEF AtGrid
    <2>4. Members(FrameCuts(Grid, pos)) = GridTo(Grid, pos)
      BY <2>3, GridWhole DEF GridFacts
    <2>5. Ends' = Ends
      BY <2>1 DEF GridFacts
    <2> QED
      BY <1>0, <2>1, <2>3, <2>4, <2>5
  <1>6. CASE ~finishing /\ ~finishing'
    BY <1>6 DEF WholeCut
  <1>7. ~finishing /\ finishing' => Push \/ EncodeInline \/ Begin
    BY FinishingKept
  <1> QED
    BY <1>1, <1>2, <1>3, <1>4, <1>5, <1>6, <1>7

LEMMA GriddedStep ==
    ASSUME StreamInv, Gridded, Next
    PROVE  Gridded'
  <1>1. SUFFICES ASSUME ~flushed' PROVE WholeCut' /\ AtGrid' /\ NextCut' /\ RestCut' /\ Unmoved'
    BY DEF Gridded
  <1>2. flushed \in BOOLEAN
    BY DEF StreamInv, Types
  <1>3. ~flushed
    BY <1>1, <1>2, Begins
  <1>4. WholeCut /\ AtGrid /\ NextCut /\ RestCut /\ Unmoved
    BY <1>3 DEF Gridded
  <1>5. GridFacts
    BY GridFactsHold
  <1> QED
    BY <1>1, <1>3, <1>4, <1>5, UnmovedStep, AtGridStep, NextCutStep, RestCutStep, WholeCutStep

LEMMA GriddedInit ==
    ASSUME Init
    PROVE  Gridded
  <1>1. /\ pos = 0 /\ jobStart = 0 /\ hashed = 0 /\ finishing = FALSE /\ pc = "idle" /\ op = "none"
        /\ output = <<>> /\ jobs = <<>> /\ assembled = 0
    BY DEF Init
  <1>2. Total = 0
    <2>1. Len(output) = 0 /\ Len(jobs) = 0
      BY <1>1
    <2> QED
      BY <1>1, <2>1 DEF Total
  <1>3. Ends = {0}
    BY <1>2 DEF Ends
  <1>4. OnGrid(Grid, 0)
    BY GridStart
  <1>5. GridTo(Grid, 0) = {0}
    BY <1>4 DEF GridTo
  <1>6. EpochFloor(0) \in Nat
    BY JobAhead
  <1>7. AtGrid
    BY <1>1, <1>3, <1>4, <1>5, <1>6 DEF AtGrid
  <1> QED
    BY <1>1, <1>7 DEF Gridded, WholeCut, NextCut, RestCut, Unmoved, InPost

(* A finished frame that was never flushed is cut where it would be if its  *)
(* input were posted whole: how the input was chunked, which way it was     *)
(* fed and how large the buffer is make no difference, for every grid.      *)
THEOREM ChunkingSafe == Spec => []ChunkingIndependent
  <1>1. Init => StreamInv /\ Gridded
    BY StreamInit, GriddedInit
  <1>2. StreamInv /\ Gridded /\ [Next]_vars => (StreamInv /\ Gridded)'
    <2> SUFFICES ASSUME StreamInv, Gridded, [Next]_vars
                 PROVE  (StreamInv /\ Gridded)'
      OBVIOUS
    <2>1. CASE Next
      BY <2>1, StreamStep, GriddedStep
    <2>2. CASE UNCHANGED vars
      <3>1. StreamInv'
        BY <2>2, StreamStep
      <3>2. Gridded'
        BY <2>2 DEF vars, frameVars, queueVars, callVars, Gridded, WholeCut, AtGrid, NextCut, RestCut,
           Unmoved, InPost, Ends, Total, Hi, Grid
      <3> QED
        BY <3>1, <3>2
    <2> QED
      BY <2>1, <2>2
  <1>3. ASSUME StreamInv, Gridded, finished, ~flushed
        PROVE  LET cuts == FrameCuts(Grid, pos)
               IN  {0} \cup {output[i].hi : i \in DOMAIN output} = {cuts[i] : i \in DOMAIN cuts}
    <2>1. /\ output \in Seq(Part) /\ Len(output) \in Nat /\ Len(jobs) \in Nat
          /\ assembled = Len(jobs) /\ finishing
      BY <1>3 DEF StreamInv, Types, Closed
    <2>2. Total = Len(output) /\ DOMAIN output = 1 .. Len(output)
      BY <2>1 DEF Total
    <2>3. \A i \in 1 .. Len(output) : Hi(i) = output[i].hi
      BY DEF Hi
    <2>4. {Hi(i) : i \in 1 .. Total} = {output[i].hi : i \in DOMAIN output}
      BY <2>2, <2>3
    <2>5. Ends = Members(FrameCuts(Grid, pos))
      BY <1>3, <2>1 DEF Gridded, WholeCut
    <2> QED
      BY <2>4, <2>5 DEF Ends, Members
  <1>4. StreamInv /\ Gridded => ChunkingIndependent
    BY <1>3 DEF ChunkingIndependent
  <1> QED
    BY <1>1, <1>2, <1>4, PTL DEF Spec

=============================================================================
