---------------------------- MODULE LanePacking ----------------------------
(***************************************************************************)
(* How the lane budget packs the frames of a decode into lanes             *)
(* (decoding/lane_budget.rs).  Frames are numbered from 0, lanes from 1; a *)
(* lane is the set of its frames, which it executes in ascending order.    *)
(***************************************************************************)
EXTENDS Integers, Sequences, FiniteSets, SequencesExt, FiniteSetsExt

(* n frames split into equal-count runs, in scan order.                    *)
GroupConsecutive(n, lanes) ==
    [l \in 1 .. lanes |->
        {f \in 0 .. n - 1 : ((l - 1) * n) \div lanes <= f /\ f < (l * n) \div lanes}]

(* Frames are packed by descending weight, ties by index.                  *)
Before(weights, f, g) == weights[f] > weights[g] \/ (weights[f] = weights[g] /\ f < g)

LaneWeight(weights, group) == MapThenSumSet(LAMBDA f : weights[f], group)

(* The first of the lightest lanes.                                        *)
Lightest(weights, groups) ==
    CHOOSE l \in DOMAIN groups : \A k \in DOMAIN groups :
        \/ LaneWeight(weights, groups[l]) < LaneWeight(weights, groups[k])
        \/ LaneWeight(weights, groups[l]) = LaneWeight(weights, groups[k]) /\ l <= k

(* Lane l takes frame f.                                                   *)
Pack(groups, l, f) == [groups EXCEPT ![l] = @ \union {f}]

(* Lanes in the order of their first frame; empty lanes last.              *)
ByFirstFrame(groups) ==
    LET heads == {Min(groups[l]) : l \in {k \in DOMAIN groups : groups[k] # {}}}
        holding(f) == CHOOSE l \in DOMAIN groups : f \in groups[l]
        nth(l) == CHOOSE f \in heads : Cardinality({g \in heads : g < f}) = l - 1
    IN [l \in DOMAIN groups |-> IF l <= Cardinality(heads) THEN groups[holding(nth(l))] ELSE {}]

(* Each frame, the heaviest first, lands in the lightest lane.             *)
GroupLpt(weights, lanes) ==
    LET frames == DOMAIN weights
        nth(i) == CHOOSE f \in frames : Cardinality({g \in frames : Before(weights, g, f)}) = i - 1
        packed[i \in 0 .. Cardinality(frames)] ==
            IF i = 0 THEN [l \in 1 .. lanes |-> {}]
            ELSE CHOOSE next \in {Pack(groups, Lightest(weights, groups), nth(i)) :
                                      groups \in {packed[i - 1]}} : TRUE
    IN CHOOSE lpt \in {ByFirstFrame(groups) : groups \in {packed[Cardinality(frames)]}} : TRUE

=============================================================================
