----------------------------- MODULE ParallelInputs -----------------------------
(* What the parallel executors are checked on: frames of segments on lanes, *)
(* frames for the pieces, frames for the bulk encoder.                      *)
EXTENDS LanePacking, FiniteSets, FiniteSetsExt, TLC

-----------------------------------------------------------------------------
(* The frame lanes: three frames of four segments on two lanes, and the     *)
(* shapes of two decodes that go wrong.                                     *)
FramesOfSegments == 0 :> 0 @@ 1 :> 0 @@ 2 :> 1 @@ 3 :> 2
Positions == 0 :> 0 @@ 1 :> 2 @@ 2 :> 3 @@ 3 :> 6 @@ 4 :> 7
Consecutive == 0 :> {0} @@ 1 :> {1, 2}

(* One segment per frame: three frames of 4, 10 and 3 units of output that *)
(* plan packs with LPT into two lanes (the execute path owns the wall).    *)
OneSegmentFrames == 0 :> 0 @@ 1 :> 1 @@ 2 :> 2
LptWeights == 0 :> 4 @@ 1 :> 10 @@ 2 :> 3
LptPositions == 0 :> 0 @@ 1 :> 4 @@ 2 :> 14 @@ 3 :> 17
Lpt == 0 :> {0, 2} @@ 1 :> {1}

(* Two frames, the first of four segments.                                 *)
FirstFrameOfFour == 0 :> 0 @@ 1 :> 0 @@ 2 :> 0 @@ 3 :> 0 @@ 4 :> 1
LanePerFrameOfTwo == 0 :> {0} @@ 1 :> {1}
UnitPositions == 0 :> 0 @@ 1 :> 1 @@ 2 :> 2 @@ 3 :> 3 @@ 4 :> 4 @@ 5 :> 5

(* The lanes above are those the packing produces.                         *)
ASSUME LanesArePacked ==
    /\ \A l \in 0 .. 1 : Consecutive[l] = GroupConsecutive(3, 2)[l + 1]
    /\ \A l \in 0 .. 1 : Lpt[l] = GroupLpt(LptWeights, 2)[l + 1]
    /\ \A l \in 0 .. 1 : LanePerFrameOfTwo[l] = GroupConsecutive(2, 2)[l + 1]

MaxWrong == 2

(* How many things are wrong with an input.                                *)
WrongThings(staging, exec, csumOk, pledgeOk) ==
    Cardinality({s \in DOMAIN staging : staging[s] # "ok"})
        + Cardinality({s \in DOMAIN exec : exec[s] # "ok"})
        + Cardinality({f \in DOMAIN csumOk : ~csumOk[f]}) + (IF pledgeOk THEN 0 ELSE 1)

-----------------------------------------------------------------------------
(* Frames for Pieces: three segments, 12 units pledged, so that the         *)
(* candidate jobs are 3 and 6: grids of four and of two pieces.  The frames *)
(* vary where blocks start, how far matches reach, whether one repeats an   *)
(* offset of the piece before, and whether the staged output exceeds or     *)
(* misses the pledge, so that either grid wins, or none.                    *)
RepOffset == -1
B(out, off) == [out |-> out, off |-> off, exec |-> "ok"]
Bad(out, how) == [out |-> out, off |-> 0, exec |-> how]

TableOf(segs) ==
    LET blocks == FlattenSeq([s \in DOMAIN segs |-> [i \in DOMAIN segs[s] |-> <<s, segs[s][i]>>]])
        before(i) == MapThenSumSet(LAMBDA x : blocks[x][2].out, 1 .. i - 1)
    IN  [i \in DOMAIN blocks |->
            [seg |-> blocks[i][1], start |-> before(i), out |-> blocks[i][2].out,
             off |-> blocks[i][2].off, exec |-> blocks[i][2].exec]]

Pledged(segs) == [fcs |-> 12, nSeg |-> Len(segs), table |-> TableOf(segs)]

Aligned(a, b) == Pledged(<< <<B(3, 0), B(3, 0)>>, <<B(1, a), B(2, 1)>>, <<B(3, b)>> >>)

PieceFrames ==
    {Aligned(RepOffset, 8), Aligned(3, 4), Aligned(6, RepOffset), Aligned(6, 8)}
    \cup { Pledged(<< <<B(3, 0), B(4, 3)>>, <<B(2, 0)>>, <<B(3, 5)>> >>),
           Pledged(<< <<B(6, 0)>>, <<B(6, 6)>>, <<B(0, 0)>> >>),
           Pledged(<< <<B(6, 0)>>, <<B(6, 0)>>, <<B(1, 0)>> >>),
           Pledged(<< <<B(6, 0)>>, <<B(3, 6), B(2, 0)>>, <<B(0, 0)>> >>),
           Pledged(<< <<B(3, 0)>>, <<B(3, 3), B(3, 6)>>, <<Bad(3, "err")>> >>),
           Pledged(<< <<B(3, 0)>>, <<Bad(3, "panic"), B(3, 0)>>, <<B(3, 0)>> >>) }

-----------------------------------------------------------------------------
(* Frames for BulkMt: four to six jobs of two units, one frame of each      *)
(* long-distance class, with the freeze points, the feed's candidates and   *)
(* the panics varied.                                                       *)
Nobody == -2
Feed == -1

In(row, len, window, reach) ==
    [len |-> len, workers |-> 2, row |-> row, window |-> window, reach |-> reach, ldm |-> "auto",
     dict |-> FALSE, parses |-> TRUE, far |-> TRUE, wide |-> FALSE, probe |-> "keep"]

Bulk(in, freezes, seqs, panics) == [in |-> in, freezes |-> freezes, seqs |-> seqs, panics |-> panics]

Seqs == << [split |-> 1, offset |-> 9], [split |-> 3, offset |-> 2], [split |-> 3, offset |-> 5],
           [split |-> 5, offset |-> 4] >>

Whole == In("chain", 10, 7, 2)
Chain == In("chain", 12, 8, 2)
Opt   == In("opt", 6, 5, 2)

BulkFrames ==
    {Bulk(Whole, {1, 2, 3, 4}, <<>>, p) : p \in {Nobody, 0, 3, 4}}
    \cup {Bulk([Whole EXCEPT !.dict = TRUE], {1, 2, 3, 5}, <<>>, Nobody)}
    \cup {Bulk([Whole EXCEPT !.probe = "shrink"], {}, <<>>, p) : p \in {Nobody, 2}}
    \cup {Bulk(Chain, z, <<>>, Nobody) :
            z \in {1 .. 12, {1, 2, 3, 4, 5, 7, 8, 9, 10}, {1, 2, 3, 4, 5, 6, 9}, {1, 2, 3}, {}}}
    \cup {Bulk(Chain, {1, 2, 3, 4, 5, 6, 7}, <<>>, p) : p \in {4, 5}}
    \cup {Bulk(Opt, {}, Seqs, p) : p \in {Nobody, Feed, 1}}
    \cup {Bulk(In("fast", 8, 4, 2), {}, <<>>, Nobody)}
    \cup {Bulk(In("btlazy", 12, 8, 1), {}, <<>>, p) : p \in {Nobody, 1}}

(* The frame whose shared prefix build finds no freeze in reach.            *)
BuildlessFrames == {Bulk(Whole, {1, 2}, <<>>, Nobody)}
=============================================================================
