----------------------------- MODULE SegmentPlan -----------------------------
(***************************************************************************)
(* Where the parallel decoder cuts a frame (decoding/mt.rs, scan) and what  *)
(* the staging of a segment starts from (prime_tables): a segment may start *)
(* at a block that describes every entropy table it could need, or anywhere *)
(* else after a replay of the last description of each table.  A table is   *)
(* named by the block that describes it.                                   *)
(***************************************************************************)
EXTENDS Integers, Sequences, SequencesExt

CONSTANTS
    HeaderLen,      \* of a block
    RampHead, MinMtInput, MinSegment, RecordBytes,
    MinPieceFrame, MaxPieceFrame,
    Predefined      \* the name of the tables the format fixes

(* Two of the three sequence streams; the third behaves like them.          *)
Streams == {"ll", "of"}
Axes == Streams \cup {"huf"}
Explicit == {"fse", "rle", "predefined"}

(* A block: its stored size, how its literals use the Huffman table (a raw  *)
(* or RLE block is "raw", one whose headers do not parse "bad"), the mode of *)
(* each stream ("absent" without sequences), and which description is       *)
(* malformed; then the input: frames and skippable frames.                 *)
Blocks ==
    [size : Nat \ {0}, lits : {"raw", "bad", "rebuild", "reuse", "ignore"},
     modes : [Streams -> Explicit \cup {"repeat", "absent"}], fault : {"", "huf", "fse"},
     literals : Nat, sequences : Nat]

FrameItem(blocks, pledge, trailer, fit) ==
    [kind |-> "frame", blocks |-> blocks, pledge |-> pledge, trailer |-> trailer, fit |-> fit]
SkipItem(len) == [kind |-> "skip", len |-> len]

None == 0

Length(blocks) == FoldLeft(LAMBDA n, b : n + HeaderLen + b.size, 0, blocks)

(* boundary_input: where each block's body starts.                          *)
Boundaries(blocks) ==
    FoldLeft(LAMBDA at, b : Append(at, Last(at) + b.size + HeaderLen), <<HeaderLen>>, blocks)

-----------------------------------------------------------------------------
(* probe_restart: how a block treats each table.                           *)
Probe(b) ==
    CASE b.lits = "bad" -> [huffman |-> "reuse", explicit |-> {}]
      [] b.lits = "raw" -> [huffman |-> "ignore", explicit |-> {}]
      [] OTHER          -> [huffman |-> b.lits, explicit |-> {s \in Streams : b.modes[s] \in Explicit}]

(* A cut before block i loses the Huffman table: the first later block that *)
(* does not ignore it must rebuild it.                                     *)
HuffmanUnneeded(blocks, i) ==
    \A j \in i + 1 .. Len(blocks) :
        Probe(blocks[j]).huffman = "reuse" =>
            \E k \in i + 1 .. j - 1 : Probe(blocks[k]).huffman = "rebuild"

(* Mutant of RestartCandidates: what follows a block that ignores the table *)
(* is not looked at.                                                       *)
RestartsAnywhere(blocks) ==
    {i \in DOMAIN blocks :
        Probe(blocks[i]).explicit = Streams /\ Probe(blocks[i]).huffman # "reuse"}

RestartCandidates(blocks) ==
    {i \in DOMAIN blocks :
        LET p == Probe(blocks[i])
        IN  /\ p.explicit = Streams
            /\ \/ p.huffman = "rebuild"
               \/ p.huffman = "ignore" /\ HuffmanUnneeded(blocks, i)}

-----------------------------------------------------------------------------
(* plan_frame_cuts: one cut for each rung of a ladder of targets.          *)
AdvanceTarget(next, target) ==
    IF next >= target THEN next + target
    ELSE IF 2 * next < target THEN 2 * next ELSE target

Distance(a, b) == IF a < b THEN b - a ELSE a - b

(* The block boundaries around the target, after the current start; of two *)
(* at the same distance the earlier one: None when the frame has none left. *)
NearestCut(at, n, start, next) ==
    LET pos   == CHOOSE p \in 1 .. n + 1 :
                    (\A i \in 1 .. p - 1 : at[i] < next) /\ (p <= n => at[p] >= next)
        cands == {c \in {pos - 1, pos} : start < c /\ c <= n}
    IN  IF cands = {} THEN None
        ELSE CHOOSE c \in cands :
                \A d \in cands : \/ Distance(at[c], next) < Distance(at[d], next)
                                 \/ Distance(at[c], next) = Distance(at[d], next) /\ c <= d

(* One turn of the loop: s.seen counts the restarts already passed over.    *)
Rung(s, at, n, restarts, target) ==
    LET seen == Len(SelectSeq(restarts, LAMBDA r : at[r] < s.next))
        past == IF seen < s.seen THEN s.seen ELSE seen
        r    == IF past < Len(restarts) THEN restarts[past + 1] ELSE None
        on   == [s EXCEPT !.next = AdvanceTarget(s.next, target), !.seen = past]
    IN  IF r # None /\ r > s.start /\ at[r] - s.next <= s.next \div 2
        THEN [on EXCEPT !.cuts = Append(@, r), !.start = r, !.seen = past + 1]
        ELSE IF s.next <= at[s.start] THEN on
        ELSE LET near == NearestCut(at, n, s.start, s.next)
             IN  IF near = None THEN [s EXCEPT !.open = FALSE]
                 ELSE [on EXCEPT !.cuts = Append(@, near), !.start = near]

Ladders == [next : Nat, start : Nat, seen : Nat, cuts : Seq(Nat), open : BOOLEAN]

PlanFrameCuts(blocks, restarts, target, ramp) ==
    LET climb[s \in Ladders] ==
            IF s.open /\ s.next < Length(blocks)
            THEN climb[Rung(s, Boundaries(blocks), Len(blocks), restarts, target)] ELSE s.cuts
    IN  climb[[next |-> IF ramp /\ RampHead < target THEN RampHead ELSE target,
               start |-> 1, seen |-> 0, cuts |-> <<>>, open |-> TRUE]]

(* ramp_eligible: a frame heavy in literals is cut finer at its head.       *)
RampEligible(blocks, workers) ==
    LET total(f(_)) == FoldLeft(LAMBDA n, b : n + f(b), 0, blocks)
    IN  /\ \A i \in DOMAIN blocks : blocks[i].lits # "bad"
        /\ workers > 1 /\ Length(blocks) > MinMtInput
        /\ total(LAMBDA b : b.literals) >= RecordBytes * total(LAMBDA b : b.sequences)

-----------------------------------------------------------------------------
(* EpochFold: the last block before c that described a table since the last *)
(* restart point; None: none did.                                          *)
Describes(b, axis) ==
    IF axis = "huf" THEN Probe(b).huffman = "rebuild" ELSE axis \in Probe(b).explicit

TablePrime(blocks, restarts, c) ==
    LET epoch == {r \in ToSet(restarts) : r < c}
        last(axis) ==
            LET by == {j \in 1 .. c - 1 : Describes(blocks[j], axis) /\ \A r \in epoch : r <= j}
            IN  IF by = {} THEN None ELSE CHOOSE j \in by : \A k \in by : k <= j
    IN  [axis \in Axes |-> last(axis)]

NoPrime == [axis \in Axes |-> None]

(* The segments between the cuts: one that starts at a restart point needs  *)
(* no table.                                                               *)
Between(blocks, restarts, starts) ==
    [k \in DOMAIN starts |->
        [first |-> starts[k],
         last  |-> IF k = Len(starts) THEN Len(blocks) ELSE starts[k + 1] - 1,
         prime |-> IF k = 1 \/ starts[k] \in ToSet(restarts) THEN NoPrime
                   ELSE TablePrime(blocks, restarts, starts[k])]]

CutAt(blocks, restarts, target, ramp) ==
    Between(blocks, restarts, <<1>> \o PlanFrameCuts(blocks, restarts, target, ramp))

Segments(blocks, target, ramp) ==
    CutAt(blocks, SetToSortSeq(RestartCandidates(blocks), <), target, ramp)

-----------------------------------------------------------------------------
(* The tables a decode carries (FSEScratch): of each stream the table built,*)
(* the accuracy the initial state is read with, the RLE symbol that hides   *)
(* it, and the packed form the decoder reads, which is rebuilt when stale.  *)
FreshStream == [table |-> None, log |-> None, rle |-> None, predefined |-> FALSE,
                ready |-> FALSE, valid |-> FALSE, packed |-> None]
FreshTables == [huf |-> None, fse |-> [s \in Streams |-> FreshStream]]

UpdateStream(st, mode, i) ==
    CASE mode = "fse" ->
            [st EXCEPT !.table = i, !.log = i, !.rle = None, !.predefined = FALSE,
                       !.valid = FALSE, !.ready = TRUE]
      [] mode = "rle" ->
            [st EXCEPT !.rle = i, !.predefined = FALSE, !.log = None, !.valid = FALSE,
                       !.ready = TRUE]
      [] mode = "predefined" /\ ~st.predefined ->
            [st EXCEPT !.table = Predefined, !.log = Predefined, !.rle = None,
                       !.predefined = TRUE, !.valid = FALSE, !.ready = TRUE]
      [] mode = "predefined" /\ st.predefined -> [st EXCEPT !.rle = None, !.ready = TRUE]
      [] OTHER -> st

(* maybe_update_fse_tables, for block i.                                   *)
UpdateFseTables(fse, b, i) == [s \in Streams |-> UpdateStream(fse[s], b.modes[s], i)]

PackTables(fse) ==
    [s \in Streams |->
        IF fse[s].valid THEN fse[s]
        ELSE [fse[s] EXCEPT !.valid = TRUE,
                            !.packed = IF fse[s].rle # None THEN fse[s].rle ELSE fse[s].table]]

(* The decode of block i: the tables it reads through, or the error.        *)
DecodeBlock(d, b, i) ==
    LET huf  == IF b.lits = "rebuild" THEN i ELSE d.tables.huf
        fse  == IF b.modes["ll"] = "absent" THEN d.tables.fse
                ELSE PackTables(UpdateFseTables(d.tables.fse, b, i))
        fails == \/ b.lits = "bad" \/ b.fault # ""
                 \/ b.lits = "reuse" /\ huf = None
                 \/ b.modes["ll"] # "absent" /\ \E s \in Streams : ~fse[s].ready
        reads == [read |-> "tables",
                  huf |-> IF b.lits \in {"rebuild", "reuse"} THEN huf ELSE None,
                  fse |-> [s \in Streams |-> IF b.modes[s] = "absent" THEN <<>>
                                             ELSE <<fse[s].packed, fse[s].log>>]]
    IN  IF ~d.ok THEN d
        ELSE IF b.lits = "raw" THEN [d EXCEPT !.outs = Append(@, [read |-> "nothing"])]
        ELSE IF fails THEN [d EXCEPT !.ok = FALSE, !.outs = Append(@, [read |-> "error"])]
        ELSE [d EXCEPT !.tables = [huf |-> huf, fse |-> fse], !.outs = Append(@, reads)]

(* prime_tables: the Huffman description, then the descriptions of the      *)
(* streams in block order, each block replayed once with all it describes.  *)
PrimeTables(blocks, prime) ==
    LET replayed == SetToSortSeq({prime[s] : s \in Streams} \ {None}, <)
        malformed == \/ prime["huf"] # None /\ blocks[prime["huf"]].fault = "huf"
                     \/ \E k \in DOMAIN replayed : blocks[replayed[k]].fault = "fse"
    IN  [ok |-> ~malformed, outs |-> IF malformed THEN <<[read |-> "error"]>> ELSE <<>>,
         tables |-> [huf |-> prime["huf"],
                     fse |-> FoldLeft(LAMBDA fse, i : UpdateFseTables(fse, blocks[i], i),
                                      FreshTables.fse, replayed)]]

DecodeSegment(blocks, seg) ==
    FoldLeft(LAMBDA d, i : DecodeBlock(d, blocks[i], i), PrimeTables(blocks, seg.prime),
             [k \in 1 .. seg.last - seg.first + 1 |-> seg.first + k - 1])

-----------------------------------------------------------------------------
(* scan: the plan of the whole input, or NoPlan, which sends it to the      *)
(* sequential decoder.  A frame's fit says what else scan holds against it:  *)
(* "dictionary", "window", or "cut" for a truncated or malformed one.       *)
NoPlan == [segments |-> <<>>, pledges |-> <<>>, single |-> -1]

ItemLength(item) ==
    IF item.kind = "skip" THEN item.len
    ELSE HeaderLen + Length(item.blocks) + (IF item.trailer THEN 1 ELSE 0)

InputLength(items) == FoldLeft(LAMBDA n, item : n + ItemLength(item), 0, items)

ScanItem(p, item, target, workers) ==
    IF item.kind = "skip" THEN [p EXCEPT !.skip = TRUE]
    ELSE [p EXCEPT
            !.segments = Append(@, Segments(item.blocks, target, RampEligible(item.blocks, workers))),
            !.pledges = Append(@, item.pledge),
            !.single = IF p.pledges = <<>> /\ ~p.skip THEN item.pledge ELSE -1]

Worthwhile(plan, len) ==
    \/ FoldLeft(LAMBDA n, segments : n + Len(segments), 0, plan.segments) >= 2
    \/ len < MinMtInput /\ plan.single \in MinPieceFrame .. MaxPieceFrame

Planned(items, target, workers) ==
    FoldLeft(LAMBDA p, item : ScanItem(p, item, target, workers), [skip |-> FALSE] @@ NoPlan, items)

Scan(items, workers) ==
    LET len    == InputLength(items)
        stride == len \div (2 * workers)
        fits   == \A k \in DOMAIN items : items[k].kind = "frame" => items[k].fit = ""
        plans  == {Planned(items, IF stride < MinSegment THEN MinSegment ELSE stride, workers)}
    IN  CHOOSE p \in {IF fits /\ Worthwhile(plan, len) THEN plan ELSE NoPlan : plan \in plans} : TRUE

-----------------------------------------------------------------------------
(* A frame cut into segments is decoded as the whole frame is: every block  *)
(* up to the first error reads through the very tables it reads through     *)
(* when one decoder goes over the frame from its start, and the first       *)
(* segment to fail, in order, is the one of the block that fails there; the *)
(* segments are the blocks of the frame, in order, none of them empty; and  *)
(* a size is pledged for the whole input only by its only frame.            *)
InOrder(results) ==
    FoldLeft(LAMBDA all, r : [outs |-> IF all.ok THEN all.outs \o r.outs ELSE all.outs,
                              ok |-> all.ok /\ r.ok],
             [outs |-> <<>>, ok |-> TRUE], results).outs

WholeFrame(blocks) == [first |-> 1, last |-> Len(blocks), prime |-> NoPrime]

DecodedAsWhole(blocks, segs) ==
    /\ InOrder([k \in DOMAIN segs |-> DecodeSegment(blocks, segs[k])])
          = DecodeSegment(blocks, WholeFrame(blocks)).outs
    /\ segs[1].first = 1 /\ segs[Len(segs)].last = Len(blocks)
    /\ \A k \in DOMAIN segs : segs[k].first <= segs[k].last
    /\ \A k \in 2 .. Len(segs) : segs[k].first = segs[k - 1].last + 1

SegmentsAsWhole(items, workers) ==
    LET frames == SelectSeq(items, LAMBDA item : item.kind = "frame")
    IN  \A plan \in {Scan(items, workers)} :
            /\ \A f \in DOMAIN plan.segments :
                    DecodedAsWhole(frames[f].blocks, plan.segments[f])
            /\ plan.single # -1 => Len(frames) = 1 /\ plan.pledges = <<plan.single>>
=============================================================================
