------------------------------ MODULE MCParts ------------------------------
(***************************************************************************)
(* The components that run on one thread and share nothing, checked side   *)
(* by side: a behaviour is one of them at work (part says which) while the *)
(* others stand still.  FlatWindow, RingWindow, CStream and FrameSession,  *)
(* which SerialProofs proves about, are extended, and wait in an initial   *)
(* state; the others are instanced; a part that is a function of its input *)
(* (given) answers in one step.  First the inputs each component is        *)
(* checked on, then the composition.                                       *)
(***************************************************************************)
EXTENDS FlatWindow, RingWindow, CStream, FrameSession, Integers, Sequences, TLC, SequencesExt, FiniteSets, FiniteSetsExt

-----------------------------------------------------------------------------
(* FlatWindow: no pledge, and pledges below, at and above the cap.          *)
FlatPledges == {-1, 3, 9, 10, 14}

-----------------------------------------------------------------------------
(* LaneBudget: four frames, from empty to 8 MiB of output and from cheap to *)
(* expensive to stage, up to more workers than frames.                      *)
OutKiB == {0, 3072, 8192}
StagedKiB == {64, 9000}

-----------------------------------------------------------------------------
(* BulkGrid, in MiB: each row at its windows and reaches, from two jobs to  *)
(* beyond the largest job; a window is never twice as long as the input.    *)
Row(row, windows, reaches) == [row |-> row, windows |-> windows, reaches |-> reaches]
GridRows == {Row("fast", {1, 8}, {1}), Row("chain", {4, 16, 32, 64, 128}, {4}),
             Row("chain", {2}, {1, 2}), Row("btlazy", {8, 64}, {4}), Row("opt", {8, 64}, {4, 16})}

GridInputs ==
    UNION {UNION {{[len |-> n, workers |-> w, row |-> r.row, window |-> win, reach |-> reach,
             ldm |-> ldm, dict |-> d, parses |-> p, far |-> far, wide |-> wide, probe |-> v] :
               n \in {m \in {1, 2, 7, 8, 9, 16, 17, 33, 63, 65, 100, 300, 1025} :
                         win = 1 \/ win < 2 * m},
               w \in {1, 2, 3, 16}, reach \in r.reaches, ldm \in {"auto", "disable"},
               d \in BOOLEAN, p \in BOOLEAN,
               far \in IF r.row = "fast" THEN BOOLEAN ELSE {FALSE},
               wide \in IF r.row = "chain" THEN BOOLEAN ELSE {FALSE},
               v \in IF r.row = "chain" THEN {"keep", "shrink"} ELSE {"keep"}} : win \in r.windows} :
           r \in GridRows}

-----------------------------------------------------------------------------
(* SegmentPlan: frames of four blocks of every kind, and pairs of items.    *)
SB(size, lits, ll, of, fault) ==
    [size |-> size, lits |-> lits, modes |-> ("ll" :> ll) @@ ("of" :> of), fault |-> fault,
     literals |-> size, sequences |-> IF ll = "absent" THEN 0 ELSE 1]
PlanBlocks ==
    {SB(3, "raw", "absent", "absent", ""), SB(2, "bad", "absent", "absent", ""),
     SB(2, "rebuild", "fse", "fse", ""), SB(1, "rebuild", "rle", "repeat", ""),
     SB(3, "ignore", "fse", "fse", ""), SB(1, "ignore", "repeat", "fse", ""),
     SB(1, "reuse", "absent", "absent", ""), SB(2, "reuse", "predefined", "repeat", ""),
     SB(1, "ignore", "predefined", "predefined", ""), SB(1, "rebuild", "repeat", "repeat", ""),
     SB(1, "rebuild", "fse", "repeat", "fse")}
SI(blocks, pledge, trailer, fit) ==
    [kind |-> "frame", blocks |-> blocks, pledge |-> pledge, trailer |-> trailer, fit |-> fit]
SSkip == [kind |-> "skip", len |-> 2]
SF(blocks, pledge) == SI(blocks, pledge, TRUE, "")
PlanInputs ==
    {[items |-> <<SF(blocks, 9)>>, workers |-> 2] : blocks \in [1 .. 4 -> PlanBlocks]}
    \cup {[items |-> items, workers |-> 2] :
            items \in UNION {{<<SF(a, 9), SF(b, -1)>>, <<SSkip, SF(a, 9)>>, <<SF(a, 9), SSkip>>,
                              <<SF(b, 9)>>, <<SF(a, 4), SI(b, 4, FALSE, "window")>>} :
                                a \in [1 .. 2 -> PlanBlocks],
                                b \in {<<SB(2, "rebuild", "fse", "fse", "")>>,
                                       <<SB(3, "raw", "absent", "absent", "")>>}}}

-----------------------------------------------------------------------------
(* BitStream, in bytes of four bits: single writes that leave the container *)
(* everywhere, then codes that fill it by one round, two and a remainder.  *)
BitWrite(n) == [v |-> (2 ^ (n + 1)) \div 3, n |-> n]
BitBefores == {<<>>} \cup {<<BitWrite(n)>> : n \in {1, 2, 3, 4, 8, 13}}
              \cup {<<BitWrite(6), BitWrite(m)>> : m \in {7, 12, 13}}
              \cup {<<BitWrite(n), BitWrite(13), BitWrite(13)>> : n \in {3, 5}}
BitCode == ("a" :> [v |-> 1, n |-> 1]) @@ ("b" :> [v |-> 5, n |-> 3])
           @@ ("c" :> [v |-> 9, n |-> 4]) @@ ("d" :> [v |-> 0, n |-> 2])
HalfCode == ("a" :> [v |-> 1, n |-> 2]) @@ ("c" :> [v |-> 3, n |-> 2])
BitData == {[i \in 1 .. n |-> BitCode[p[i % 2]]] : n \in {0, 1, 3, 5, 7, 12}, p \in [0 .. 1 -> {"a", "b", "c", "d"}]}
           \cup {[i \in 1 .. n |-> HalfCode[p[i % 3]]] : n \in {4, 5, 9}, p \in [0 .. 2 -> {"a", "c"}]}
BitPatches == {[at |-> 2, n |-> 9, v |-> 346], [at |-> 4, n |-> 4, v |-> 6], [at |-> 3, n |-> 1, v |-> 0]}
BitInputs == {[before |-> b, codes |-> d, patches |-> BitPatches] : b \in BitBefores, d \in BitData}

-----------------------------------------------------------------------------
(* FseCodec: histograms of four symbols, from absent to dominant, and of   *)
(* twelve with a few unlike the rest; messages of a rare and a common one. *)
RtbTable == <<0, 473195, 504333, 520860, 550000, 700000, 750000, 830000>>
Histogram(q) == [i \in 0 .. Len(q) - 1 |-> q[i + 1]]
Counted(c) == {s \in DOMAIN c : c[s] > 0}
FseMessage(c, n) == [i \in 1 .. n |-> IF i % 3 = 0 THEN Max(DOMAIN c) ELSE Min(Counted(c))]
FseInput(c, low) ==
    [count |-> c, last |-> Max(DOMAIN c), maxLog |-> 6, lowFrom |-> low,
     messages |-> {FseMessage(c, n) : n \in {4, 5, 9}}]
FseQuads == {c \in {Histogram(q \o <<z>>) : q \in [1 .. 3 -> {0, 1, 9, 200}], z \in {1, 25}} :
                Cardinality(Counted(c)) > 1 /\ c[0] + c[1] + c[2] + c[3] > 2}
FseTwelves == {[i \in 0 .. 11 |-> IF i < k THEN a ELSE b] : k \in {1, 4, 9}, a \in {1, 2, 30}, b \in {1, 5, 17}}
FseInputs == {FseInput(c, 0) : c \in FseQuads \cup FseTwelves}
             \cup {FseInput(c, 1000) : c \in {d \in FseQuads : d[0] = 9}}

-----------------------------------------------------------------------------
(* HuffCodec: every histogram of five symbols, large uniform alphabets, and *)
(* ones whose tree is too deep for the cap.                                *)
HuffInputs ==
    {c \in [0 .. 4 -> {0, 1, 3, 8}] : Cardinality(Counted(c)) > 1 /\ c[4] > 0}
    \cup {[s \in 0 .. 31 |-> 3], [s \in 0 .. 19 |-> IF s < 2 THEN 50 ELSE 3],
          [s \in 0 .. 14 |-> IF s < 2 THEN 50 ELSE 3 + (s % 2)], [s \in 0 .. 9 |-> 1 + s * s],
          [s \in 0 .. 7 |-> 2 ^ s], [s \in 0 .. 11 |-> IF s < 3 THEN 40 ELSE 1 + (s % 2)]}

-----------------------------------------------------------------------------
(* LiteralsCodec: data of five kinds, in lengths below and above one       *)
(* stream, and pairs of blocks that share a table or not.                  *)
Symbols(n, kind) ==
    [i \in 1 .. n |-> CASE kind = "square" -> (i * i) % 5
                        [] kind = "mostly" -> IF i % 4 = 0 THEN i % 3 ELSE 3
                        [] kind = "mixed" -> (i * 7 + i \div 3) % 6
                        [] kind = "rare" -> IF i % 9 = 1 THEN 1 + ((i \div 9) % 5) ELSE 0
                        [] kind = "two" -> i % 2]
StreamInputs == {Symbols(n, kind) : n \in 8 .. 72, kind \in {"square", "mostly", "mixed", "rare", "two"}}
LBlock(n, kind, gate, seeded, small) ==
    [data |-> Symbols(n, kind), gate |-> gate, seeded |-> seeded, small |-> small]
BlocksInputs ==
    {[first |-> LBlock(n, k, gate, FALSE, small), second |-> LBlock(m, l, FALSE, seeded, small), paired |-> p] :
        n \in {6, 30, 70}, k \in {"square", "mostly", "rare"}, m \in {5, 40}, l \in {"square", "rare"},
        gate \in BOOLEAN, seeded \in BOOLEAN, small \in BOOLEAN, p \in BOOLEAN}

-----------------------------------------------------------------------------
(* FrameSession.                                                           *)
Fr(body, outs, bad, sum, size, trail, have, dict) ==
    [body |-> body, outs |-> outs, bad |-> bad, sum |-> sum, size |-> size, trail |-> trail,
     have |-> have, dict |-> dict]

SessionFrames ==
    {Fr(<<1, 1>>, <<2, 1>>, bad, sum, size, "none", have, dict) :
        bad \in {0, 2}, sum \in {"right", "wrong"}, size \in {"right", "wrong"},
        have \in {9, 12}, dict \in BOOLEAN}
    \cup {Fr(<<1, 0, 1>>, <<1, 0, 2>>, 0, "absent", size, "magic", 14, dict) :
            size \in {"absent", "wrong"}, dict \in BOOLEAN}

-----------------------------------------------------------------------------
(* FrameHunt: a magic of two bytes, a size field of one.                    *)
HFrame(body) == [kind |-> "frame", fields |-> <<1, 2>>, body |-> body]
HSkip(body) == [kind |-> "skip", fields |-> <<1>>, body |-> body]
HJunk == [kind |-> "junk", fields |-> <<>>, body |-> 0]

HLength(items) ==
    FoldLeft(LAMBDA sum, item : sum + 2 + FoldLeft(+, 0, item.fields) + item.body, 0, items)

HuntStreams ==
    UNION {[items : {items}, have : 0 .. HLength(items), single : BOOLEAN] :
              items \in {<<HFrame(1), HSkip(2), HFrame(1)>>, <<HSkip(1), HFrame(2), HSkip(0), HSkip(3)>>,
                         <<HSkip(0)>>, <<>>, <<HFrame(0), HJunk>>}}

-----------------------------------------------------------------------------
(* StreamCore: blocks of up to two bytes; a pledge of four, or none.        *)
Cuts(a, b) == [p \in 0 .. 5 |-> IF p = a THEN b ELSE 2]
CoreFrames ==
    [pledged : {-1, 4}, head : {"none"}, cut : {Cuts(0, 1), Cuts(0, 2)}, checksum : {TRUE}]
    \cup [pledged : {4}, head : {"shrink"}, cut : {Cuts(2, 1)}, checksum : {FALSE}]
    \cup [pledged : {-1}, head : {"stock", "wide"}, cut : {Cuts(0, 2)}, checksum : {FALSE}]

-----------------------------------------------------------------------------
(* PushDecode: frames with a body of blocks, skippable frames, junk.        *)
PF(head, body, outs, summed, bad) ==
    [kind |-> "frame", head |-> head, body |-> body, outs |-> outs, summed |-> summed, bad |-> bad]
PSkip(n) == [kind |-> "skip", head |-> 3, body |-> <<n>>, outs |-> <<0>>, summed |-> FALSE, bad |-> 0]
PJunk == [kind |-> "junk", head |-> 2, body |-> <<>>, outs |-> <<>>, summed |-> FALSE, bad |-> 0]
PushFeeds ==
    {<<PF(3, <<1, 0>>, <<2, 1>>, TRUE, 0), PSkip(1), PF(3, <<2>>, <<0>>, FALSE, 0)>>,
     <<PF(4, <<1>>, <<3>>, FALSE, 0), PF(3, <<1, 1>>, <<1, 2>>, TRUE, 2)>>,
     <<PSkip(0), PF(3, <<1>>, <<1>>, TRUE, 0), PJunk>>}

-----------------------------------------------------------------------------
(* DStream: frames whose last block is not empty, or without a checksum.   *)
DB(wire, c, out) == [wire |-> wire, c |-> c, out |-> out]
DF(head, blocks, summed, sized) ==
    [kind |-> "frame", head |-> head, blocks |-> blocks, summed |-> summed, sized |-> sized, content |-> 0]
DSkip(n) == [kind |-> "skip", head |-> 3, blocks |-> <<>>, summed |-> FALSE, sized |-> FALSE, content |-> n]
DFeed(s, may) == [feed |-> s, calls |-> may]
DWorlds ==
    {DFeed(<<DF(3, <<DB("raw", 2, 2), DB("cmp", 1, 3)>>, TRUE, FALSE), DSkip(2),
             DF(4, <<DB("rle", 1, 2)>>, FALSE, FALSE)>>, {"load", "prefix", "initDStream"}),
     DFeed(<<DF(4, <<DB("raw", 0, 0), DB("raw", 2, 2)>>, FALSE, TRUE),
             DF(3, <<DB("cmp", 2, 2), DB("raw", 0, 0)>>, FALSE, FALSE)>>, {"load", "initDStream"}),
     DFeed(<<DSkip(0), DF(3, <<DB("cmp", 2, 1)>>, TRUE, TRUE)>>, {"load", "initDStream"})}

-----------------------------------------------------------------------------
(* CliFiles: the directories d, e and f with the files a and b, plain or    *)
(* packed, and the command lines over them.                                 *)
P(d, s, x) == <<d, s, x>>
A == P("d", "a", <<>>)    AZ == P("d", "a", <<"zst">>)    AZZ == P("d", "a", <<"zst", "zst">>)
B == P("e", "b", <<>>)    BZ == P("e", "b", <<"zst">>)
AllPaths == {P(d, s, x) : d \in {"d", "e", "f"}, s \in {"a", "b"},
              x \in {<<>>, <<"zst">>, <<"zst", "zst">>}}
D(k) == <<"data", k>>

Base == [mode |-> "compress", inputs |-> <<A, B>>, output |-> <<>>, stdout |-> FALSE, flat |-> "",
         force |-> FALSE, answer |-> "n", rm |-> FALSE, exclude |-> FALSE, pass_through |-> "unsaid",
         content_size |-> TRUE, stream_size |-> -1, adapt |-> FALSE, grows |-> FALSE,
         stdin |-> 5, inodes |-> 5]
Disk(named, contents) ==
    [names |-> [p \in AllPaths |-> IF p \in DOMAIN named THEN named[p] ELSE 0],
     data |-> [i \in 0 .. 5 |-> IF i \in DOMAIN contents THEN contents[i] ELSE <<>>]]
With(base, disk) ==
    [f \in DOMAIN base \cup DOMAIN disk |-> IF f \in DOMAIN disk THEN disk[f] ELSE base[f]]

Unpacked == Disk((A :> 2) @@ (B :> 3) @@ (BZ :> 4),
              (2 :> <<D(2), D(12)>>) @@ (3 :> <<D(3)>>) @@ (4 :> <<D(4)>>) @@ (5 :> <<D(5), D(15)>>))
Packed == Disk((AZ :> 2) @@ (B :> 3) @@ (BZ :> 4) @@ (AZZ :> 5),
               (2 :> <<<<"frame", <<D(2)>>>>, <<"skip">>, <<"frame", <<D(12)>>>>>>)
               @@ (3 :> <<D(3)>>) @@ (4 :> <<<<"frame", <<D(4)>>>>, <<"cut">>>>)
               @@ (5 :> <<<<"frame", <<D(5)>>>>, D(15)>>))

CliCommands ==
    {With([Base EXCEPT !.rm = rm, !.force = force, !.answer = ans, !.stdout = out, !.adapt = ad,
                       !.grows = gr, !.content_size = cs], Unpacked) :
        rm \in BOOLEAN, force \in BOOLEAN, ans \in {"n", "y"}, out \in BOOLEAN, ad \in BOOLEAN,
        gr \in BOOLEAN, cs \in BOOLEAN}
    \cup {With([Base EXCEPT !.rm = TRUE, !.flat = fl, !.exclude = ex, !.inputs = ins], Unpacked) :
            fl \in {"", "f"}, ex \in BOOLEAN, ins \in {<<A, A>>, <<A, BZ>>, <<B, A>>}}
    \cup {With([Base EXCEPT !.inputs = <<<<"stdin">>>>, !.stream_size = sz, !.output = out], Unpacked) :
            sz \in {-1, 1, 2}, out \in {<<>>, AZ, BZ}}
    \cup {With([Base EXCEPT !.mode = m, !.inputs = ins, !.rm = rm, !.stdout = out, !.force = force,
                            !.pass_through = pt], Packed) :
            m \in {"decompress", "test"}, ins \in {<<AZ, BZ>>, <<AZZ>>, <<B, AZ>>},
            rm \in BOOLEAN, out \in BOOLEAN, force \in BOOLEAN, pt \in {"unsaid", "yes", "no"}}

-----------------------------------------------------------------------------
(* MatchFinder: frames and jobs over few symbols, so that matches, repeated *)
(* offsets and collisions abound; a job's bytes before start are its strip. *)
MJob(kind, symbols, from, overlap) ==
    [kind |-> kind, bytes |-> symbols, start |-> from, overlap |-> overlap]
Once == <<0, 1, 2, 0, 1, 1, 0, 1, 2>>
Twice == <<1, 1, 0, 2, 1, 1, 0, 2>>
Strip == <<0, 1, 2, 0, 1, 2, 0, 1, 1, 0, 1, 2, 0>>
MatchJobs ==
    {MJob("frame", <<0, 1, 2, 0, 1, 1, 0, 1, 2, 0, 1, 1>>, 0, 0),
     MJob("frame", <<0, 1, 2, 3, 4, 5, 6, 0, 1, 2, 9, 4, 5, 6, 0, 1, 2, 7>>, 0, 0),
     MJob("frame", <<0, 1, 2, 3, 4, 5, 6, 7, 8, 0, 1, 2, 9, 9, 9, 6, 7, 8, 9>>, 0, 0),
     MJob("job", Once \o Twice \o <<2, 0, 1, 2>>, 9, 6),
     MJob("job", Twice \o Once \o <<0, 0, 0, 0, 0, 0>> \o Once, 8, 8),
     MJob("job", Strip \o Strip \o <<0, 1, 2, 0, 1>>, 13, 10)}
MatchHistories == {<<2, 3, 5>>}
StartHistory == <<1, 4, 8>>

-----------------------------------------------------------------------------
VARIABLES
    part,
    given,
    budget_out, staged, workers, lanes, budget, bytes, hunt_src, staging, hunt_pc, position,
    skippedAny, hserved, hunt_got, headers, hunt_verdict, fr, core_pos, emitted, core_feed,
    tail, probe, screen, arming, reach, output, outRead, blocks, closed, step, delivered,
    flushed, streams, enc, roll, commit_before, commit_dec, ahead, commit_phase, block,
    commit_part, cache, entered, misread, row, job, jobs, match_phase, match_blk, tab, scan,
    gap, fill, best, seqs, match_before, match_dec, shifted, ungated, push_feed, arrived,
    taken, inited, push_item, push_blk, made, sent, pushing, result, refused, cmd, names,
    data, turn, doing, target, cli_src, dst, cli_pledge, cli_at, dstream_feed, mayCall,
    inEnd, dstream_room, dstream_pos, cursor, callStart, stage, dstream_item, dstream_blk,
    rest, frame_open, engine, pre_released, pending, dstream_got, hostage, dstream_pc, hint,
    live, armed, slot, used, dstream_asked, calls

flatVars == vars
budgetVars == <<budget_out, staged, workers, lanes, budget>>
huntVars == <<bytes, hunt_src, staging, hunt_pc, position, skippedAny, hserved, hunt_got,
    headers, hunt_verdict>>
coreVars == <<fr, core_pos, emitted, core_feed, tail, probe, screen, arming, reach, output,
    outRead, blocks, closed, step, delivered, flushed, streams>>
commitVars == <<enc, roll, commit_before, commit_dec, ahead, commit_phase, block,
    commit_part, cache, entered, misread>>
matchVars == <<row, job, jobs, match_phase, match_blk, tab, scan, gap, fill, best, seqs,
    match_before, match_dec, shifted, ungated>>
pushVars == <<push_feed, arrived, taken, inited, push_item, push_blk, made, sent, pushing,
    result, refused>>
cliVars == <<cmd, names, data, turn, doing, target, cli_src, dst, cli_pledge, cli_at>>
dstreamVars == <<dstream_feed, mayCall, inEnd, dstream_room, dstream_pos, cursor, callStart,
    stage, dstream_item, dstream_blk, rest, frame_open, engine, pre_released, pending,
    dstream_got, hostage, dstream_pc, hint, live, armed, slot, used, dstream_asked, calls>>

Budget == INSTANCE LaneBudget WITH
    FrameCount <- 4, Outs <- OutKiB, Stageds <- StagedKiB, WorkerCounts <- {2, 4, 9},
    out <- budget_out

Hunt == INSTANCE FrameHunt WITH
    MagicLen <- 2, SkipSizeLen <- 1, MaxHeaderLen <- 5, Trash <- 2, Streams <- HuntStreams,
    src <- hunt_src, pc <- hunt_pc, got <- hunt_got, verdict <- hunt_verdict

Core == INSTANCE StreamCore WITH
    BlockSize <- 2, HeadSpan <- 4, StreamFrames <- CoreFrames, MaxLen <- 5, MaxStreams <- 2,
    pos <- core_pos, feed <- core_feed

Commit == INSTANCE BlockCommit WITH
    Streams <- {"ll", "of"}, Entries <- {"slice", "dictionary", "core", "core dictionary"},
    MaxBlocks <- 2, MaxParts <- 2, MaxEntries <- 2, before <- commit_before, dec <- commit_dec,
    phase <- commit_phase, part <- commit_part

Finder == INSTANCE MatchFinder WITH
    Rows <- {"fast", "chain"}, Jobs <- MatchJobs, MaxJobs <- 2, BlockLens <- {6, 9},
    Histories <- MatchHistories, FirstHistory <- StartHistory, Word <- 2, HashRead <- 3,
    MinLen <- 3, RepBonus <- 1, Ramp <- 4, LongMatch <- 3, ChainLong <- 5, Slots <- 4,
    ChainSize <- 8, Window <- 12, SearchDepth <- 2, LazyDepth <- 2, Stride <- 2, Retain <- 4,
    SeedAgree <- 1, SeedConfirms <- {4}, SeedMatches <- 2, SeedBudget <- 3, EpochSpan <- 12,
    EpochRoll <- 30, phase <- match_phase, blk <- match_blk, before <- match_before,
    dec <- match_dec

Push == INSTANCE PushDecode WITH
    MagicLen <- 2, BlockHeaderLen <- 2, TrailerLen <- 2, Feeds <- PushFeeds, Chunks <- {1, 2, 3,
    7}, Sinks <- {"all", "part"}, feed <- push_feed, item <- push_item, blk <- push_blk

Cli == INSTANCE CliFiles WITH
    Commands <- CliCommands, src <- cli_src, pledge <- cli_pledge, at <- cli_at

DStreamCalls == INSTANCE DStream WITH
    HEADER_PREFIX <- 2, FRAME_HEADER_MIN <- 3, BlockHeaderLen <- 2, TrailerLen <- 2,
    Worlds <- DWorlds, Inputs <- {0, 1, 3, 12}, Rooms <- {0, 1, 5}, MaxCalls <- 2,
    feed <- dstream_feed, room <- dstream_room, pos <- dstream_pos, item <- dstream_item,
    blk <- dstream_blk, got <- dstream_got, pc <- dstream_pc, asked <- dstream_asked

Grid == INSTANCE BulkGrid WITH
    MinMtInput <- 2, MinJobSize <- 1, MaxJobSize <- 1024, CaptureJobCap <- 16, ProbeSpan <- 2,
    ProbeMinFrame <- 8, KeepReach <- 4, ShrinkReach <- 0, LdmMidsizeWindow <- 32,
    LdmFullWindow <- 64, SpfMinPrefix <- 8, SpfSeg <- 1

Scanner == INSTANCE SegmentPlan WITH
    HeaderLen <- 1, RampHead <- 1, MinMtInput <- 6, MinSegment <- 2, RecordBytes <- 2,
    MinPieceFrame <- 5, MaxPieceFrame <- 10, Predefined <- 99

BitIO == INSTANCE BitStream WITH
    Byte <- 4, Container <- 16, Round <- 3, MaxCode <- 4, Nibble <- 3, Counter <- 5, Group <- 4

Lits == INSTANCE LiteralsCodec WITH
    MaxCode <- 5, LeastLog <- 3, PairLog <- 5, RawMost <- 16, FixBits <- 30, RtbBits <- 20,
    Rtb <- RtbTable, RawBits <- <<5, 12, 20>>, HuffBits <- <<6, 10, 14>>, OneStream <- 8,
    DescWeight <- 2, Word <- 3, Batch <- 3, TailBatch <- 3

ASSUME Assumptions ==
    /\ Budget!LaneBudgetAssumption
    /\ Hunt!FrameHuntAssumption
    /\ Core!StreamCoreAssumption /\ Grid!BulkGridAssumption /\ BitIO!BitStreamAssumption
    /\ GridInputs \subseteq Grid!FrameInputs

-----------------------------------------------------------------------------
(* A component that stands still.                                          *)
NoBudget ==
    /\ budget_out = 0 /\ staged = 0 /\ workers = 0 /\ lanes = 0 /\ budget = 0

NoHunt ==
    /\ bytes = 0 /\ hunt_src = 0 /\ staging = 0 /\ hunt_pc = 0 /\ position = 0 /\ skippedAny = 0
    /\ hserved = 0 /\ hunt_got = 0 /\ headers = 0 /\ hunt_verdict = 0

NoCore ==
    /\ fr = 0 /\ core_pos = 0 /\ emitted = 0 /\ core_feed = 0 /\ tail = 0 /\ probe = 0
    /\ screen = 0 /\ arming = 0 /\ reach = 0 /\ output = 0 /\ outRead = 0 /\ blocks = 0
    /\ closed = 0 /\ step = 0 /\ delivered = 0 /\ flushed = 0 /\ streams = 0

NoCommit ==
    /\ enc = 0 /\ roll = 0 /\ commit_before = 0 /\ commit_dec = 0 /\ ahead = 0
    /\ commit_phase = 0 /\ block = 0 /\ commit_part = 0 /\ cache = 0 /\ entered = 0 /\ misread = 0

NoFinder ==
    /\ row = 0 /\ job = 0 /\ jobs = 0 /\ match_phase = 0 /\ match_blk = 0 /\ tab = 0 /\ scan = 0
    /\ gap = 0 /\ fill = 0 /\ best = 0 /\ seqs = 0 /\ match_before = 0 /\ match_dec = 0
    /\ shifted = 0 /\ ungated = 0

NoPush ==
    /\ push_feed = 0 /\ arrived = 0 /\ taken = 0 /\ inited = 0 /\ push_item = 0 /\ push_blk = 0
    /\ made = 0 /\ sent = 0 /\ pushing = 0 /\ result = 0 /\ refused = 0

NoCli ==
    /\ cmd = 0 /\ names = 0 /\ data = 0 /\ turn = 0 /\ doing = 0 /\ target = 0 /\ cli_src = 0
    /\ dst = 0 /\ cli_pledge = 0 /\ cli_at = 0

NoDStreamCalls ==
    /\ dstream_feed = 0 /\ mayCall = 0 /\ inEnd = 0 /\ dstream_room = 0 /\ dstream_pos = 0
    /\ cursor = 0 /\ callStart = 0 /\ stage = 0 /\ dstream_item = 0 /\ dstream_blk = 0 /\ rest = 0
    /\ frame_open = 0 /\ engine = 0 /\ pre_released = 0 /\ pending = 0 /\ dstream_got = 0
    /\ hostage = 0 /\ dstream_pc = 0 /\ hint = 0 /\ live = 0 /\ armed = 0 /\ slot = 0 /\ used = 0
    /\ dstream_asked = 0 /\ calls = 0

(* A part that is a function of its input is called with one input, once.   *)
Asked(S) == {<<g>> : g \in S}

Parts == {"flat", "layout", "plan", "bits", "fse", "huff", "streams", "literals",
          "budget", "ring", "session", "hunt", "core",
          "commit", "match", "push", "cli", "dstream", "cstream"}

PartsInit ==
    /\ part \in Parts
    /\ Init /\ RingInit /\ CStreamInit
    /\ SessionInit /\ (part = "session" \/ stream = CHOOSE f \in SessionFrames : TRUE)
    /\ given \in IF part = "layout" THEN Asked(GridInputs)
              ELSE IF part = "plan" THEN Asked(PlanInputs)
              ELSE IF part = "bits" THEN Asked(BitInputs)
              ELSE IF part = "fse" THEN Asked(FseInputs)
              ELSE IF part = "huff" THEN Asked(HuffInputs)
              ELSE IF part = "streams" THEN Asked(StreamInputs)
              ELSE IF part = "literals" THEN Asked(BlocksInputs)
              ELSE {<<>>}
    /\ IF part = "budget" THEN Budget!Init ELSE NoBudget
    /\ IF part = "hunt" THEN Hunt!Init ELSE NoHunt
    /\ IF part = "core" THEN Core!Init ELSE NoCore
    /\ IF part = "commit" THEN Commit!Init ELSE NoCommit
    /\ IF part = "match" THEN Finder!Init ELSE NoFinder
    /\ IF part = "push" THEN Push!Init ELSE NoPush
    /\ IF part = "cli" THEN Cli!Init ELSE NoCli
    /\ IF part = "dstream" THEN DStreamCalls!Init ELSE NoDStreamCalls

(* The component of the part takes a step, or another one stands still.    *)
Turn(p, act, still) == IF part = p THEN act ELSE UNCHANGED still

PartsNext ==
    /\ UNCHANGED part
    /\ given' = <<>>
    /\ Turn("flat", Next, flatVars)
    /\ Turn("budget", Budget!Next, budgetVars)
    /\ Turn("ring", RingNext, ringVars)
    /\ Turn("session", SessionNext, sessionVars)
    /\ Turn("hunt", Hunt!Next, huntVars)
    /\ Turn("core", Core!Next, coreVars)
    /\ Turn("commit", Commit!Next, commitVars)
    /\ Turn("match", Finder!Next, matchVars)
    /\ Turn("push", Push!Next, pushVars)
    /\ Turn("cli", Cli!Next, cliVars)
    /\ Turn("dstream", DStreamCalls!Next, dstreamVars)
    /\ Turn("cstream", CStreamNext, cstreamVars)

partsVars == <<part, given, flatVars, budgetVars, ringVars, sessionVars, huntVars, coreVars, commitVars,
               matchVars, pushVars, cliVars, dstreamVars, cstreamVars>>

PartsSpec == PartsInit /\ [][PartsNext]_partsVars

-----------------------------------------------------------------------------
(* The properties of the instanced components, as their modules state them. *)
CutsPayOff == [][part = "budget" /\ lanes' # lanes => Budget!Wall(lanes)' < Budget!Wall(lanes)]_partsVars
LayoutSound == [][part = "layout" /\ given # <<>> => Grid!LayoutSound(given[1])]_partsVars
SegmentsAsWhole == [][part = "plan" /\ given # <<>> => Scanner!SegmentsAsWhole(given[1].items, given[1].workers)]_partsVars
HuntFaithful == part = "hunt" => Hunt!HuntFaithful
FrameWhole == part = "core" => Core!FrameWhole
ShapeOfBytes == part = "core" => Core!ShapeOfBytes
DecodedAsCoded ==
    /\ [](part = "commit" => Commit!DecodedAsCoded)
    /\ [][part = "bits" /\ given # <<>> => BitIO!ReadsBack(given[1])]_partsVars
    /\ [][part = "fse" /\ given # <<>> => Lits!Fse!CodedInverse(given[1])]_partsVars
    /\ [][part = "huff" /\ given # <<>> => Lits!CodesInverse(given[1])]_partsVars
    /\ [][part = "streams" /\ given # <<>> => Lits!StreamsRead(given[1])]_partsVars
    /\ [][part = "literals" /\ given # <<>> => Lits!BlocksRead(given[1].first, given[1].second, given[1].paired)]_partsVars
MatchesReproduce == part = "match" => Finder!MatchesReproduce
LinksOwn == part = "match" => Finder!LinksOwn
HandedOver == part = "push" => Push!HandedOver
NothingLost == part = "cli" => Cli!NothingLost
HintKept == part = "dstream" => DStreamCalls!HintKept
DictAsAsked == part = "dstream" => DStreamCalls!DictAsAsked
=============================================================================
