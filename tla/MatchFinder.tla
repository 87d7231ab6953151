----------------------------- MODULE MatchFinder -----------------------------
(***************************************************************************)
(* The table match finders of encoding/match_generator (the fast row and   *)
(* the hash-chain row) over one pooled matcher: jobs of a frame and whole  *)
(* frames one after the other, their history strip, the tables' moving     *)
(* coordinates, the blocks of a job, the scan, the sequences it emits and  *)
(* the decoder that executes them.                                         *)
(*                                                                         *)
(* Bytes are small integers; lengths, windows and tables are scaled down   *)
(* by the constants.  What only prices decide is left open: whether a      *)
(* candidate pays for its offset, whether the lazy walk prefers it, whether *)
(* a block is gated as incompressible, and whether it ends up raw.         *)
(***************************************************************************)
EXTENDS Integers, Sequences, SequencesExt, FiniteSetsExt

CONSTANTS
    Rows,               \* Strategy: "fast", "chain"
    Jobs,               \* [kind: "job" or "frame", bytes, start, overlap]
    MaxJobs, BlockLens, \* bounds of the exploration
    Histories,          \* the decoder's repeated offsets where a job starts mid-frame
    FirstHistory,       \* the same at the start of a frame
    Word,               \* MIN_MATCH, the four bytes of read4
    HashRead,           \* HASH_READ
    MinLen,             \* params.min_match, the fast row's MIN_ML, the seed's bar of six
    RepBonus,           \* the three bytes a repeated offset is worth
    Ramp,               \* misses per step of the literal-run ramp
    LongMatch, ChainLong,              \* the lengths from which fills are sparse
    Slots, ChainSize, Window,          \* hash slots, chain slots, params.window
    SearchDepth, LazyDepth,            \* of the chain row
    Stride, Retain,                    \* PREFILL_STRIDE, the fast row's retained tail
    SeedAgree, SeedConfirms, SeedMatches, SeedBudget,
    EpochSpan, EpochRoll               \* FAST_EPOCH_SPAN, CHAIN_EPOCH_ROLL

VARIABLES
    row, job, jobs,
    phase,     \* "idle", "block", "scan", "lazy", "ride", "encode"
    blk,       \* win_base, block_start, block_end
    tab,       \* heads, links, head_origin (or minus fast_shift), strip_mark;
               \* mine: the chain slots written since the heads were last cleared
    scan,      \* pos, anchor, miss_count, rep, rep_pending, the seed's offset, hits and budget
    gap,       \* gap_start, or NoGap
    fill,      \* covered_fill: the stride of the fast row's short fills
    best,      \* the incumbent of the lazy walk
    seqs,      \* the sequences of the block
    before,    \* repcode_snapshot (rep), and the gate it leaves out
    dec,       \* the decoder: its offsets, and whether it has reproduced every byte
    shifted, ungated   \* whether a seed match met an advanced position; whether a raw
                       \* block lowered the gate

vars == <<row, job, jobs, phase, blk, tab, scan, gap, fill, best, seqs, before, dec, shifted, ungated>>

NoGap == -1
NoBest == [at |-> 0, cand |-> 0, len |-> 0, rep |-> FALSE, seed |-> FALSE, tries |-> 0]

-----------------------------------------------------------------------------
(* Bytes and their repetitions.                                            *)

Byte(p) == job.bytes[p + 1]
Same(p, c, n) == \A k \in 0 .. n - 1 : Byte(p + k) = Byte(c + k)

(* extend_match: how far the bytes at p repeat those at c, up to end.      *)
Extent(p, c, end) ==
    CHOOSE n \in 0 .. end - p : Same(p, c, n) /\ (n = end - p \/ Byte(p + n) # Byte(c + n))

(* How far a match extends back into the pending literals.                 *)
Backward(start, cand, floor, base) ==
    CHOOSE n \in 0 .. Min({start - floor, cand - base}) :
        /\ \A k \in 1 .. n : Byte(start - k) = Byte(cand - k)
        /\ n = Min({start - floor, cand - base}) \/ Byte(start - n - 1) # Byte(cand - n - 1)

Uniform(from, to) == \A p \in from .. to - 1 : Byte(p) = Byte(from)
Hash(p) == FoldLeft(LAMBDA h, k : 2 * h + Byte(p + k), 0, [i \in 1 .. HashRead |-> i - 1]) % Slots

-----------------------------------------------------------------------------
(* The tables: an entry is the position, one up, in the current coordinates. *)

Empty == [s \in 0 .. Slots - 1 |-> 0]
Floor == IF row = "fast" THEN Max({blk.base, - tab.origin}) ELSE blk.base
Distance(entry, p) == p + tab.origin + 1 - entry
Admits(entry, p) == Distance(entry, p) \in 1 .. Min({p - Floor, Window})

(* insert_at, insert_linked_at, put_linked.                                *)
Headed(t, p) == [t EXCEPT !.heads[Hash(p)] = p + 1 + t.origin]
Linked(t, p) ==
    [Headed(t, p) EXCEPT !.links[p % ChainSize] = t.heads[Hash(p)], !.mine = @ \cup {p % ChainSize}]
Put(t, p) == IF row = "chain" THEN Linked(t, p) ELSE Headed(t, p)
PutAll(t, positions) == FoldLeft(Put, t, positions)

Grid(from, to, step) ==
    IF from >= to THEN <<>> ELSE [i \in 1 .. (to - from + step - 1) \div step |-> from + (i - 1) * step]

InsertMax == Max({blk.end - HashRead, blk.base})

(* insert_covered: every position of a short match, two of a long one.     *)
Covered(start, len) ==
    IF len <= LongMatch THEN Grid(start, Min({start + len, InsertMax}), fill)
    ELSE IF start + len - 2 <= InsertMax
         THEN IF len > 4 THEN <<start + 2, start + len - 2>> ELSE <<start + 2>>
         ELSE <<>>

(* emit_chain: every position of a match, every fourth of a long one.      *)
CoveredChain(start, len) ==
    Grid(start, Min({start + len, InsertMax}), IF len <= ChainLong THEN 1 ELSE 4)

(* chain_epoch_roll, fast_epoch_advance, and the frame start of a rolled   *)
(* chain: the heads are cleared, the coordinates restart at floor.         *)
Rolled(t, floor) == [t EXCEPT !.heads = Empty, !.origin = - floor, !.mine = {}]

-----------------------------------------------------------------------------
(* Repeated offsets (do_offset_history for the values the rows emit).      *)

History(rep, of, ll) ==
    IF of > 3 THEN <<of - 3, rep[1], rep[2]>>
    ELSE IF ll > 0 THEN rep ELSE <<rep[2], rep[1], rep[3]>>
Resolved(rep, of, ll) == IF of > 3 THEN of - 3 ELSE IF ll > 0 THEN rep[1] ELSE rep[2]

Charged(s) ==    \* one probe on the seed's account
    IF s.seed = 0 THEN s
    ELSE [s EXCEPT !.budget = @ - 1, !.seed = IF s.budget = 1 THEN 0 ELSE @]

-----------------------------------------------------------------------------
(* A job or frame on the pooled matcher.                                   *)

Fresh(pending, seed) ==
    [pos |-> job.start, anchor |-> job.start, miss |-> 0, rep |-> FirstHistory, pending |-> pending,
     seed |-> seed, hits |-> 0, budget |-> IF seed = 0 THEN 0 ELSE SeedBudget]

Init ==
    /\ row \in Rows
    /\ job \in Jobs /\ jobs = 1
    /\ phase = "start"
    /\ blk = [base |-> 0, start |-> 0, end |-> 0]
    /\ tab = [heads |-> Empty, links |-> [s \in 0 .. ChainSize - 1 |-> 0],
              origin |-> 0, mark |-> 0, mine |-> {}]
    /\ scan = Fresh(0, 0)
    /\ gap = NoGap /\ fill = 1 /\ best = NoBest /\ seqs = <<>>
    /\ before = [rep |-> FirstHistory, pending |-> 0]
    /\ dec = [rep |-> FirstHistory, good |-> TRUE]
    /\ shifted = FALSE /\ ungated = FALSE

(* Mutant of Reset: what was inserted behind the strip is not covered.     *)
ResetKeepsMark(t) ==
    IF row = "fast" THEN [t EXCEPT !.origin = 0]
    ELSE LET u == [t EXCEPT !.mine = {}]
         IN  IF t.origin < 0 THEN Rolled(u, 0) ELSE u

(* reset: the tables keep their residue, strip_mark covers it; a rolled    *)
(* chain starts over.                                                      *)
Reset(t) ==
    IF row = "fast" THEN [t EXCEPT !.origin = 0]
    ELSE LET u == [t EXCEPT !.mark = Max({@, scan.pos}), !.mine = {}]
         IN  IF t.origin < 0 THEN Rolled(u, 0) ELSE u

(* fill_window_grid, its invalidation: the chain's coordinates move past   *)
(* everything written so far; the fast row's heads are cleared.            *)
Invalidated(t, base) ==
    IF row = "fast" THEN Rolled(t, base)
    ELSE LET advanced == t.origin + t.mark + 1
             u == IF advanced + job.start >= EpochRoll \/ advanced + base < 0 THEN Rolled(t, 0)
                  ELSE [t EXCEPT !.origin = advanced]
         IN  [u EXCEPT !.mark = 0]

(* fill_window_grid, its strip: a sparse grid, oldest first.               *)
Filled(t, base, last) ==
    LET from == IF row = "fast" THEN Max({base, last - Retain}) ELSE base
        u == PutAll(t, Grid(from, last, Stride))
    IN  IF row = "chain" THEN [u EXCEPT !.mark = last] ELSE u

(* seed_scan with seed_agrees and seed_confirms: how far back the nearest  *)
(* older copy of the strip's tail is; 0 when there is none.                *)
SeedOffset(base, last) ==
    LET twins == {u \in base .. last - 1 :
                    /\ Same(u, last, HashRead)
                    /\ u - base >= SeedAgree /\ Same(u - SeedAgree, last - SeedAgree, SeedAgree)
                    /\ \A t \in SeedConfirms : u - base >= t => Same(u - t, last - t, HashRead)}
    IN  IF twins = {} THEN 0 ELSE last - Max(twins)

(* Mutant of Unknown: one match is taken to settle the whole history.      *)
UnknownFirst == IF job.start > 0 THEN 1 ELSE 0

(* gate_repcodes: how many repeated offsets of a job are not the decoder's. *)
Unknown == IF job.start > 0 THEN 3 ELSE 0

(* reset; prepare_job_state and prefill_job_strip: a job that starts in    *)
(* mid-frame knows nothing of the decoder's repeated offsets.              *)
Start ==
    LET base == Max({job.start - job.overlap, 0})
        filled == job.start - base >= HashRead
        cleared == Invalidated(Reset(tab), base)
    IN  /\ phase = "start"
        /\ IF job.kind = "frame" THEN tab' = Reset(tab) /\ scan' = Fresh(0, 0)
           ELSE /\ tab' = IF filled THEN Filled(cleared, base, job.start - HashRead) ELSE cleared
                /\ scan' = Fresh(Unknown,
                                 IF filled THEN SeedOffset(base, job.start - HashRead) ELSE 0)
        /\ dec' \in [rep : IF job.start > 0 THEN Histories ELSE {FirstHistory}, good : {TRUE}]
        /\ blk' = [base |-> 0, start |-> job.start, end |-> job.start]
        /\ gap' = NoGap /\ fill' = 1
        /\ shifted' = FALSE /\ ungated' = FALSE
        /\ phase' = "block"
        /\ UNCHANGED <<row, job, jobs, best, seqs, before>>

TakeJob ==
    /\ phase = "block" /\ blk.end = Len(job.bytes) /\ jobs < MaxJobs
    /\ job' \in Jobs /\ jobs' = jobs + 1
    /\ phase' = "start"
    /\ UNCHANGED <<row, blk, tab, scan, gap, fill, best, seqs, before, dec, shifted, ungated>>

-----------------------------------------------------------------------------
(* Blocks (compress_job_blocks_inner, compress_fastest).  The block is     *)
(* adopted first (OpenBlock), then one of its three ways is taken.         *)

OpenBlock(len) ==
    /\ phase = "block" /\ blk.end + len <= Len(job.bytes)
    /\ blk' = [base |-> Max({blk.end - Window, job.start - job.overlap, 0}),
               start |-> blk.end, end |-> blk.end + len]
    /\ phase' = "open"
    /\ UNCHANGED <<row, job, jobs, tab, scan, gap, fill, best, seqs, before, dec, shifted, ungated>>

Skipped == [scan EXCEPT !.pos = blk.end, !.anchor = blk.end]

(* skip_matching: one entry stands for the run.                            *)
RleBlock ==
    /\ phase = "open" /\ Uniform(blk.start, blk.end)
    /\ tab' = IF blk.start + HashRead <= blk.end THEN Put(tab, blk.start) ELSE tab
    /\ scan' = Skipped
    /\ phase' = "block"
    /\ UNCHANGED <<row, job, jobs, blk, gap, fill, best, seqs, before, dec, shifted, ungated>>

(* skip_if_incompressible: the block goes raw, its positions are owed.     *)
GatedBlock ==
    /\ phase = "open" /\ ~Uniform(blk.start, blk.end)
    /\ gap' = IF gap = NoGap THEN blk.start ELSE gap
    /\ scan' = Skipped
    /\ phase' = "block"
    /\ UNCHANGED <<row, job, jobs, blk, tab, fill, best, seqs, before, dec, shifted, ungated>>

(* fast_epoch_advance, chain_epoch_roll by the scan.                       *)
Epoch(t) ==
    IF row = "fast"
    THEN IF blk.start + t.origin > EpochSpan
         THEN Rolled(t, Max({blk.base, blk.start - EpochSpan})) ELSE t
    ELSE IF blk.start + t.origin >= EpochRoll THEN Rolled(t, blk.base) ELSE t

(* catch_up_insertions.                                                    *)
CaughtUp(t) ==
    IF gap = NoGap THEN t
    ELSE PutAll(t, Grid(Max({gap, blk.base, blk.start - Window}), blk.start - HashRead, 1))

ScanBlock ==
    /\ phase = "open" /\ ~Uniform(blk.start, blk.end)
    /\ before' = [rep |-> scan.rep, pending |-> scan.pending]
    /\ tab' = CaughtUp(Epoch(tab))
    /\ gap' = NoGap
    /\ scan' = [scan EXCEPT !.pos = blk.start, !.anchor = blk.start]
    /\ seqs' = <<>>
    /\ phase' = "scan"
    /\ UNCHANGED <<row, job, jobs, blk, fill, best, dec, shifted, ungated>>

-----------------------------------------------------------------------------
(* The scan.                                                               *)

Scanning == phase = "scan" /\ blk.end - scan.pos >= HashRead
Gated == scan.pending # 0

(* push_seq_packed and the fill of the match: the match at start, extended *)
(* back into the pending literals, of which a repeated offset keeps one.   *)
Emit(t, s, m) ==
    LET n == Backward(m.at, m.cand, IF m.rep THEN s.anchor + 1 ELSE s.anchor, Floor)
        at == m.at - n
        of == IF m.rep THEN 1 ELSE m.at - m.cand + 3
        hits == IF m.seed THEN s.hits + 1 ELSE s.hits
        pending == IF m.rep \/ s.pending = 0 THEN s.pending ELSE s.pending - 1
    IN  /\ seqs' = Append(seqs, [ll |-> at - s.anchor, len |-> m.len + n, of |-> of])
        /\ tab' = PutAll(t, IF row = "chain" THEN CoveredChain(at, m.len + n) ELSE Covered(at, m.len + n))
        /\ scan' = [s EXCEPT !.pos = m.at + m.len, !.anchor = m.at + m.len, !.miss = 0,
                             !.rep = History(@, of, at - s.anchor), !.pending = pending,
                             !.hits = hits, !.seed = IF m.seed /\ hits >= SeedMatches THEN 0 ELSE @]
        /\ phase' = IF pending = 0 THEN "ride" ELSE "scan"

Match(at, cand, len, rep, seed) ==
    [at |-> at, cand |-> cand, len |-> len, rep |-> rep, seed |-> seed, tries |-> 0]

(* rep1_chain: matches at the second repeated offset back to back.         *)
Ride ==
    /\ phase = "ride"
    /\ LET p == scan.pos
           cand == p - scan.rep[2]
       IN  IF blk.end - p >= Word /\ cand >= Floor /\ Same(p, cand, Word)
           THEN LET len == Extent(p, cand, blk.end)
                IN  /\ seqs' = Append(seqs, [ll |-> 0, len |-> len, of |-> 1])
                    /\ tab' = PutAll(tab, Covered(p, len))
                    /\ scan' = [scan EXCEPT !.pos = p + len, !.anchor = p + len,
                                            !.rep = History(@, 1, 0)]
                    /\ UNCHANGED phase
           ELSE phase' = "scan" /\ UNCHANGED <<seqs, tab, scan>>
    /\ UNCHANGED <<row, job, jobs, blk, gap, fill, best, before, dec, shifted, ungated>>

-----------------------------------------------------------------------------
(* The fast row: two positions per step, one candidate for each.           *)

Pair == IF blk.end - scan.pos > HashRead THEN 2 ELSE 1
Second == scan.pos + Pair - 1

(* Both positions are entered, after their older entries were read.        *)
Entered == PutAll(tab, Grid(scan.pos, scan.pos + Pair, 1))

(* The repeated offset, one position ahead where no literal is pending.    *)
Probe == IF scan.pos = scan.anchor THEN scan.pos + 1 ELSE scan.pos
Armed == ~Gated /\ Probe - scan.rep[1] >= Floor
FirstRep == Armed /\ Same(Probe, Probe - scan.rep[1], Word)
SecondRep ==
    /\ Armed /\ Pair = 2
    /\ Same(Second, Second - scan.rep[1], Word)

RepMatch(p) == Match(p, p - scan.rep[1], Extent(p, p - scan.rep[1], blk.end), TRUE, FALSE)

FastScan == row = "fast" /\ Scanning
FastKeeps == UNCHANGED <<row, job, jobs, blk, gap, fill, best, before, dec, shifted, ungated>>

FastRep ==
    /\ FastScan /\ FirstRep
    /\ Emit(Entered, scan, RepMatch(Probe))
    /\ FastKeeps

FastSeed ==
    LET p == scan.pos
        cand == p - scan.seed
    IN  /\ FastScan /\ ~FirstRep
        /\ scan.seed # 0 /\ cand >= Floor
        /\ Extent(p, cand, blk.end) >= MinLen
        /\ Emit(Entered, scan, Match(p, cand, Extent(p, cand, blk.end), FALSE, TRUE))
        /\ FastKeeps

(* The candidate of the slot of p, as it was before this step's entries.   *)
FastHash(p) ==
    LET entry == tab.heads[Hash(p)]
        cand == p - Distance(entry, p)
    IN  /\ FastScan /\ ~FirstRep
        /\ p # scan.pos => ~SecondRep
        /\ Admits(entry, p)
        /\ Extent(p, cand, blk.end) >= MinLen
        /\ Emit(Entered, Charged(scan), Match(p, cand, Extent(p, cand, blk.end), FALSE, FALSE))
        /\ FastKeeps

FastSecondRep ==
    /\ FastScan /\ ~FirstRep /\ SecondRep
    /\ Emit(Entered, Charged(scan), RepMatch(Second))
    /\ FastKeeps

FastMiss ==
    LET miss == scan.miss + Pair
    IN  /\ FastScan /\ ~FirstRep /\ ~SecondRep
        /\ tab' = Entered
        /\ scan' = [Charged(scan) EXCEPT !.miss = miss, !.pos = @ + Pair * (1 + miss \div Ramp)]
        /\ UNCHANGED <<phase, seqs>>
        /\ FastKeeps

-----------------------------------------------------------------------------
(* The chain row: the best of a walk down the chain, of the repeated       *)
(* offset and of the seed; then later positions that may do better.        *)

(* chain_search: the candidates of the walk, then the first longest one.   *)
Walk(p) ==
    FoldLeft(LAMBDA w, i :
                IF Admits(w.entry, p)
                THEN LET cand == p - Distance(w.entry, p)
                     IN  [entry |-> tab.links[cand % ChainSize], cands |-> Append(w.cands, cand)]
                ELSE w,
             [entry |-> tab.heads[Hash(p)], cands |-> <<>>],
             [i \in 1 .. SearchDepth |-> i]).cands

Search(p) ==
    FoldLeft(LAMBDA m, cand :
                LET len == Extent(p, cand, blk.end)
                IN  IF len >= Word /\ len > m.len THEN Match(p, cand, len, FALSE, FALSE) ELSE m,
             NoBest, Walk(p))

(* The repeated offset at the probe displaces what is not clearly longer;  *)
(* the scan moves to the probe with it.                                    *)
WithRep(m) ==
    LET cand == Probe - scan.rep[1]
        len == Extent(Probe, cand, blk.end)
    IN  IF ~Gated /\ cand >= Floor /\ Same(Probe, cand, Word) /\ len + RepBonus > m.len
        THEN Match(Probe, cand, len, TRUE, FALSE)
        ELSE [m EXCEPT !.at = scan.pos]

(* The seed's twin is looked up from the moved scan position and compared  *)
(* with the bytes at the step's own.                                       *)
WithSeed(m) ==
    LET cand == m.at - scan.seed
        len == Extent(scan.pos, cand, blk.end)
    IN  IF scan.seed # 0 /\ cand >= Floor /\ cand < scan.pos
             /\ Same(scan.pos, cand, Word) /\ len >= MinLen /\ len + RepBonus > m.len
        THEN Match(m.at, cand, len, FALSE, TRUE)
        ELSE m

(* The searched position's slot gets the position the scan stands on.      *)
Inserted(p) ==
    [tab EXCEPT !.links[p % ChainSize] = tab.heads[Hash(scan.pos)],
                !.heads[Hash(scan.pos)] = p + 1 + tab.origin, !.mine = @ \cup {p % ChainSize}]

ChainFound == WithSeed(WithRep(Search(scan.pos)))
ChainCharged(m) == IF m.seed THEN scan ELSE Charged(scan)
ChainKeeps == UNCHANGED <<row, job, jobs, blk, gap, fill, before, dec, ungated>>

ChainMiss ==
    /\ row = "chain" /\ Scanning
    /\ LET m == ChainFound
       IN  /\ tab' = Inserted(m.at)
           /\ scan' = [ChainCharged(m) EXCEPT !.miss = @ + 1, !.pos = m.at + 1 + (scan.miss + 1) \div Ramp]
    /\ UNCHANGED <<phase, seqs, best, shifted>>
    /\ ChainKeeps

ChainHit ==
    /\ row = "chain" /\ Scanning
    /\ LET m == ChainFound
           s == [ChainCharged(m) EXCEPT !.miss = 0, !.pos = m.at]
       IN  /\ m.len >= MinLen \/ m.rep
           /\ shifted' = (shifted \/ (m.seed /\ m.at # scan.pos))
           /\ IF LazyDepth > 0 /\ m.len < ChainLong
              THEN /\ best' = m /\ tab' = Inserted(m.at) /\ scan' = s /\ phase' = "lazy"
                   /\ UNCHANGED seqs
              ELSE Emit(Inserted(m.at), s, m) /\ UNCHANGED best
    /\ ChainKeeps

(* A step of the lazy walk: a repeated offset, else the walk's best, may   *)
(* take over; two steps in a row that fail (one, on the shallow rows) end  *)
(* it and the incumbent is emitted.                                        *)
LazyTakes(m) ==
    /\ best' = m /\ scan' = [scan EXCEPT !.pos = m.at]
    /\ UNCHANGED <<tab, seqs, phase>>

LazyStep ==
    LET p == scan.pos + 1
        cand == p - scan.rep[1]
        found == Search(p)
    IN  /\ phase = "lazy" /\ best.tries < LazyDepth /\ best.tries < 2 /\ blk.end - p >= HashRead
        /\ \/ /\ ~Gated /\ ~best.rep /\ cand >= Floor /\ Same(p, cand, Word)
              /\ LazyTakes(Match(p, cand, Extent(p, cand, blk.end), TRUE, FALSE))
           \/ found.len >= MinLen /\ LazyTakes(found)
           \/ /\ best' = [best EXCEPT !.tries = @ + 1] /\ scan' = [scan EXCEPT !.pos = p]
              /\ UNCHANGED <<tab, seqs, phase>>
        /\ UNCHANGED shifted
        /\ ChainKeeps

LazyEnds ==
    /\ phase = "lazy"
    /\ best.tries >= LazyDepth \/ best.tries = 2 \/ blk.end - (scan.pos + 1) < HashRead
    /\ Emit(tab, scan, best)
    /\ best' = NoBest /\ UNCHANGED shifted
    /\ ChainKeeps

-----------------------------------------------------------------------------
(* The end of a block: it is kept, and the decoder executes its sequences; *)
(* or it is stored raw, and the repeated offsets are put back.             *)

ScanEnds ==
    /\ phase = "scan" /\ blk.end - scan.pos < HashRead
    /\ scan' = Skipped
    /\ fill' \in IF row = "fast" THEN {1, 2} ELSE {1}
    /\ phase' = "encode"
    /\ UNCHANGED <<row, job, jobs, blk, tab, gap, best, seqs, before, dec, shifted, ungated>>

(* One sequence: its literals, then bytes from a resolved offset.          *)
Execute(d, seq) ==
    LET at == d.at + seq.ll
        offset == Resolved(d.rep, seq.of, seq.ll)
    IN  [at |-> at + seq.len, rep |-> History(d.rep, seq.of, seq.ll),
         good |-> /\ d.good /\ at + seq.len <= blk.end
                  /\ offset \in 1 .. Min({at, Window}) /\ Same(at, at - offset, seq.len)]

Keep ==
    /\ phase = "encode"
    /\ LET d == FoldLeft(Execute, [at |-> blk.start, rep |-> dec.rep, good |-> dec.good], seqs)
       IN  dec' = [rep |-> d.rep, good |-> d.good]
    /\ seqs' = <<>> /\ phase' = "block"
    /\ UNCHANGED <<row, job, jobs, blk, tab, scan, gap, fill, best, before, shifted, ungated>>

(* restore_repcode puts back the offsets, not the gate.                    *)
StoreRaw ==
    /\ phase = "encode"
    /\ scan' = [scan EXCEPT !.rep = before.rep]
    /\ ungated' = (ungated \/ scan.pending # before.pending)
    /\ seqs' = <<>> /\ phase' = "block"
    /\ UNCHANGED <<row, job, jobs, blk, tab, gap, fill, best, before, dec, shifted>>

FastNext == FastRep \/ FastSeed \/ (\E p \in {scan.pos, Second} : FastHash(p)) \/ FastSecondRep \/ FastMiss
ChainNext == ChainMiss \/ ChainHit \/ LazyStep \/ LazyEnds

Next ==
    \/ Start \/ TakeJob
    \/ \E len \in BlockLens : OpenBlock(len)
    \/ RleBlock \/ GatedBlock \/ ScanBlock
    \/ FastNext \/ ChainNext \/ Ride
    \/ ScanEnds \/ Keep \/ StoreRaw

Spec == Init /\ [][Next]_vars

-----------------------------------------------------------------------------
(* The emitted blocks decode to the bytes they were made of, whatever      *)
(* residue the tables hold and wherever a block was stored raw, as long as *)
(* neither of the two faults below was met (start_matching_*, compress_fastest). *)
MatchesReproduce == dec.good \/ shifted \/ ungated

(* What a job's searches can reach from the scan's position on was written *)
(* by the job itself, so its output does not depend on what the pooled     *)
(* matcher did before (prefill_window).                                    *)
Reaches(entry, p) == Admits(entry, p) => (p - Distance(entry, p)) % ChainSize \in tab.mine
LinksOwn ==
    row = "chain" /\ job.kind = "job" /\ phase = "scan"
        => \A p \in scan.pos .. blk.end - HashRead :
              /\ \A h \in 0 .. Slots - 1 : Reaches(tab.heads[h], p)
              /\ \A s \in tab.mine : Reaches(tab.links[s], p)

(* restore_repcode: the gate's zero means the history is the decoder's.    *)
ZeroMeansKnown == phase = "block" /\ scan.pending = 0 /\ ~shifted => scan.rep = dec.rep

(* The seed's twin: every emitted match repeats the bytes it covers.       *)
SeedsRepeat == dec.good \/ ungated
=============================================================================
