------------------------------ MODULE BlockCommit ------------------------------
(***************************************************************************)
(* The entropy state two sides keep from block to block: what the block      *)
(* encoder remembers (encoding/levels/fastest.rs over block_enc/split.rs and *)
(* block_enc/compressed.rs), and what the decoder of its output holds        *)
(* (decoding/scratch.rs, sequence_section_decoder.rs).  A block may fall     *)
(* back to raw after its tables were built, and a split may be abandoned     *)
(* after partitions were written: the encoder must then forget exactly what  *)
(* the decoder never saw.                                                  *)
(*                                                                         *)
(* A table is a name, given where it is built; which mode a stream takes is  *)
(* left open, as far as the code can take it at all.                        *)
(***************************************************************************)
EXTENDS Integers

CONSTANTS
    Streams,                           \* ll, ml, of
    Entries,                           \* the ways a state enters a frame: see StartFrame
    MaxBlocks, MaxParts, MaxEntries    \* bounds of the exploration

NoTable == <<"none">>
DictTable == <<"dict">>
Predefined == <<"predefined">>
Fresh(block, part) == <<"fresh", block, part>>
RleTable(block, part) == <<"rle", block, part>>

VARIABLES
    enc,        \* CompressState: what is remembered of the tables, and the repcodes
    roll,       \* the same while partitions roll
    before,     \* repcode_snapshot
    dec,        \* the decoder of the output up to the block
    ahead,      \* the decoder of the output so far
    phase, block, part,
    cache,      \* SeedCache
    entered, misread

vars == <<enc, roll, before, dec, ahead, phase, block, part, cache, entered, misread>>

-----------------------------------------------------------------------------
(* The decoder's FSEScratch, per stream.                                    *)

Slot == [table |-> NoTable, rle |-> NoTable, predefined |-> FALSE, valid |-> FALSE, packed |-> NoTable]

(* maybe_update_fse_tables on one stream.                                   *)
Update(slot, mode, table) ==
    CASE mode = "encoded" ->
            [slot EXCEPT !.table = table, !.rle = NoTable, !.predefined = FALSE, !.valid = FALSE]
      [] mode = "rle" -> [slot EXCEPT !.rle = table, !.predefined = FALSE, !.valid = FALSE]
      [] mode = "predefined" ->
            [slot EXCEPT !.rle = NoTable, !.predefined = TRUE,
                         !.table = IF slot.predefined THEN @ ELSE table,
                         !.valid = @ /\ slot.predefined]
      [] OTHER -> slot

(* pack_tables: only what changed since it was packed.                      *)
Pack(slot) ==
    IF slot.valid THEN slot
    ELSE [slot EXCEPT !.valid = TRUE, !.packed = IF slot.rle # NoTable THEN slot.rle ELSE slot.table]

(* reset, init_from_dict.                                                  *)
FreshDecoder(dict) ==
    [huff |-> IF dict THEN DictTable ELSE NoTable,
     fse |-> [s \in Streams |-> [Slot EXCEPT !.table = IF dict THEN DictTable ELSE NoTable]],
     rep |-> <<"start">>]

(* A compressed block: how each section is coded, with which table, and      *)
(* against which repcodes.  One without sequences says nothing of the tables.*)
DecodeBlock(d, b) ==
    [huff |-> IF b.lit = "new" THEN b.huff ELSE d.huff,
     fse |-> IF b.empty THEN d.fse
             ELSE [s \in Streams |-> Pack(Update(d.fse[s], b.mode[s], b.table[s]))],
     rep |-> IF b.empty THEN d.rep ELSE b.after]

Misread(d, b) ==
    \/ b.lit = "treeless" /\ d.huff # b.huff
    \/ ~b.empty /\ d.rep # b.against
    \/ ~b.empty /\ \E s \in Streams : Pack(Update(d.fse[s], b.mode[s], b.table[s])).packed # b.table[s]

-----------------------------------------------------------------------------
(* The encoder.  Remembered tables, and which are the dictionary's still.    *)
FreshTables(dict) ==
    [huff |-> IF dict THEN DictTable ELSE NoTable,
     prev |-> [s \in Streams |-> IF dict THEN DictTable ELSE NoTable],
     seeded |-> [s \in Streams \cup {"huff"} |-> dict]]

(* compress_literals, with sampled_gate_rejects before it: the sample may    *)
(* reject as long as no block has passed it.                                *)
LitModes(t) == {"raw", "new"} \cup (IF t.huff # NoTable THEN {"treeless"} ELSE {})
Gate(hold, lit) == IF hold THEN {TRUE} ELSE IF lit = "raw" THEN BOOLEAN ELSE {TRUE}

(* choose_tables_fast and select_from_counts.                               *)
Modes(t, s) ==
    {"predefined", "rle", "encoded"} \cup (IF t.prev[s] # NoTable THEN {"repeat"} ELSE {})

TableOf(t, s, mode) ==
    CASE mode = "predefined" -> Predefined
      [] mode = "rle" -> RleTable(block, part)
      [] mode = "encoded" -> Fresh(block, part)
      [] mode = "repeat" -> t.prev[s]

(* encode_staged_block: the block it writes from tables t.                   *)
Coded(t, lit, mode, empty, against, after) ==
    [lit |-> lit, huff |-> IF lit = "new" THEN Fresh(block, part) ELSE t.huff,
     empty |-> empty, mode |-> mode, table |-> [s \in Streams |-> TableOf(t, s, mode[s])],
     against |-> against, after |-> after]

(* Mutant of Adopted: a table lost to a predefined one is kept.             *)
AdoptedKeepCleared(t, b) ==
    [huff |-> b.huff,
     prev |-> [s \in Streams |-> IF b.empty \/ b.mode[s] # "encoded" THEN t.prev[s] ELSE b.table[s]],
     seeded |-> [s \in Streams \cup {"huff"} |->
        t.seeded[s] /\ IF s = "huff" THEN b.lit # "new" ELSE b.empty \/ b.mode[s] = "repeat"]]

(* BlockTables, replace_previous: New takes the block's table, Keep the old  *)
(* one, and Clear forgets it, the decoder's being predefined or RLE by then. *)
Adopted(t, b) ==
    [huff |-> b.huff,
     prev |-> [s \in Streams |->
        IF b.empty THEN t.prev[s]
        ELSE CASE b.mode[s] = "encoded" -> b.table[s]
               [] b.mode[s] = "repeat" -> t.prev[s]
               [] OTHER -> NoTable],
     seeded |-> [s \in Streams \cup {"huff"} |->
        t.seeded[s] /\ IF s = "huff" THEN b.lit # "new" ELSE b.empty \/ b.mode[s] = "repeat"]]

Tables(e) == [huff |-> e.huff, prev |-> e.prev, seeded |-> e.seeded]
With(e, t) == [e EXCEPT !.huff = t.huff, !.prev = t.prev, !.seeded = t.seeded]

Init ==
    /\ enc = [huff |-> NoTable, prev |-> FreshTables(FALSE).prev,
              seeded |-> FreshTables(FALSE).seeded, rep |-> <<"start">>, hold |-> FALSE]
    /\ roll = FreshTables(FALSE) /\ before = <<"start">>
    /\ dec = FreshDecoder(FALSE) /\ ahead = FreshDecoder(FALSE)
    /\ phase = "idle" /\ block = 0 /\ part = 0
    /\ cache = FALSE /\ entered = 0 /\ misread = FALSE

(* A frame on this state: through reset_slice_state; through seed_with_cache, *)
(* which restores the image of an earlier seeding or seeds and takes one; or  *)
(* through the pooled streaming core's reinit, with a dictionary or without.  *)
StartFrame(entry) ==
    LET dict == entry \in {"dictionary", "core dictionary"}
        hit  == dict /\ cache
    IN
    /\ phase = "idle" /\ entered < MaxEntries
    /\ enc' = [With(enc, FreshTables(dict)) EXCEPT
                  !.rep = <<"start">>,
                  !.hold = IF hit \/ entry = "core" THEN enc.hold ELSE FALSE]
    /\ cache' = (cache \/ dict)
    /\ dec' = FreshDecoder(dict) /\ ahead' = FreshDecoder(dict)
    /\ block' = 0 /\ part' = 0
    /\ entered' = entered + 1
    /\ UNCHANGED <<roll, before, phase, misread>>

-----------------------------------------------------------------------------
(* compress_fastest.                                                       *)
NextBlock ==
    /\ phase = "idle" /\ entered > 0 /\ block < MaxBlocks
    /\ block' = block + 1 /\ part' = 1

(* A uniform block goes out as RLE, a gated one raw, both unparsed: nothing  *)
(* is coded and nothing remembered.                                        *)
Unparsed ==
    /\ NextBlock
    /\ UNCHANGED <<enc, roll, before, dec, ahead, phase, cache, entered, misread>>

(* The parse advances the matcher's repcodes, if it finds sequences.         *)
Parse(empty) ==
    /\ NextBlock
    /\ before' = enc.rep
    /\ enc' = IF empty THEN enc ELSE [enc EXCEPT !.rep = <<"block", block + 1>>]
    /\ roll' = Tables(enc)
    /\ phase' = IF empty THEN "single empty" ELSE "split"
    /\ UNCHANGED <<dec, ahead, cache, entered, misread>>

(* derive_splits finds no split that pays.                                  *)
Unsplit ==
    /\ phase = "split" /\ part = 1
    /\ phase' = "single"
    /\ UNCHANGED <<enc, roll, before, dec, ahead, block, part, cache, entered, misread>>

RepAt(p) == IF p = 1 THEN before ELSE <<"part", block, p - 1>>

Write(b) == ahead' = DecodeBlock(ahead, b) /\ misread' = (misread \/ Misread(ahead, b))

(* emit_partitions: one more partition, and the tables roll.                *)
Partition(lit, mode) ==
    LET b == Coded(roll, lit, mode, FALSE, RepAt(part), <<"part", block, part>>)
    IN
    /\ phase = "split" /\ part < MaxParts
    /\ lit \in LitModes(roll) /\ \A s \in Streams : mode[s] \in Modes(roll, s)
    /\ Write(b)
    /\ roll' = Adopted(roll, b)
    /\ \E passed \in Gate(enc.hold, lit) : enc' = [enc EXCEPT !.hold = @ \/ passed]
    /\ part' = part + 1
    /\ UNCHANGED <<before, dec, phase, block, cache, entered>>

(* The last partition: the net outcome is adopted.                          *)
LastPartition(lit, mode) ==
    LET b == Coded(roll, lit, mode, FALSE, RepAt(part), enc.rep)
    IN
    /\ phase = "split" /\ part > 1
    /\ lit \in LitModes(roll) /\ \A s \in Streams : mode[s] \in Modes(roll, s)
    /\ Write(b) /\ dec' = ahead'
    /\ \E passed \in Gate(enc.hold, lit) :
          enc' = [With(enc, Adopted(roll, b)) EXCEPT !.hold = @ \/ passed]
    /\ phase' = "idle"
    /\ UNCHANGED <<roll, before, block, part, cache, entered>>

(* What the encoder goes by once the output is truncated: the block's start. *)
Rewound == enc

(* A partition does not shrink: the output is truncated to the block's start  *)
(* and the whole block is coded again, unsplit.                             *)
Abandon ==
    /\ phase = "split"
    /\ ahead' = dec
    /\ enc' = Rewound
    /\ phase' = "single"
    /\ UNCHANGED <<roll, before, dec, block, part, cache, entered, misread>>

(* The single block, when it shrinks.                                       *)
Single(lit, mode) ==
    LET empty == phase = "single empty"
        b == Coded(Tables(enc), lit, mode, empty, before, enc.rep)
    IN
    /\ phase \in {"single", "single empty"}
    /\ lit \in LitModes(enc) /\ \A s \in Streams : mode[s] \in Modes(enc, s)
    /\ Write(b) /\ dec' = ahead'
    /\ \E passed \in Gate(enc.hold, lit) :
          enc' = [With(enc, Adopted(Tables(enc), b)) EXCEPT !.hold = @ \/ passed]
    /\ phase' = "idle"
    /\ UNCHANGED <<roll, before, block, part, cache, entered>>

(* The raw fallback puts back what was taken out; the gate's hold stays.     *)
Restored(passed) == [enc EXCEPT !.rep = before, !.hold = @ \/ passed]

(* It does not shrink, or the gate rejects its only section.                *)
FallBack ==
    /\ phase \in {"single", "single empty"}
    /\ \E passed \in Gate(enc.hold, "raw") : enc' = Restored(passed)
    /\ phase' = "idle"
    /\ UNCHANGED <<roll, before, dec, ahead, block, part, cache, entered, misread>>

AllModes == {"predefined", "rle", "encoded", "repeat"}

Next ==
    \/ \E entry \in Entries : StartFrame(entry)
    \/ Unparsed
    \/ \E empty \in BOOLEAN : Parse(empty)
    \/ Unsplit \/ Abandon \/ FallBack
    \/ \E lit \in {"raw", "new", "treeless"}, mode \in [Streams -> AllModes] :
          Partition(lit, mode) \/ LastPartition(lit, mode) \/ Single(lit, mode)

Spec == Init /\ [][Next]_vars

-----------------------------------------------------------------------------
(* Properties.                                                             *)

(* Whatever mix of splits, abandoned splits and raw fallbacks a frame is     *)
(* written with, and whatever ran on the state before: every section is      *)
(* decoded with the table and the repcodes it was coded with; what the       *)
(* encoder would repeat is what the decoder holds; and a table counts as the *)
(* dictionary's only while it is.                                          *)
DecodedAsCoded ==
    /\ ~misread
    /\ phase = "idle" =>
          /\ enc.rep = dec.rep
          /\ enc.huff # NoTable => dec.huff = enc.huff
          /\ \A s \in Streams : enc.prev[s] # NoTable => Pack(dec.fse[s]).packed = enc.prev[s]
    /\ \A s \in Streams : enc.seeded[s] => enc.prev[s] = DictTable
    /\ enc.seeded["huff"] => enc.huff = DictTable

=============================================================================
