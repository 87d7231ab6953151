--------------------------- MODULE LiteralsCodec ---------------------------
(***************************************************************************)
(* The literals section of a block: how compress_literals writes it and how *)
(* decode_literals reads it - the raw, the uniform, the fresh and the       *)
(* treeless form, one stream or four, and the three decoders of four        *)
(* streams: one after the other, and interleaved with one or two symbols    *)
(* per look-up over windows of Word bytes.  A section is its bits.         *)
(***************************************************************************)
EXTENDS HuffCodec

CONSTANTS RawBits,      \* widths of a raw section's size (5, 12, 20)
          HuffBits,     \* widths of a compressed section's sizes (10, 14, 18)
          OneStream,    \* literals below which one stream is written (256)
          DescWeight,   \* what a description must save at least (12)
          Word,         \* bytes of a bit window (8)
          Batch,        \* look-ups between two reloads of a window (5)
          TailBatch          \* symbols between two reloads in the tail (4)

Need(bits) == (bits + 7) \div 8
Back == (Batch * PairLog + 7) \div 8      \* bytes a reload may step back (7)

-----------------------------------------------------------------------------
(* Headers.  Types: 0 raw, 1 uniform, 2 with a table, 3 treeless.          *)

(* raw_literals, rle_literals: the smallest form has one format bit.       *)
RawFormat(n) == IF n < 2 ^ RawBits[1] THEN 0 ELSE IF n < 2 ^ RawBits[2] THEN 1 ELSE 3
RawHeader(type, n) ==
    Fse!BitsOf(type, 2)
    \o (IF RawFormat(n) = 0 THEN <<0>> \o Fse!BitsOf(n, RawBits[1])
        ELSE Fse!BitsOf(RawFormat(n), 2) \o Fse!BitsOf(n, RawBits[IF RawFormat(n) = 1 THEN 2 ELSE 3]))

Bytes(data) == FlattenSeq([i \in 1 .. Len(data) |-> Fse!BitsOf(data[i], 8)])
RawLiterals(data) == RawHeader(0, Len(data)) \o Bytes(data)
RleLiterals(data) == RawHeader(1, Len(data)) \o Fse!BitsOf(data[1], 8)

(* The ladder of compress_literals.                                        *)
Single(n, seeded, small) == n < OneStream \/ (n < 2 ^ HuffBits[1] /\ (seeded \/ small))
Format(n, single) ==
    IF single THEN 0 ELSE IF n < 2 ^ HuffBits[1] THEN 1 ELSE IF n < 2 ^ HuffBits[2] THEN 2 ELSE 3
SizeBits(format) == HuffBits[IF format = 3 THEN 3 ELSE IF format = 2 THEN 2 ELSE 1]

(* parse_from_header: type, format, and the sizes, little end first.       *)
Parsed(bits) ==
    LET type == Fse!ValueAt(bits, 0, 2)
        format == Fse!ValueAt(bits, 2, 2)
        raw == CASE format \in {0, 2} -> [at |-> 3, n |-> RawBits[1]]
                 [] format = 1 -> [at |-> 4, n |-> RawBits[2]]
                 [] format = 3 -> [at |-> 4, n |-> RawBits[3]]
        n == SizeBits(format)
    IN  IF type < 2 THEN [type |-> type, size |-> Fse!ValueAt(bits, raw.at, raw.n),
                          streams |-> 0, packed |-> 0, at |-> raw.at + raw.n]
        ELSE [type |-> type, size |-> Fse!ValueAt(bits, 4, n), streams |-> IF format = 0 THEN 1 ELSE 4,
              packed |-> Fse!ValueAt(bits, 4 + n, n), at |-> 4 + 2 * n]

-----------------------------------------------------------------------------
(* Writing: compress_literals.  A table is its lengths and its codes.      *)

CountsOf(data) == [s \in 0 .. Max(ToSet(data)) |-> Cardinality({i \in DOMAIN data : data[i] = s})]
TableOf(nb) == [nb |-> nb, codes |-> Codes(WeightsOf(nb))]
DescriptionOf(nb) == Description([i \in 1 .. Max(DOMAIN nb) |-> WeightsOf(nb)[i - 1]])

CanEncode(old, new) ==
    /\ Max(DOMAIN new) <= Max(DOMAIN old)
    /\ \A s \in DOMAIN new : new[s] > 0 => old[s] > 0

(* encode4x_only: three sizes of 16 bits, then the quarters.               *)
Quarter(data, k) ==
    LET split == (Len(data) + 3) \div 4
    IN  SubSeq(data, split * (k - 1) + 1, IF k = 4 THEN Len(data) ELSE split * k)
FourStreams(codes, data) ==
    LET stream == [k \in 1 .. 4 |-> Stream(codes, Quarter(data, k))]
    IN  FlattenSeq([k \in 1 .. 3 |-> Fse!BitsOf(Len(stream[k]) \div 8, 16)]) \o FlattenSeq(stream)

(* The old table stays when it can encode all and costs no more than a new *)
(* one with its description.                                               *)
Keeps(old, new, counts, desc, n) ==
    /\ old # <<>> /\ CanEncode(old.nb, new.nb)
    /\ \/ Len(desc) \div 8 + DescWeight >= n
       \/ Estimate(old.codes, counts) <= Len(desc) \div 8 + Estimate(new.codes, counts)

Assembled(type, format, body, n) ==
    Fse!BitsOf(type, 2) \o Fse!BitsOf(format, 2) \o Fse!BitsOf(n, SizeBits(format))
    \o Fse!BitsOf(Len(body) \div 8, SizeBits(format)) \o body

(* b: the data, whether an entropy gate calls it raw, whether a dictionary *)
(* seeded the table, whether the frame is small.                           *)
Written(b, old, new, desc) ==
    LET n == Len(b.data)
        keeps == Keeps(old, new, CountsOf(b.data), desc, n)
        single == Single(n, b.seeded, b.small)
        codes == IF keeps THEN old.codes ELSE new.codes
        body == (IF keeps THEN <<>> ELSE desc)
                \o (IF single THEN Stream(codes, b.data) ELSE FourStreams(codes, b.data))
        bits == Assembled(IF keeps THEN 3 ELSE 2, Format(n, single), body, n)
    IN  IF Len(bits) \div 8 >= n THEN [bits |-> RawLiterals(b.data), table |-> old]
        ELSE [bits |-> bits, table |-> IF keeps THEN old ELSE new]

CompressLiterals(b, old) ==
    LET nb == Lengths(CountsOf(b.data))
    IN  IF b.gate THEN [bits |-> RawLiterals(b.data), table |-> old]
        ELSE Written(b, old, TableOf(nb), DescriptionOf(nb))

-----------------------------------------------------------------------------
(* Reading.  A decoder's table: [most, single, pairs], most = 0 for none.  *)

NoTable == [most |-> 0, single |-> <<>>, pairs |-> <<>>]

(* prepare_section_table; the cost model's choice of the pair table is     *)
(* left to the caller.                                                     *)
Prepared(table, section, bits, paired) ==
    LET read == ReadWeights(bits)
        t == TableFrom(read.weights)
    IN  IF section.type = 2
        THEN IF t.ok THEN [ok |-> TRUE, at |-> read.at,
                           table |-> [most |-> t.most, single |-> Filled(t.nb, t.most),
                                      pairs |-> IF paired THEN Pairs(t.nb, t.most) ELSE <<>>]]
             ELSE [ok |-> FALSE]
        ELSE IF table.most = 0 THEN [ok |-> FALSE]
        ELSE [ok |-> TRUE, at |-> 0, table |-> table]

(* parse_stream_bounds: in bytes of what follows the description.          *)
Bounds(size, bits) ==
    LET jump(k) == Fse!ValueAt(bits, 16 * (k - 1), 16)
        end(k) == 6 + (IF k >= 1 THEN jump(1) ELSE 0) + (IF k >= 2 THEN jump(2) ELSE 0)
                  + (IF k >= 3 THEN jump(3) ELSE 0)
    IN  IF size < 6 \/ Len(bits) < 48 \/ Len(bits) \div 8 < end(3) THEN <<>>
        ELSE [k \in 1 .. 4 |-> [from |-> end(k - 1), to |-> IF k = 4 THEN Len(bits) \div 8 ELSE end(k)]]

Segment(size) == (size + 3) \div 4
SegmentEnd(size, k) == IF k = 4 THEN size ELSE k * Segment(size)

(* One stream, symbol by symbol: decode_and_advance, and the gate that     *)
(* nothing is left and nothing was missing.  <<>> when it refuses.         *)
Advanced(table, d, bits) ==
    LET e == table.single[d.state + 1]
    IN  [at |-> d.at - e.nb, out |-> Append(d.out, e.symbol),
         state |-> ((d.state * 2 ^ e.nb) % 2 ^ table.most) + Fse!Drawn(bits, [at |-> d.at], e.nb)]
Streamed(table, stream, n) ==
    LET bits == Unpadded(stream)
        start == [at |-> Len(bits) - table.most, out |-> <<>>,
                  state |-> Fse!Drawn(bits, [at |-> Len(bits)], table.most)]
        end == FoldLeft(LAMBDA d, i : Advanced(table, d, bits), start, [i \in 1 .. n |-> i])
    IN  IF end.at = - table.most THEN [ok |-> TRUE, out |-> end.out] ELSE [ok |-> FALSE]

InTurn(table, bits, bounds, size) ==
    LET part == [k \in 1 .. 4 |->
            Streamed(table, SubSeq(bits, 8 * bounds[k].from + 1, 8 * bounds[k].to),
                     SegmentEnd(size, k) - Segment(size) * (k - 1))]
    IN  IF \E k \in 1 .. 4 : ~part[k].ok THEN [ok |-> FALSE]
        ELSE [ok |-> TRUE, out |-> FlattenSeq([k \in 1 .. 4 |-> part[k].out])]

-----------------------------------------------------------------------------
(* Interleaved.  A lane has the byte its window starts at, the window's    *)
(* consumed bits and where it writes; a window's last bit is the marker.   *)

WindowBit(bits, ip, p) ==
    IF p > 0 THEN bits[8 * ip + p + 1] ELSE IF p = 0 THEN 1 ELSE 0
Look(bits, lane, width) ==     \* the top bits of the shifted window
    FoldLeft(LAMBDA x, j : 2 * x + WindowBit(bits, lane.ip, 8 * Word - lane.used - j), 0, [j \in 1 .. width |-> j])

FirstLane(bits, bound, size, k) ==
    LET p == bound.to - Word
        last == [i \in 1 .. 8 |-> bits[8 * (bound.to - 1) + i]]
    IN  [ip |-> p, used |-> IF Marker(last) = 0 THEN 0 ELSE 9 - Marker(last),
         op |-> Segment(size) * (k - 1)]

(* A look-up writes one symbol, or two bytes of which one or two count.    *)
Placed(out, at, symbols) ==
    [o \in DOMAIN out |-> IF o > at /\ o <= at + Len(symbols) THEN symbols[o - at] ELSE out[o]]
LookUp(m, bits, table, k) ==
    LET lane == m.lanes[k]
        one == table.single[Look(bits, lane, table.most) + 1]
        two == table.pairs[Look(bits, lane, PairLog) + 1]
    IN  IF table.pairs = <<>>
        THEN [m EXCEPT !.out = Placed(@, lane.op, <<one.symbol>>),
                       !.lanes[k].used = @ + one.nb, !.lanes[k].op = @ + 1]
        ELSE [m EXCEPT !.out = Placed(@, lane.op, IF Len(two.symbols) = 2 THEN two.symbols
                                                  ELSE Append(two.symbols, 0)),
                       !.lanes[k].used = @ + two.nb, !.lanes[k].op = @ + Len(two.symbols)]

Reloaded(lane) == [lane EXCEPT !.ip = @ - lane.used \div 8, !.used = @ % 8]
Turn(m, bits, table) ==
    LET done == FoldLeft(LAMBDA n, i : LookUp(n, bits, table, ((i - 1) % 4) + 1), m, [i \in 1 .. 4 * Batch |-> i])
    IN  [done EXCEPT !.lanes = [k \in 1 .. 4 |-> Reloaded(done.lanes[k])]]

(* The bound of the inner loop: what the first lane may still read, and    *)
(* what the last (with pairs, every) lane may still write.                 *)
Turns(m, table, size) ==
    LET room(k, most) == (SegmentEnd(size, k) - m.lanes[k].op) \div most
    IN  IF table.pairs = <<>> THEN Min({m.lanes[1].ip \div Back, room(4, Batch)})
        ELSE Min({m.lanes[1].ip \div Back} \cup {room(k, 2 * Batch) : k \in 1 .. 4})
Crossed(m) == \E k \in 2 .. 4 : m.lanes[k].ip < m.lanes[k - 1].ip

Stretch(m, bits, table, size) ==
    LET turns == Turns(m, table, size)
    IN  IF turns = 0 \/ Crossed(m) THEN m
        ELSE FoldLeft(LAMBDA n, i : Turn(n, bits, table), m, [i \in 1 .. turns |-> i])

(* finish_streams: reloads while the window is off the region's floor,     *)
(* then rotations of a frozen window.                                      *)
Refreshed(lane) ==
    LET want == lane.used \div 8
        back == Min({want, lane.ip})
    IN  IF lane.used > 8 * Word \/ lane.ip = 0 THEN [lane EXCEPT !.more = FALSE]
        ELSE IF lane.ip >= Word THEN [lane EXCEPT !.ip = @ - want, !.used = @ % 8]
        ELSE [lane EXCEPT !.ip = @ - back, !.used = @ - 8 * back, !.more = want <= lane.ip]

TailLook(bits, lane, most) ==
    FoldLeft(LAMBDA x, j :
                LET p == 8 * Word - (lane.used % (8 * Word)) - j
                IN  2 * x + (IF p < 0 THEN 0 ELSE bits[8 * lane.ip + p + 1]),
             0, [j \in 1 .. most |-> j])
TailSymbol(t, bits, table, end) ==
    LET e == table.single[TailLook(bits, t, table.most) + 1]
    IN  IF t.op >= end THEN t
        ELSE [t EXCEPT !.op = @ + 1, !.used = @ + e.nb, !.symbols = Append(@, e.symbol)]

TailTurn(t, bits, table, end) ==
    LET r == Refreshed(t)
    IN  IF ~t.more THEN t
        ELSE IF ~r.more \/ r.op + TailBatch - 1 >= end THEN [r EXCEPT !.more = FALSE]
        ELSE FoldLeft(LAMBDA u, i : TailSymbol(u, bits, table, end), r, [i \in 1 .. TailBatch |-> i])

Finished(lane, bits, table, end) ==
    LET n == end - lane.op
        start == [ip |-> lane.ip, used |-> lane.used, op |-> lane.op, more |-> TRUE, symbols |-> <<>>]
        fast == FoldLeft(LAMBDA t, i : TailTurn(t, bits, table, end), start, [i \in 1 .. n \div TailBatch + 2 |-> i])
    IN  FoldLeft(LAMBDA t, i : TailSymbol(t, bits, table, end), fast, [i \in 1 .. n |-> i]).symbols

AllFour(table, bits, bounds, size) ==
    LET start == [lanes |-> [k \in 1 .. 4 |-> FirstLane(bits, bounds[k], size, k)],
                  out |-> [o \in 1 .. size |-> -1]]
        end == FoldLeft(LAMBDA m, i : Stretch(m, bits, table, size), start,
                       [i \in 1 .. size \div (4 * Batch) + 1 |-> i])
        lane(k) == end.lanes[k]
    IN  IF (table.pairs # <<>> /\ Crossed(end) /\ Turns(end, table, size) # 0)
           \/ \E k \in 1 .. 4 : lane(k).ip + Word < bounds[k].from \/ lane(k).op > SegmentEnd(size, k)
        THEN [ok |-> FALSE]
        ELSE [ok |-> TRUE,
              out |-> FoldLeft(LAMBDA out, k :
                         Placed(out, lane(k).op, Finished(lane(k), bits, table, SegmentEnd(size, k))),
                         end.out, <<1, 2, 3, 4>>)]

(* The gate of the interleaved loops.                                      *)
Wide(table, bounds, size) ==
    size > 3 * Segment(size) /\ table.most >= 1 /\ \A k \in 1 .. 4 : bounds[k].to - bounds[k].from >= Word

FourRead(table, bits, size) ==
    LET bounds == Bounds(size, bits)
    IN  IF bounds = <<>> THEN [ok |-> FALSE]
        ELSE IF Wide(table, bounds, size) THEN AllFour(table, bits, bounds, size)
        ELSE InTurn(table, bits, bounds, size)

(* decode_literals and decompress_literals.                                *)
DecodeLiterals(bits, table, paired) ==
    LET s == Parsed(bits)
        rest == SubSeq(bits, s.at + 1, Len(bits))
        source == SubSeq(rest, 1, 8 * s.packed)
        p == Prepared(table, s, source, paired)
        body == SubSeq(source, p.at + 1, Len(source))
        read == IF s.streams = 4 THEN FourRead(p.table, body, s.size) ELSE Streamed(p.table, body, s.size)
        byte(i) == Fse!ValueAt(rest, 8 * i, 8)
    IN  IF s.type = 0 THEN [ok |-> TRUE, table |-> table, out |-> [i \in 1 .. s.size |-> byte(i - 1)]]
        ELSE IF s.type = 1 THEN [ok |-> TRUE, table |-> table, out |-> [i \in 1 .. s.size |-> byte(0)]]
        ELSE IF ~p.ok THEN [ok |-> FALSE]
        ELSE IF read.ok THEN [ok |-> TRUE, table |-> p.table, out |-> read.out] ELSE [ok |-> FALSE]

-----------------------------------------------------------------------------
(* Two blocks in a row are read as they were written, whichever form and   *)
(* table each of them took.                                                *)
BlocksRead(first, second, paired) ==
    \A w1 \in {CompressLiterals(first, <<>>)} : \A w2 \in {CompressLiterals(second, w1.table)} :
        \A r1 \in {DecodeLiterals(w1.bits, NoTable, paired)} :
            /\ r1.ok /\ r1.out = first.data
            /\ \A r2 \in {DecodeLiterals(w2.bits, r1.table, paired)} : r2.ok /\ r2.out = second.data

(* Every decoder of four streams says the same, and refuses nothing.       *)
DecodersAgree(data, table, codes, pairs) ==
    \A bits \in {FourStreams(codes, data)} : \A bounds \in {Bounds(Len(data), bits)} :
        /\ bounds # <<>>
        /\ InTurn(table, bits, bounds, Len(data)) = [ok |-> TRUE, out |-> data]
        /\ Wide(table, bounds, Len(data)) =>
              \A p \in {<<>>, pairs} :
                 AllFour([table EXCEPT !.pairs = p], bits, bounds, Len(data)) = [ok |-> TRUE, out |-> data]

StreamsRead(data) ==
    \A nb \in {Lengths(CountsOf(data))} :
        DecodersAgree(data, [most |-> Longest(nb), single |-> Filled(nb, Longest(nb)), pairs |-> <<>>],
                      Codes(WeightsOf(nb)), Pairs(nb, Longest(nb)))
=============================================================================
