----------------------------- MODULE HuffCodec -----------------------------
(***************************************************************************)
(* Huffman coding (huff0): from the counts of the literals to a tree of     *)
(* limited depth, its canonical codes, its description in a block, and the  *)
(* decoder's tables of one and of two symbols per look-up.  A code is its   *)
(* value and its length; a length of zero is an absent symbol.  A count, a  *)
(* length or a weight is a function on 0 .. m.                             *)
(***************************************************************************)
EXTENDS Integers, Sequences, SequencesExt, FiniteSetsExt

CONSTANTS MaxCode,               \* MAX_CODE_LENGTH, MAX_MAX_NUM_BITS (11)
          LeastLog,              \* no depth cap is below it (5)
          PairLog,               \* the bits a two-symbol look-up sees (11)
          RawMost,               \* weights the raw form can count (128)
          FixBits, RtbBits, Rtb  \* of FseCodec

Fse == INSTANCE FseCodec

HighBit(x) == Fse!HighBit(x)
SumOver(S, F(_)) == FoldSet(LAMBDA s, t : t + F(s), 0, S)
Live(f) == {s \in DOMAIN f : f[s] > 0}
InOrder(S, Before(_, _)) ==       \* a set of symbols as a sequence
    SortSeq(SelectSeq([i \in 1 .. Max(S) + 1 |-> i - 1], LAMBDA s : s \in S), Before)

-----------------------------------------------------------------------------
(* From counts to lengths.                                                 *)

(* optimal_literal_log: the depth cap.                                     *)
OptimalLog(counts) ==
    LET total == SumOver(DOMAIN counts, LAMBDA s : counts[s])
        source == Max({0, HighBit(total - 1) - 1})
        least == Min({HighBit(total) + 1, HighBit(Max(Live(counts))) + 2})
    IN  Fse!Clamp(Max({Min({MaxCode, source}), least}), LeastLog, MaxCode)

(* huf_sort: the most frequent first, equal ones by symbol.                *)
Sorted(counts) ==
    InOrder(Live(counts), LAMBDA s, t : counts[s] > counts[t] \/ (counts[s] = counts[t] /\ s < t))

(* build_tree: two queues, the leaves from the back and the nodes made so  *)
(* far; the smaller count is taken, a node before a leaf of equal count.   *)
(* Leaves are 1 .. n in sorted order, nodes n + 1 .. 2n - 1 as they come.  *)
Picked(t, leaf, n) ==
    IF t.leaf > 0 /\ (t.inner > Len(t.made) \/ leaf[t.leaf] < t.made[t.inner])
    THEN [t EXCEPT !.leaf = @ - 1, !.sum = @ + leaf[t.leaf], !.parent[t.leaf] = n + Len(t.made) + 1]
    ELSE [t EXCEPT !.inner = @ + 1, !.sum = @ + t.made[t.inner], !.parent[n + t.inner] = n + Len(t.made) + 1]

Merged(t, leaf, n) ==
    LET both == Picked(Picked(t, leaf, n), leaf, n)
    IN  [both EXCEPT !.made = Append(@, both.sum), !.sum = 0]

Parents(leaf, n) ==
    FoldLeft(LAMBDA t, k : Merged(t, leaf, n),
             [leaf |-> n, inner |-> 1, made |-> <<>>, sum |-> 0, parent |-> [x \in 1 .. 2 * n - 1 |-> 0]],
             [k \in 1 .. n - 1 |-> k]).parent

Depths(parent, n) ==      \* of the leaves, from the root down
    FoldLeft(LAMBDA d, k : [d EXCEPT ![2 * n - 1 - k] = d[parent[2 * n - 1 - k]] + 1],
             [x \in 1 .. 2 * n - 1 |-> 0], [k \in 1 .. 2 * n - 2 |-> k])

(* set_max_height: leaves below the cap are lifted to it, and their debt   *)
(* is repaid by sinking the last leaf of some higher rank.                 *)
None == 0
RankToSink(r, leaf) ==    \* the two loops over n_bits
    LET start == HighBit(r.debt) + 1
        stops(b) == b = 1 \/ (r.last[b] # None
                              /\ (r.last[b - 1] = None \/ leaf[r.last[b]] <= 2 * leaf[r.last[b - 1]]))
        below == Max({b \in 1 .. start : stops(b)})
    IN  Min({b \in below .. MaxCode + 1 : r.last[b] # None \/ b = MaxCode + 1})

Repaid(r, leaf, cap) ==
    LET b == RankToSink(r, leaf)
        at == r.last[b]
        nb == [r.nb EXCEPT ![at] = @ + 1]
    IN  IF r.debt <= 0 THEN r
        ELSE [debt |-> r.debt - 2 ^ (b - 1), nb |-> nb, low |-> r.low,
              last |-> [r.last EXCEPT ![b - 1] = IF @ = None THEN at ELSE @,
                                      ![b] = IF at = 1 \/ (at > 1 /\ nb[at - 1] # cap - b) THEN None ELSE at - 1]]

Restored(r, cap) ==       \* an overshot repayment comes back at rank one
    LET low == Max({p \in 0 .. r.low : p = 0 \/ r.nb[p] # cap})
        at == IF r.last[1] = None THEN low + 1 ELSE r.last[1] + 1
    IN  IF r.debt >= 0 THEN r
        ELSE [r EXCEPT !.debt = @ + 1, !.nb[at] = @ - 1, !.last[1] = at,
                       !.low = IF r.last[1] = None THEN low ELSE @]

Limited(nb, leaf, cap) ==
    LET n == Len(nb)
        over == nb[n] - cap
        debt == SumOver({p \in 1 .. n : nb[p] > cap}, LAMBDA p : 2 ^ over - 2 ^ (nb[n] - nb[p])) \div 2 ^ over
        lifted == [p \in 1 .. n |-> Min({nb[p], cap})]
        rank(b) == Max({0} \cup {p \in 1 .. n : nb[p] = cap - b})
        start == [debt |-> debt, nb |-> lifted, low |-> Max({p \in 1 .. n : nb[p] < cap}),
                  last |-> [b \in 0 .. MaxCode + 1 |-> IF b = 0 THEN None ELSE rank(b)]]
        repaid == FoldLeft(LAMBDA r, k : Repaid(r, leaf, cap), start, [k \in 1 .. n |-> k])
    IN  IF over <= 0 THEN nb
        ELSE FoldLeft(LAMBDA r, k : Restored(r, cap), repaid, [k \in 1 .. 2 ^ cap |-> k]).nb

(* build_lengths_into.                                                     *)
LengthsOf(counts, order, cap) ==
    LET n == Len(order)
        leaf == [p \in 1 .. n |-> counts[order[p]]]
        depth == Depths(Parents(leaf, n), n)
        nb == Limited([p \in 1 .. n |-> depth[p]], leaf, cap)
    IN  [s \in DOMAIN counts |-> IF counts[s] = 0 THEN 0 ELSE nb[CHOOSE p \in 1 .. n : order[p] = s]]
Lengths(counts) == LengthsOf(counts, Sorted(counts), OptimalLog(counts))

-----------------------------------------------------------------------------
(* From lengths to codes: build_from_weights_slice.  The rarest weight has *)
(* the first codes; symbols of one weight count up.                        *)

Longest(nb) == Max({nb[s] : s \in DOMAIN nb})
WeightsOf(nb) == [s \in DOMAIN nb |-> IF nb[s] = 0 THEN 0 ELSE Longest(nb) - nb[s] + 1]
WeightSum(w) == SumOver(Live(w), LAMBDA s : 2 ^ (w[s] - 1))

Coded(c, s, w, most) ==
    LET code == c.code \div 2 ^ (w[s] - c.weight)
    IN  [code |-> code + 1, weight |-> w[s],
         table |-> [c.table EXCEPT ![s] = [code |-> code, nb |-> most - w[s] + 1]]]

Codes(w) ==
    FoldLeft(LAMBDA c, s : Coded(c, s, w, HighBit(WeightSum(w))),
             [code |-> 0, weight |-> 0, table |-> [s \in DOMAIN w |-> [code |-> 0, nb |-> 0]]],
             InOrder(Live(w), LAMBDA s, t : w[s] < w[t] \/ (w[s] = w[t] /\ s < t))).table

(* uniform_nb.                                                             *)
Uniform(w) == IF Cardinality({w[s] : s \in Live(w)}) = 1 /\ Cardinality(Live(w)) > 1
              THEN HighBit(WeightSum(w)) - Max({w[s] : s \in Live(w)}) + 1 ELSE 0

(* estimate_compressed_size, in bytes.                                     *)
Estimate(table, counts) ==
    (SumOver(DOMAIN counts \cap DOMAIN table, LAMBDA s : counts[s] * table[s].nb) + 7) \div 8

(* encode_stream: the data from its end, then the marker and zeroes.       *)
Stream(table, data) ==
    Fse!Padded(FoldRight(LAMBDA s, bits : bits \o Fse!BitsOf(table[s].code, table[s].nb), data, <<>>) \o <<1>>)

-----------------------------------------------------------------------------
(* The description of a table: one weight per symbol but the last.         *)

(* write_fse_weights over a distribution; a form starts with its header.   *)
FseForm(weights, norm, log) ==
    LET body == Fse!WriteNCount(norm, log)
                \o Fse!Padded(Fse!Interleaved(Fse!Encoder(norm, log), weights) \o <<1>>)
    IN  Fse!BitsOf(Len(body) \div 8, 8) \o body
FseLen(form) == Len(form) \div 8 - 1

Nibbles(weights) ==       \* two to a byte, the first one on top
    FlattenSeq([k \in 1 .. (Len(weights) + 1) \div 2 |->
        Fse!BitsOf(IF 2 * k <= Len(weights) THEN weights[2 * k] ELSE 0, 4) \o Fse!BitsOf(weights[2 * k - 1], 4)])
RawForm(weights) == Fse!BitsOf((Len(weights) + RawMost - 1) % (2 * RawMost), 8) \o Nibbles(weights)

(* write_table_desc: the raw form when it is no longer, or when nothing    *)
(* else can be; one weight for all in a large alphabet takes a phantom.    *)
Description(weights) ==
    LET n == Len(weights)
        most == Max({weights[i] : i \in 1 .. n} \cup {0})
        counts == [w \in 0 .. most |-> Cardinality({i \in 1 .. n : weights[i] = w})]
        common == Max({counts[w] : w \in 0 .. most})
        log == Fse!OptimalLog(6, n, most)
        norm == IF common # n /\ common > 1 THEN Fse!Normalize(counts, log, n, 1) ELSE <<>>
        phantom == IF most = MaxCode THEN most - 1 ELSE most + 1
        parked == [w \in 0 .. Max({most, phantom}) |-> IF w = most THEN 31 ELSE IF w = phantom THEN 1 ELSE 0]
    IN  IF n >= 4 /\ norm # <<>>
        THEN LET f == FseForm(weights, norm, log)
             IN  IF FseLen(f) > 1 /\ FseLen(f) < RawMost /\ (FseLen(f) < n \div 2 \/ n > RawMost)
                 THEN f ELSE RawForm(weights)
        ELSE IF n >= 4 /\ n > RawMost THEN FseForm(weights, parked, 5)
        ELSE RawForm(weights)

(* read_weights: the raw form's nibbles, or a distribution and its stream. *)
Marker(bits) == Max({0} \cup {i \in 1 .. Len(bits) : bits[i] = 1})
Unpadded(bits) == SubSeq(bits, 1, Marker(bits) - 1)      \* skip_padding_marker
FseWeights(body) ==
    LET dist == Fse!ReadNCount(body, 6, MaxCode)
    IN  IF ~dist.ok THEN <<>>
        ELSE Fse!Deinterleaved(Fse!Decoder([s \in 0 .. Len(dist.norm) - 1 |-> dist.norm[s + 1]], dist.log),
                               dist.log, Unpadded(SubSeq(body, 8 * dist.bytes + 1, Len(body))), 2 * RawMost)

ReadWeights(bits) ==
    LET header == Fse!ValueAt(bits, 0, 8)
        n == header - RawMost + 1
    IN  IF header < RawMost
        THEN [weights |-> FseWeights(SubSeq(bits, 9, 8 + 8 * header)), at |-> 8 + 8 * header]
        ELSE [weights |-> [i \in 1 .. n |-> Fse!ValueAt(bits, IF i % 2 = 1 THEN 4 * i + 8 ELSE 4 * i, 4)],
              at |-> 8 + 8 * ((n + 1) \div 2)]

(* build_table_from_weights: the last weight is what completes the sum.    *)
(* The lengths, or the reason there are none.                              *)
Refused(why) == [ok |-> FALSE, why |-> why]
TableFrom(weights) ==
    LET n == Len(weights)
        sum == SumOver({i \in 1 .. n : weights[i] > 0}, LAMBDA i : 2 ^ (weights[i] - 1))
        most == HighBit(sum) + 1
        left == 2 ^ most - sum
        last == HighBit(left) + 1
        ones == Cardinality({i \in 1 .. n : weights[i] = 1}) + (IF last = 1 THEN 1 ELSE 0)
    IN  IF \E i \in 1 .. n : weights[i] > MaxCode THEN Refused("WeightBiggerThanMaxNumBits")
        ELSE IF sum = 0 THEN Refused("MissingWeights")
        ELSE IF most > MaxCode THEN Refused("MaxBitsTooHigh")
        ELSE IF left # 2 ^ HighBit(left) THEN Refused("LeftoverIsNotAPowerOf2")
        ELSE IF ones < 2 \/ ones % 2 = 1 THEN Refused("InvalidWeightOneCount")
        ELSE [ok |-> TRUE, most |-> most,
              nb |-> [s \in 0 .. n |-> IF s = n THEN most + 1 - last
                                       ELSE IF weights[s + 1] = 0 THEN 0 ELSE most + 1 - weights[s + 1]]]

-----------------------------------------------------------------------------
(* The decoder's tables.                                                   *)

(* fill_decode_tables: the longest codes first, one span for each symbol.  *)
Filled(nb, most) ==
    FlattenSeq([k \in 1 .. Cardinality(Live(nb)) |->
        LET order == InOrder(Live(nb), LAMBDA s, t : nb[s] > nb[t] \/ (nb[s] = nb[t] /\ s < t))
        IN  [i \in 1 .. 2 ^ (most - nb[order[k]]) |-> [symbol |-> order[k], nb |-> nb[order[k]]]]])

(* build_x2_table: a look-up of PairLog bits gives a second symbol where   *)
(* its code still fits.  Nothing is built where too few do.                *)
RankStart(nb, most, w) ==
    SumOver({s \in Live(nb) : most + 1 - nb[s] < w}, LAMBDA s : 2 ^ (PairLog - nb[s]))
Shortest(nb) == Min({nb[s] : s \in Live(nb)})
Roomy(nb, s) == PairLog - nb[s] >= Shortest(nb)
Eligible(nb) == SumOver({s \in Live(nb) : Roomy(nb, s)}, LAMBDA s : 2 ^ (PairLog - nb[s]))

Overlaid(span, base, width, entry) ==
    [o \in DOMAIN span |-> IF o - 1 \in base .. base + width - 1 THEN entry ELSE span[o]]

PairSpan(nb, most, s, order) ==      \* the entries of the codes that start with s
    LET least == Max({nb[s] + most + 1 - PairLog, 1})
        offset(w) == RankStart(nb, most, w) \div 2 ^ nb[s]
        seconds == SelectSeq(order, LAMBDA t : most + 1 - nb[t] >= least)
        nth(k) == Cardinality({j \in 1 .. k - 1 : nb[seconds[j]] = nb[seconds[k]]})
        one == [symbols |-> <<s>>, nb |-> nb[s]]
        empty == [symbols |-> <<>>, nb |-> 0]
        blank == [o \in 1 .. 2 ^ (PairLog - nb[s]) |-> IF o - 1 < offset(least) THEN one ELSE empty]
    IN  IF ~Roomy(nb, s) THEN [o \in 1 .. 2 ^ (PairLog - nb[s]) |-> one]
        ELSE FoldLeft(LAMBDA span, k :
                 LET t == seconds[k]
                     width == 2 ^ (PairLog - nb[s] - nb[t])
                 IN  Overlaid(span, offset(most + 1 - nb[t]) + nth(k) * width, width,
                              [symbols |-> <<s, t>>, nb |-> nb[s] + nb[t]]),
                 blank, [k \in 1 .. Len(seconds) |-> k])

Pairs(nb, most) ==
    LET order == InOrder(Live(nb), LAMBDA s, t : nb[s] > nb[t] \/ (nb[s] = nb[t] /\ s < t))
    IN  IF Eligible(nb) * 5 < 4 * 2 ^ PairLog THEN <<>>
        ELSE FlattenSeq([k \in 1 .. Len(order) |-> PairSpan(nb, most, order[k], order)])

-----------------------------------------------------------------------------
(* The lengths fill the code space exactly, none is longer than the cap,   *)
(* and no more frequent symbol has a longer code (build_lengths_into).     *)
TreeSound(counts, nb) ==
    LET cap == OptimalLog(counts)
    IN  /\ Live(nb) = Live(counts)
        /\ Longest(nb) <= cap
        /\ SumOver(Live(nb), LAMBDA s : 2 ^ (cap - nb[s])) = 2 ^ cap
        /\ \A s, t \in Live(nb) : counts[s] > counts[t] => nb[s] <= nb[t]

(* Where the cap does not bite, no complete code is shorter in total.      *)
Cost(counts, nb) == SumOver(Live(counts), LAMBDA s : counts[s] * nb[s])
Cheapest(counts, nb) ==
    Longest(nb) < OptimalLog(counts) /\ Cardinality(Live(counts)) <= 4 =>
        \A f \in [Live(counts) -> 1 .. 3] :
            SumOver(Live(counts), LAMBDA s : 2 ^ (3 - f[s])) = 8 => Cost(counts, nb) <= Cost(counts, f)

(* A description is read back as the weights it was written from, and the  *)
(* last one follows from them.                                             *)
DescriptionReads(nb) ==
    \A weights \in {[i \in 1 .. Max(Live(nb)) |-> WeightsOf(nb)[i - 1]]} :
        /\ \A bits \in {Description(weights)} : ReadWeights(bits) = [weights |-> weights, at |-> Len(bits)]
        /\ \A t \in {TableFrom(weights)} :
              t.ok /\ t.most = Longest(nb) /\ t.nb = [s \in 0 .. Max(Live(nb)) |-> nb[s]]

(* The decoder's entry for a code is the symbol the encoder gave it to.    *)
CodesAgree(nb, table, filled) ==
    /\ Len(filled) = 2 ^ Longest(nb)
    /\ \A s \in Live(nb) : \A rest \in 0 .. 2 ^ (Longest(nb) - nb[s]) - 1 :
          filled[table[s].code * 2 ^ (Longest(nb) - nb[s]) + rest + 1] = [symbol |-> s, nb |-> nb[s]]

(* A pair look-up is what one or two single ones say; a second symbol is   *)
(* there exactly when its whole code is in sight.                          *)
PairsAgree(nb, filled, pairs) ==
    LET most == Longest(nb)
        seen(u, at) == ((u * 2 ^ at) % 2 ^ PairLog) \div 2 ^ (PairLog - most)
        first(u) == filled[seen(u, 0) + 1]
        second(u) == filled[seen(u, first(u).nb) + 1]
    IN  pairs # <<>> =>
            /\ Len(pairs) = 2 ^ PairLog
            /\ \A u \in 0 .. 2 ^ PairLog - 1 :
                  pairs[u + 1] = IF first(u).nb + second(u).nb <= PairLog
                                 THEN [symbols |-> <<first(u).symbol, second(u).symbol>>,
                                       nb |-> first(u).nb + second(u).nb]
                                 ELSE [symbols |-> <<first(u).symbol>>, nb |-> first(u).nb]

(* All of it, from the counts of a block's literals.                       *)
CodesInverse(counts) ==
    \A nb \in {Lengths(counts)} :
        /\ TreeSound(counts, nb) /\ Cheapest(counts, nb) /\ DescriptionReads(nb)
        /\ \A table \in {Codes(WeightsOf(nb))} : \A filled \in {Filled(nb, Longest(nb))} :
              /\ \A s \in DOMAIN nb : table[s].nb = nb[s]
              /\ Uniform(WeightsOf(nb)) # 0 => \A s \in Live(nb) : nb[s] = Uniform(WeightsOf(nb))
              /\ CodesAgree(nb, table, filled)
              /\ PairsAgree(nb, filled, Pairs(nb, Longest(nb)))
=============================================================================
