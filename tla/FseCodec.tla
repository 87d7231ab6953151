------------------------------ MODULE FseCodec ------------------------------
(***************************************************************************)
(* Finite state entropy (fse): how a histogram becomes a distribution, how  *)
(* it is written and read back, the encoder's and the decoder's tables over *)
(* it, and the streams they write and read.  A stream is a sequence of      *)
(* bits in the order written; BitStream has the readers and the writers.    *)
(***************************************************************************)
EXTENDS Integers, Sequences, SequencesExt, FiniteSetsExt

CONSTANTS FixBits,     \* width of the normalisation's fixed point (62 in the code)
          RtbBits,     \* fraction bits of RTB_TABLE (20)
          Rtb          \* RTB_TABLE: what a small weight's fraction must beat, from weight 0

MinLog == 5            \* ACC_LOG_OFFSET
MaxLog == 12

HighBit(x) == CHOOSE k \in 0 .. 30 : 2 ^ k <= x /\ (k = 30 \/ x < 2 ^ (k + 1))
Clamp(x, low, high) == IF x < low THEN low ELSE IF x > high THEN high ELSE x
AbsOf(p) == IF p < 0 THEN - p ELSE p
Total(w, s) == FoldLeft(LAMBDA t, i : t + AbsOf(w[i]), 0, [i \in 1 .. s |-> i - 1])    \* below s
FirstOf(S, Better(_)) == CHOOSE s \in S : Better(s) /\ \A t \in S : t < s => ~Better(t)

-----------------------------------------------------------------------------
(* Histograms become distributions: count is a function on 0 .. m.         *)

(* optimal_table_log: a wrapped subtraction never caps.                    *)
OptimalLog(maxLog, size, m) ==
    LET least == Min({HighBit(size) + 2, HighBit(m) + 2})
        source == HighBit(size - 1) - 2
        capped == IF source >= 0 THEN Min({maxLog, source}) ELSE maxLog
    IN  Clamp(Max({capped, least}), MinLog, MaxLog)

(* normalize_m2: the small ones get one state each; the rest is shared in  *)
(* proportion, on a staircase that loses nothing.  <<>> where a share is 0. *)
Unassigned == -2
Assigned(norm) == Cardinality({s \in DOMAIN norm : norm[s] \notin {0, Unassigned}})
CountOf(norm, count) ==
    FoldLeft(LAMBDA t, s : IF norm[s] = Unassigned THEN t + count[s] ELSE t, 0,
             [i \in 1 .. Max(DOMAIN count) + 1 |-> i - 1])

RoundRobin(norm, more) ==
    LET live == {s \in DOMAIN norm : norm[s] > 0}
        rank(s) == Cardinality({t \in live : t < s})
    IN  [s \in DOMAIN norm |-> IF s \notin live THEN norm[s]
                               ELSE norm[s] + more \div Cardinality(live)
                                    + (IF rank(s) < more % Cardinality(live) THEN 1 ELSE 0)]

Staircase(norm, count, log, more, total) ==
    LET width == FixBits - log
        mid == 2 ^ (width - 1) - 1
        step == (2 ^ width * more + mid) \div total
        walk == FoldLeft(LAMBDA w, s :
                    IF norm[s] # Unassigned THEN w
                    ELSE [at |-> w.at + count[s] * step,
                          norm |-> [w.norm EXCEPT ![s] = (w.at + count[s] * step) \div 2 ^ width
                                                         - w.at \div 2 ^ width]],
                    [at |-> mid, norm |-> norm], [i \in 1 .. Max(DOMAIN count) + 1 |-> i - 1])
    IN  IF \E s \in DOMAIN norm : norm[s] = Unassigned /\ walk.norm[s] < 1 THEN <<>> ELSE walk.norm

Shared(norm, count, log, lowOne) ==
    LET more == 2 ^ log - Assigned(norm)
        total == CountOf(norm, count)
        largest == FirstOf(DOMAIN count, LAMBDA s : \A t \in DOMAIN count : count[t] <= count[s])
    IN  IF Assigned(norm) = Cardinality(DOMAIN norm) THEN [norm EXCEPT ![largest] = @ + more]
        ELSE IF total = 0 THEN RoundRobin(norm, more)
        ELSE Staircase(norm, count, log, more, total)

NormalizeM2(count, log, total, low) ==
    LET lowOne == (total * 3) \div 2 ^ (log + 1)
        norm == [s \in DOMAIN count |-> IF count[s] = 0 THEN 0
                    ELSE IF count[s] <= total \div 2 ^ log THEN low
                    ELSE IF count[s] <= lowOne THEN 1 ELSE Unassigned]
        more == 2 ^ log - Assigned(norm)
        left == CountOf(norm, count)
        bar == (left * 3) \div (more * 2)
    IN  IF more = 0 THEN norm
        ELSE IF left \div more > lowOne
             THEN Shared([s \in DOMAIN norm |-> IF norm[s] = Unassigned /\ count[s] <= bar THEN 1 ELSE norm[s]],
                         count, log, bar)
        ELSE Shared(norm, count, log, lowOne)

(* normalize_count: every weight is rounded by its own bar, the largest    *)
(* takes the difference, unless that would cost it half of its states.     *)
Weight(c, log, total, low) ==
    LET scale == FixBits - log
        scaled == c * (2 ^ FixBits \div total)
        p == scaled \div 2 ^ scale
    IN  IF c = 0 THEN 0
        ELSE IF c <= total \div 2 ^ log THEN low
        ELSE IF p < 8 /\ scaled - p * 2 ^ scale > 2 ^ (scale - RtbBits) * Rtb[p + 1] THEN p + 1 ELSE p

Normalize(count, log, total, low) ==
    LET norm == [s \in DOMAIN count |-> Weight(count[s], log, total, low)]
        plain == {s \in DOMAIN count : count[s] > total \div 2 ^ log /\ norm[s] > 0}
        largest == IF plain = {} THEN 0
                   ELSE FirstOf(plain, LAMBDA s : \A t \in plain : norm[t] <= norm[s])
        more == 2 ^ log - Total(norm, Max(DOMAIN count) + 1)
    IN  IF - more >= norm[largest] \div 2 THEN NormalizeM2(count, log, total, low)
        ELSE [norm EXCEPT ![largest] = @ + more]

(* flat_table: a state for every live symbol, the rest to the first most   *)
(* frequent one.                                                           *)
FlatLog(count) ==
    LET live == Cardinality({s \in DOMAIN count : count[s] > 0})
    IN  Max({MinLog, IF live = 1 THEN 0 ELSE HighBit(live - 1) + 1})
FlatNorm(count) ==
    LET live == {s \in DOMAIN count : count[s] > 0}
        largest == FirstOf(live, LAMBDA s : \A t \in live : count[t] <= count[s])
    IN  [s \in DOMAIN count |-> IF s \notin live THEN 0
            ELSE IF s = largest THEN 1 + 2 ^ FlatLog(count) - Cardinality(live) ELSE 1]
FlatTable(count) == [log |-> FlatLog(count), norm |-> FlatNorm(count)]

(* build_normalized_table: the last code rides in the initial state, so it *)
(* loses a count unless it is its only one.                                *)
FreshTable(count, last, maxLog, lowFrom) ==
    LET size == Total(count, Max(DOMAIN count) + 1)
        log == OptimalLog(maxLog, size, Max(DOMAIN count))
        lost == IF count[last] > 1 THEN 1 ELSE 0
        reduced == [count EXCEPT ![last] = @ - lost]
        norm == Normalize(reduced, log, size - lost, IF size - lost >= lowFrom THEN -1 ELSE 1)
    IN  IF norm = <<>> THEN FlatTable(count) ELSE [log |-> log, norm |-> norm]

-----------------------------------------------------------------------------
(* The description of a distribution.                                      *)

BitsOf(v, n) == [i \in 1 .. n |-> (v \div 2 ^ (i - 1)) % 2]
ValueAt(bits, at, n) == FoldLeft(LAMBDA x, k : x + bits[at + k] * 2 ^ (k - 1), 0, [k \in 1 .. n |-> k])
Padded(bits) == bits \o [i \in 1 .. (8 - (Len(bits) % 8)) % 8 |-> 0]

(* A run of zero weights: threes, then the rest in one more marker.        *)
ZeroRun(norm, s) == CHOOSE n \in 0 .. Max(DOMAIN norm) - s :
    /\ \A t \in s + 1 .. s + n : norm[t] = 0
    /\ s + n = Max(DOMAIN norm) \/ norm[s + n + 1] # 0
Markers(run) == [i \in 1 .. 2 * (run \div 3) |-> 1] \o BitsOf(run % 3, 2)

(* write_ncount: a weight takes as many bits as the states left require,   *)
(* one less where that is unambiguous.                                     *)
WriteOne(w, s, norm, size) ==
    LET threshold == 2 ^ HighBit(w.left)
        short == 2 * threshold - 1 - w.left
        raw == norm[s] + 1
        value == IF raw >= threshold THEN raw + short ELSE raw
        bits == HighBit(w.left) + (IF value < short THEN 0 ELSE 1)
    IN  IF w.left = 1 \/ w.skip > 0 THEN [w EXCEPT !.skip = IF @ = 0 THEN 0 ELSE @ - 1]
        ELSE [left |-> w.left - AbsOf(norm[s]),
              skip |-> IF norm[s] = 0 THEN ZeroRun(norm, s) ELSE 0,
              bits |-> w.bits \o BitsOf(value, bits)
                       \o (IF norm[s] = 0 THEN Markers(ZeroRun(norm, s)) ELSE <<>>)]

WriteNCount(norm, log) ==
    Padded(FoldLeft(LAMBDA w, i : WriteOne(w, i - 1, norm, 2 ^ log),
                    [left |-> 2 ^ log + 1, skip |-> 0, bits |-> BitsOf(log - MinLog, 4)],
                    [i \in 1 .. Max(DOMAIN norm) + 1 |-> i]).bits)

(* read_probabilities: the last weight's read may look one bit beyond the  *)
(* end, which only its short form hands back.                              *)
ReadOne(r, bits) ==
    LET most == r.left + 1
        n == HighBit(most) + 1
        have == Len(bits) - r.at
        seen == ValueAt(bits, r.at, Min({n, have}))
        low == 2 ^ n - 1 - most
        small == seen % 2 ^ (n - 1)
        value == IF small < low THEN small ELSE IF seen >= 2 ^ (n - 1) THEN seen - low ELSE seen
        at == r.at + (IF small < low THEN n - 1 ELSE n)
        prob == value - 1
        run == CHOOSE k \in 0 .. Len(bits) :     \* markers of three before the last one
                  /\ \A j \in 0 .. k - 1 : at + 2 * j + 2 <= Len(bits) /\ ValueAt(bits, at + 2 * j, 2) = 3
                  /\ at + 2 * k + 2 > Len(bits) \/ ValueAt(bits, at + 2 * k, 2) # 3
        end == at + 2 * run + 2
    IN  IF r.left = 0 \/ ~r.ok THEN r
        ELSE IF have <= 0 \/ n - have > 1 THEN [r EXCEPT !.ok = FALSE]
        ELSE IF at > Len(bits) THEN [r EXCEPT !.ok = FALSE]
        ELSE IF prob # 0 THEN [r EXCEPT !.at = at, !.left = @ - AbsOf(prob), !.norm = Append(@, prob)]
        ELSE IF end > Len(bits) THEN [r EXCEPT !.ok = FALSE]
        ELSE [r EXCEPT !.at = end,
                       !.norm = @ \o [i \in 1 .. 1 + 3 * run + ValueAt(bits, end - 2, 2) |-> 0]]

ReadNCount(bits, maxLog, maxSymbol) ==
    LET log == MinLog + ValueAt(bits, 0, 4)
        r == FoldLeft(LAMBDA t, i : ReadOne(t, bits),
                      [at |-> 4, left |-> 2 ^ log, norm |-> <<>>, ok |-> TRUE],
                      [i \in 1 .. maxSymbol + 1 |-> i])
    IN  IF Len(bits) < 4 \/ log > maxLog THEN [ok |-> FALSE]
        ELSE [ok |-> r.ok /\ r.left = 0 /\ Len(r.norm) <= maxSymbol + 1, log |-> log, norm |-> r.norm,
              bytes |-> (r.at + 7) \div 8]

-----------------------------------------------------------------------------
(* The encoder's table (build_table_body).                                 *)

Step(size) == size \div 2 + size \div 8 + 3
Rare(norm) == {s \in DOMAIN norm : norm[s] = -1}
High(norm, size) == size - Cardinality(Rare(norm))      \* high_threshold + 1
RareAt(norm, size, u) == CHOOSE s \in Rare(norm) : size - 1 - Cardinality({t \in Rare(norm) : t < s}) = u
Runs(norm) ==
    FoldLeft(LAMBDA run, i : run \o [k \in 1 .. (IF norm[i] > 0 THEN norm[i] ELSE 0) |-> i],
             <<>>, [i \in 1 .. Max(DOMAIN norm) + 1 |-> i - 1])

(* The walk of constant step, two positions at a time.                     *)
PairWalk(size) ==
    FoldLeft(LAMBDA w, k : [at |-> (w.at + 2 * Step(size)) % size,
                            seq |-> w.seq \o <<w.at, (w.at + Step(size)) % size>>],
             [at |-> 0, seq |-> <<>>], [k \in 1 .. size \div 2 |-> k]).seq

(* The walk that skips the rare symbols' positions, from one to the next.  *)
NextFree(p, size, high) ==
    LET after == [k \in 1 .. size |-> (p + k * Step(size)) % size]
    IN  after[CHOOSE k \in 1 .. size : after[k] < high /\ \A j \in 1 .. k - 1 : after[j] >= high]
SkipWalk(size, high) ==
    FoldLeft(LAMBDA w, k : Append(w, NextFree(Last(w), size, high)), <<0>>, [k \in 1 .. high - 1 |-> k])

OwnerOf(norm, size, walk) ==
    [u \in 0 .. size - 1 |->
        IF u >= High(norm, size) THEN RareAt(norm, size, u)
        ELSE Runs(norm)[CHOOSE k \in DOMAIN walk : walk[k] = u]]

Owner(norm, size) ==
    OwnerOf(norm, size, IF Rare(norm) = {} THEN PairWalk(size) ELSE SkipWalk(size, High(norm, size)))

(* tt: the bits of a step and where its symbol's row of states starts.     *)
Transform(p, log, total) ==
    LET bits == log - (IF 2 ^ HighBit(p) = p THEN HighBit(p) ELSE HighBit(p) + 1)
    IN  IF p \in {1, -1} THEN [nb |-> log * 65536 - 2 ^ log, find |-> total - 1]
        ELSE [nb |-> (bits + 1) * 65536 - p * 2 ^ (bits + 1), find |-> total - p]

Encoder(norm, log) ==
    LET size == 2 ^ log
        owners == Owner(norm, size)
        rows == FoldLeft(LAMBDA row, s : row \o SelectSeq([i \in 1 .. size |-> i - 1], LAMBDA u : owners[u] = s),
                         <<>>, [i \in 1 .. Max(DOMAIN norm) + 1 |-> i - 1])
        live == {s \in DOMAIN norm : norm[s] # 0}
    IN  [log |-> log,
         states |-> [i \in 0 .. size - 1 |-> size + rows[i + 1]],
         tt |-> [s \in live |-> Transform(norm[s], log, Total(norm, s))],
         start |-> [s \in live |-> size + rows[Total(norm, s) + 1]]]

(* FSETable::step.                                                         *)
StepOf(t, s, state) ==
    LET nb == (state + t.tt[s].nb) \div 65536
    IN  [nb |-> nb, emit |-> state % 2 ^ nb, next |-> t.states[state \div 2 ^ nb + t.tt[s].find]]

-----------------------------------------------------------------------------
(* The decoder's table (build_decoding_table).                             *)

(* calc_symbol_spread_info: of a symbol's states the first few read one    *)
(* bit more and start above the others.                                    *)
SpreadInfo(size, p) ==
    LET slices == IF 2 ^ HighBit(p) = p THEN p ELSE 2 ^ (HighBit(p) + 1)
        width == size \div slices
    IN  [double |-> slices - p, above |-> (p - (slices - p)) * width, width |-> width, bits |-> HighBit(width)]

DecoderEntry(norm, log, owners, u) ==
    LET s == owners[u]
        nth == Cardinality({v \in 0 .. u - 1 : owners[v] = s})
        info == SpreadInfo(2 ^ log, norm[s])
    IN  IF norm[s] = -1 THEN [symbol |-> s, base |-> 0, bits |-> log]
        ELSE IF nth < info.double
             THEN [symbol |-> s, base |-> info.above + nth * 2 * info.width, bits |-> info.bits + 1]
        ELSE [symbol |-> s, base |-> (nth - info.double) * info.width, bits |-> info.bits]

Decoder(norm, log) ==
    LET owners == OwnerOf(norm, 2 ^ log, SkipWalk(2 ^ log, High(norm, 2 ^ log)))
    IN  [u \in 0 .. 2 ^ log - 1 |-> DecoderEntry(norm, log, owners, u)]

-----------------------------------------------------------------------------
(* Streams: encode_interleaved, and the loop of read_weights.              *)

Taken(e, t, s, k) ==      \* one symbol on the k-th state
    LET step == StepOf(t, s, e.states[k])
    IN  [bits |-> e.bits \o BitsOf(step.emit, step.nb), states |-> [e.states EXCEPT ![k] = step.next]]

(* The last two symbols start the states; the states alternate back to the *)
(* first symbol and are written so that its own comes last.                *)
Interleaved(t, data) ==
    LET n == Len(data)
        turn(i) == IF (n - i) % 2 = 0 THEN 1 ELSE 2
        end == FoldLeft(LAMBDA e, k : Taken(e, t, data[n - 1 - k], turn(n - 1 - k)),
                        [bits |-> <<>>, states |-> <<t.start[data[n]], t.start[data[n - 1]]>>],
                        [k \in 1 .. n - 2 |-> k])
        state(k) == BitsOf(end.states[k] % 2 ^ t.log, t.log)
    IN  end.bits \o state(3 - turn(1)) \o state(turn(1))

Entry(table, d, k) == table[d.states[k]]
Drawn(bits, d, n) ==      \* from the back; zeroes beyond the front
    FoldLeft(LAMBDA x, j : 2 * x + (IF d.at - j >= 0 THEN bits[d.at - j + 1] ELSE 0), 0, [j \in 1 .. n |-> j])

Emitted(table, bits, d, k) ==
    LET e == Entry(table, d, k)
        next == [d EXCEPT !.at = @ - e.bits, !.states[k] = e.base + Drawn(bits, d, e.bits),
                          !.out = Append(@, e.symbol)]
    IN  IF d.done THEN d
        ELSE IF d.at - e.bits <= -1
             THEN [next EXCEPT !.out = Append(@, Entry(table, d, 3 - k).symbol), !.done = TRUE]
        ELSE next

Deinterleaved(table, log, bits, most) ==
    LET start == [at |-> Len(bits), states |-> <<0, 0>>, out |-> <<>>, done |-> FALSE]
        one == [start EXCEPT !.at = @ - log, !.states[1] = Drawn(bits, start, log)]
        two == [one EXCEPT !.at = @ - log, !.states[2] = Drawn(bits, one, log)]
    IN  FoldLeft(LAMBDA d, i : Emitted(table, bits, d, 2 - (i % 2)), two, [i \in 1 .. most |-> i]).out

-----------------------------------------------------------------------------
(* A distribution covers every counted symbol and gives out every state,   *)
(* however skewed the histogram (normalize_count, flat_table).             *)
Covers(count, t) ==
    /\ Total(t.norm, Max(DOMAIN count) + 1) = 2 ^ t.log
    /\ \A s \in DOMAIN count : (t.norm[s] # 0) = (count[s] > 0)

(* Every step of the encoder is the decoder's, read backwards (the claim of *)
(* check_tables), and every decoder state has such a step.                 *)
StepsInvert(enc, dec, log) ==
    /\ \A s \in DOMAIN enc.tt : \A i \in 0 .. 2 ^ log - 1 : \A step \in {StepOf(enc, s, 2 ^ log + i)} :
          \A e \in {dec[step.next - 2 ^ log]} :
             e.symbol = s /\ e.bits = step.nb /\ e.base + step.emit = i
    /\ \A s \in DOMAIN enc.tt : dec[enc.start[s] - 2 ^ log].symbol = s /\ dec[enc.start[s] - 2 ^ log].bits > 0

(* What is read is what was written, down to the byte, and a description   *)
(* cut short is refused.                                                   *)
DescriptionReads(t) ==
    \A bits \in {WriteNCount(t.norm, t.log)} : \A m \in {Max(DOMAIN t.norm)} :
        /\ \A r \in {ReadNCount(bits, t.log, m)} :
              /\ r.ok /\ r.log = t.log /\ 8 * r.bytes = Len(bits)
              /\ r.norm = [i \in 1 .. m + 1 |-> t.norm[i - 1]]
        /\ ~ReadNCount(SubSeq(bits, 1, Len(bits) - 8), t.log, m).ok

(* All of it, from a histogram to two interleaved streams and back, over   *)
(* the table the code builds and over the fallback it keeps for a share of *)
(* zero states.                                                            *)
CodedInverse(h) ==
    \A t \in {FreshTable(h.count, h.last, h.maxLog, h.lowFrom), FlatTable(h.count)} :
        /\ Covers(h.count, t)
        /\ DescriptionReads(t)
        /\ \A enc \in {Encoder(t.norm, t.log)} : \A dec \in {Decoder(t.norm, t.log)} :
              /\ StepsInvert(enc, dec, t.log)
              /\ \A data \in h.messages :
                    Deinterleaved(dec, t.log, Interleaved(enc, data), Len(data) + 2) = data
=============================================================================
