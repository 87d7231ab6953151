------------------------------ MODULE BitStream ------------------------------
(***************************************************************************)
(* Bit streams (bit_io): a writer that fills a container of bits and spills *)
(* it byte by byte, its batched forms for Huffman codes, and the readers    *)
(* from the front and from the back.  Byte and Container are 8 and 64,      *)
(* Round, MaxCode, Nibble, Counter and Group 5, 11, 4, 8 and 16 in the code. *)
(***************************************************************************)
EXTENDS Integers, Sequences, SequencesExt, Bitwise

CONSTANTS
    Byte, Container,   \* bits of a byte, of the accumulator
    Round, MaxCode,    \* codes per container of the batched writer, the longest code's bits
    Nibble, Counter,   \* the bits that hold a code's length, and a round's sum of lengths
    Group              \* symbols of one bulk store of half-byte codes

(* What the rounds rely on: a container takes the bits a flush left and a  *)
(* round of codes; only its last code reaches the length's bits.           *)
BitStreamAssumption ==
    /\ Container % Byte = 0 /\ Byte % 2 = 0 /\ Group % 2 = 0
    /\ Byte - 1 + Round * MaxCode <= Container
    /\ Byte - 1 + (Round - 1) * MaxCode <= Container - Nibble
    /\ MaxCode < 2 ^ Nibble /\ 2 ^ Nibble <= Container
    /\ Container < 2 ^ Counter /\ Counter <= Container - MaxCode

-----------------------------------------------------------------------------
(* The writer: whole bytes in out, the rest in the low bits of partial.    *)

Empty == [out |-> <<>>, partial |-> 0, pending |-> 0]
Index(w) == Byte * Len(w.out) + w.pending
Misaligned(w) == IF Index(w) % Byte = 0 THEN 0 ELSE Byte - (Index(w) % Byte)
Low(x, n) == x % 2 ^ n
Bytes(x, n) == [i \in 1 .. n |-> Low(x \div 2 ^ (Byte * (i - 1)), Byte)]

Flush(w) ==
    LET n == w.pending \div Byte
    IN  [out |-> w.out \o Bytes(w.partial, n), partial |-> w.partial \div 2 ^ (Byte * n),
         pending |-> w.pending - Byte * n]

(* Mutant of Spill: the bits that did not fit are written from the first.  *)
SpillRestarts(w, bits, n) ==
    LET left == n + w.pending - Container
        full == left \div Byte
    IN  [out |-> w.out \o Bytes(w.partial | Low(bits * 2 ^ w.pending, Container), Container \div Byte)
                       \o Bytes(bits, full),
         partial |-> Low(bits \div 2 ^ (Byte * full), left % Byte), pending |-> left % Byte]

(* write_bits_64_cold: the container is filled and stored; what is left of *)
(* the bits goes out byte by byte, the last few into the container.        *)
Spill(w, bits, n) ==
    LET left == n + w.pending - Container
        full == left \div Byte
        rest == bits \div 2 ^ (Container - w.pending)
    IN  [out |-> w.out \o Bytes(w.partial | Low(bits * 2 ^ w.pending, Container), Container \div Byte)
                       \o Bytes(rest, full),
         partial |-> Low(rest \div 2 ^ (Byte * full), left % Byte), pending |-> left % Byte]

WriteBits(w, bits, n) ==
    IF n = 0 THEN w
    ELSE IF n + w.pending < Container
         THEN [w EXCEPT !.partial = @ | (bits * 2 ^ w.pending), !.pending = @ + n]
         ELSE Spill(w, bits, n)

(* The end marker of a stream read from the back: a one and zeroes, a byte *)
(* of its own when the stream is aligned.                                  *)
Terminated(w) == WriteBits(w, 1, IF Misaligned(w) = 0 THEN Byte ELSE Misaligned(w))

(* change_bits_64: the upper bits of the first byte, whole bytes, and the  *)
(* lower bits of the last one.                                             *)
ChangeBits(w, at, bits, n) ==
    LET f == Flush(w)
        head == IF at % Byte = 0 THEN 0 ELSE Byte - (at % Byte)
        first == at \div Byte + 1
        start == (at + head) \div Byte
        full == (n - head) \div Byte
        tail == (n - head) % Byte
        rest == bits \div 2 ^ head
        old(i) == f.out[i]
    IN  [f EXCEPT !.out = [i \in DOMAIN f.out |->
            IF head > 0 /\ i = first THEN Low(old(i), Byte - head) + Low(bits, head) * 2 ^ (Byte - head)
            ELSE IF i \in start + 1 .. start + full THEN Low(rest \div 2 ^ (Byte * (i - start - 1)), Byte)
            ELSE IF tail > 0 /\ i = start + full + 1
                 THEN old(i) - Low(old(i), tail) + rest \div 2 ^ (Byte * full)
            ELSE old(i)]]

-----------------------------------------------------------------------------
(* write_packed_codes_rev: the codes of data, last symbol first.           *)

(* aligned: the code on top, its length in the lowest bits.                *)
Element(code) == code.v * 2 ^ (Container - code.n) + code.n

(* The pending bits stand at the container's top; the length's bits get in *)
(* below them, and the count b is exact in its low bits only.              *)
AddCode(s, e, clean) ==
    [s EXCEPT !.c = (@ \div 2 ^ (e % Container)) | (IF clean THEN e - Low(e, Nibble) ELSE e),
              !.b = Low(@ + e, Container)]

FlushTop(s) ==
    IF Low(s.b, Counter) < Byte THEN s
    ELSE [s EXCEPT !.out = @ \o Bytes(s.c \div 2 ^ (Container - (s.b % Container)), Low(s.b, Counter) \div Byte),
                   !.b = @ % Byte]

(* The next k codes from the i-th symbol back; the last one is cleaned.    *)
AddCodes(s, codes, i, k) ==
    FoldLeft(LAMBDA t, j : AddCode(t, Element(codes[i - j]), j = k - 1), s, [j \in 1 .. k |-> j - 1])

(* Two containers are filled side by side and merged.                      *)
DoubleRound(s, codes, i) ==
    LET first == FlushTop(AddCodes(s, codes, i, Round))
        second == AddCodes([c |-> 0, b |-> 0], codes, i - Round, Round)
    IN  FlushTop([first EXCEPT !.c = (@ \div 2 ^ (second.b % Container)) | second.c,
                               !.b = Low(@ + second.b, Container)])

PackCodes(w, codes) ==
    LET n == Len(codes)
        pairs == n \div (2 * Round)
        head == n % (2 * Round)
        start == FlushTop([c |-> Low(w.partial * 2 ^ ((Container - w.pending) % Container), Container),
                           b |-> w.pending, out |-> w.out])
        body == FoldLeft(LAMBDA s, k : DoubleRound(s, codes, n - 2 * Round * (k - 1)),
                         start, [k \in 1 .. pairs |-> k])
        groups == IF head = 0 THEN <<>> ELSE IF head <= Round THEN <<head>> ELSE <<head, head - Round>>
        end == FoldLeft(LAMBDA s, i : FlushTop(AddCodes(s, codes, i, IF i < Round THEN i ELSE Round)),
                        body, groups)
    IN  [out |-> end.out, pending |-> end.b % Byte,
         partial |-> IF end.b % Byte = 0 THEN 0 ELSE end.c \div 2 ^ (Container - (end.b % Byte))]

(* write_uniform4_bulk: codes of half a byte, two of them a byte; the      *)
(* symbols before the last whole group are left.                           *)
PackHalves(w, codes) ==
    LET odd == IF w.pending % Byte = 0 THEN 0 ELSE 1
        aligned == Flush(IF odd = 0 THEN w ELSE
                         [w EXCEPT !.partial = @ | (codes[Len(codes)].v * 2 ^ w.pending),
                                   !.pending = @ + Byte \div 2])
        n == Len(codes) - odd
        groups == n \div Group
        pair(j) == codes[n - 2 * j + 2].v + codes[n - 2 * j + 1].v * 2 ^ (Byte \div 2)
    IN  [w |-> [aligned EXCEPT !.out = @ \o [j \in 1 .. (groups * Group) \div 2 |-> pair(j)]],
         left |-> SubSeq(codes, 1, n - groups * Group)]

WriteCodes(w, codes) ==
    IF /\ Len(codes) >= Group /\ w.pending % (Byte \div 2) = 0
       /\ \A i \in DOMAIN codes : codes[i].n = Byte \div 2
    THEN LET h == PackHalves(w, codes) IN PackCodes(h.w, h.left)
    ELSE PackCodes(w, codes)

-----------------------------------------------------------------------------
(* BitReader: from the front.                                              *)

BitAt(src, i) == (src[i \div Byte + 1] \div 2 ^ (i % Byte)) % 2
Bits(src, at, n) == FoldLeft(LAMBDA x, k : x + BitAt(src, at + k) * 2 ^ k, 0, [k \in 1 .. n |-> k - 1])

(* get_bits_zero_padded: up to slack bits beyond the end read as zeroes;   *)
(* -1 where the stream is too short.                                       *)
BitsPadded(src, at, n, slack) ==
    LET left == Byte * Len(src) - at
    IN  IF left <= 0 \/ n - left > slack THEN -1
        ELSE Bits(src, at, IF n < left THEN n ELSE left)

-----------------------------------------------------------------------------
(* BitReaderReversed: a container's window that moves towards the front.   *)

Behind(src) == [index |-> Len(src), consumed |-> Container, extra |-> 0, container |-> 0]
Remaining(r) == r.index * Byte + (Container - r.consumed) - r.extra

Loaded(src, from) ==
    FoldLeft(LAMBDA x, i : x + (IF from + i <= Len(src) THEN src[from + i] * 2 ^ (Byte * (i - 1)) ELSE 0),
             0, [i \in 1 .. Container \div Byte |-> i])

Shifted(r, by) ==
    [r EXCEPT !.container = Low(Low(@, Container - by) * 2 ^ by, Container),
              !.extra = @ + by, !.consumed = 0]

Refill(src, r) ==
    LET n == r.consumed \div Byte
        short == r.consumed - Byte * r.index
    IN  IF n = 0 THEN r
        ELSE IF r.index >= n
             THEN [r EXCEPT !.index = @ - n, !.consumed = @ % Byte, !.container = Loaded(src, r.index - n)]
        ELSE IF r.index > 0
             THEN [Shifted([r EXCEPT !.container = Loaded(src, 0)], short) EXCEPT !.index = 0]
        ELSE IF r.consumed < Container THEN Shifted(r, r.consumed)
        ELSE [r EXCEPT !.container = 0, !.extra = @ + r.consumed, !.consumed = 0]

(* get_bits: peek_bits and consume.                                        *)
Get(src, r, n) ==
    LET f == IF r.consumed + n > Container THEN Refill(src, r) ELSE r
    IN  [r |-> [f EXCEPT !.consumed = @ + n],
         v |-> IF n = 0 THEN 0 ELSE Low(f.container \div 2 ^ (Container - f.consumed - n), n)]

(* skip_padding_marker: up to the first one, within a byte.                *)
SkipMarker(src, r) ==
    FoldLeft(LAMBDA s, k : IF s.found THEN s
                           ELSE LET g == Get(src, s.r, 1) IN [r |-> g.r, found |-> g.v = 1],
             [r |-> r, found |-> FALSE], [k \in 1 .. Byte |-> k])

Reads(src, r, widths) ==
    FoldLeft(LAMBDA s, n : LET g == Get(src, s.r, n) IN [r |-> g.r, vs |-> Append(s.vs, g.v)],
             [r |-> r, vs |-> <<>>], widths)

-----------------------------------------------------------------------------
(* A stream of single writes and then codes, and a later change of bits.   *)

Written(s) ==
    LET singles == FoldLeft(LAMBDA w, x : WriteBits(w, x.v, x.n), Empty, s.before)
    IN  Flush(Terminated(WriteCodes(singles, s.codes)))

(* Whatever container state a write meets, the reader from the back gets   *)
(* the codes in the order of the data and the single writes from the last  *)
(* to the first, ends exactly at the front, and reads zeroes from there on; *)
(* the reader from the front gets the single writes in order, and after a  *)
(* change the changed bits and no others.                                  *)
ReadsBack(s) ==
    \A src \in {Written(s).out} : \A start \in {SkipMarker(src, Behind(src))} :
        /\ start.found
        /\ \A got \in {Reads(src, start.r, [i \in DOMAIN s.codes |-> s.codes[i].n]
                                           \o [i \in DOMAIN s.before |-> Reverse(s.before)[i].n])} :
              /\ got.vs = [i \in DOMAIN s.codes |-> s.codes[i].v]
                          \o [i \in DOMAIN s.before |-> Reverse(s.before)[i].v]
              /\ Remaining(got.r) = 0
              /\ \A past \in {Reads(src, got.r, <<Byte - 1, Container - Byte, 2>>)} :
                    past.vs = <<0, 0, 0>> /\ Remaining(past.r) = - (Container + 1)
        /\ \A k \in DOMAIN s.before :
              Bits(src, FoldLeft(LAMBDA at, i : at + s.before[i].n, 0, [i \in 1 .. k - 1 |-> i]),
                   s.before[k].n) = s.before[k].v
        /\ \A p \in s.patches : p.at + p.n < Byte * Len(src) =>
              \A out \in {ChangeBits(Written(s), p.at, p.v, p.n).out} :
                  /\ Bits(out, p.at, p.n) = p.v
                  /\ \A i \in (0 .. Byte * Len(src) - 1) \ (p.at .. p.at + p.n - 1) :
                        BitAt(out, i) = BitAt(src, i)
        /\ BitsPadded(src, Byte * Len(src) - 2, 3, 1) = Bits(src, Byte * Len(src) - 2, 2)
        /\ BitsPadded(src, Byte * Len(src) - 2, 4, 1) = -1
=============================================================================
