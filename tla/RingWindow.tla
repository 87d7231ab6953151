------------------------------ MODULE RingWindow ------------------------------
(***************************************************************************)
(* The ring a frame is decoded into and matched against                    *)
(* (decoding/ringbuffer.rs) under the buffer that counts, hashes and drains *)
(* it (decoding/decode_buffer.rs).                                         *)
(*                                                                         *)
(* A byte is a token: a literal is named by its position in the frame, a    *)
(* dictionary byte is negative, and 0 is what memory held before.  The      *)
(* frame's whole output is kept in `ring_out`, which the code does not have: the *)
(* ring must serve its end, and the checksum must have seen its beginning.  *)
(***************************************************************************)
EXTENDS Integers, Sequences

CONSTANTS
    Slack,       \* 2 * MAX_BLOCK_SIZE in reserve_amortized
    CopyAtOnce,  \* COPY_AT_ONCE_SIZE of copy_bytes_overshooting
    Powers,      \* the powers of two a usize holds
    RingWindows, RingDicts, RingSizes, RingOffsets,  \* the windows, dictionaries, runs and
    RingOutput, RingFrames                           \* offsets explored, and two bounds

ASSUME RingWindowAssumption ==
    /\ Slack \in Nat /\ CopyAtOnce \in Nat \ {0}
    /\ Powers \subseteq Nat
    /\ RingWindows \subseteq Nat /\ RingDicts \subseteq Nat
    /\ RingSizes \subseteq Nat \ {0} /\ RingOffsets \subseteq Nat \ {0}
    /\ RingOutput \in Nat /\ RingFrames \in Nat

VARIABLES
    ring,                \* RingBuffer
    ring_dict,           \* the length of dict_content
    ring_window, total,  \* window_size, total_output_counter
    hash,                \* the bytes the checksum has absorbed
    todo,                \* what is left of a repeat
    ring_out, frames

ringVars == <<ring, ring_dict, ring_window, total, hash, todo, ring_out, frames>>

Old == 0

MinOf(a, b) == IF a < b THEN a ELSE b
MaxOf(a, b) == IF a < b THEN b ELSE a

-----------------------------------------------------------------------------
(* RingBuffer.  A ring r is [cap, head, tail, mem].                         *)

NewRing == [cap |-> 0, head |-> 0, tail |-> 0, mem |-> [i \in 0 .. -1 |-> Old]]

wrap_add(pos, n, cap) == IF pos + n >= cap THEN pos + n - cap ELSE pos + n

(* data_slice_lengths, free_slice_lengths: the part that begins at the       *)
(* cursor, and the part at the start of memory.                            *)
DataFirst(r) == IF r.tail >= r.head THEN r.tail - r.head ELSE r.cap - r.head
DataSecond(r) == IF r.tail >= r.head THEN 0 ELSE r.tail
FreeFirst(r) == IF r.tail < r.head THEN r.head - r.tail ELSE r.cap - r.tail
FreeSecond(r) == IF r.tail < r.head THEN 0 ELSE r.head

Length(r) == DataFirst(r) + DataSecond(r)

(* Mutant of Free: no slot is kept for the sentinel.                        *)
FreeAll(r) == FreeFirst(r) + FreeSecond(r)

Free(r) == MaxOf(FreeFirst(r) + FreeSecond(r) - 1, 0)

InData(r, i) == IF r.tail >= r.head THEN r.head <= i /\ i < r.tail ELSE i >= r.head \/ i < r.tail

(* What lies outside the data is Old, whatever was written there: a read of *)
(* it shows, and states that differ in it only are not told apart.          *)
Forget(r) == [r EXCEPT !.mem = [i \in 0 .. r.cap - 1 |-> IF InData(r, i) THEN r.mem[i] ELSE Old]]

Clear(r) == Forget([r EXCEPT !.head = 0, !.tail = 0])

NextPow2(n) ==
    LET least(p) == p >= n /\ \A q \in Powers : q >= n => p <= q
    IN  IF \E p \in Powers : least(p) THEN CHOOSE p \in Powers : least(p) ELSE 0

Required(r, amount) == r.cap + (amount - Free(r)) + 1

NewCap(r, amount) ==
    LET required == Required(r, amount)
    IN  IF required <= Slack THEN MaxOf(NextPow2(r.cap), NextPow2(required))
                             ELSE NextPow2(required - Slack) + Slack

(* The assertion of reserve_amortized, without which the call panics.       *)
Fits(r, amount) == Free(r) >= amount \/ NewCap(r, amount) >= Required(r, amount)

(* reserve: growing lays the data out from the front of the new memory.     *)
Reserve(r, amount) ==
    IF Free(r) >= amount THEN r
    ELSE [cap |-> NewCap(r, amount), head |-> 0, tail |-> Length(r),
          mem |-> [i \in 0 .. NewCap(r, amount) - 1 |->
                      IF i < DataFirst(r) THEN r.mem[r.head + i]
                      ELSE IF i < Length(r) THEN r.mem[i - DataFirst(r)] ELSE Old]]

Advance(r, n, mem) ==
    Forget([r EXCEPT !.tail = wrap_add(r.tail, n, r.cap), !.mem = mem])

(* The bytes laid out behind the write cursor, without advancing it.        *)
Laid(r, bytes) ==
    LET n == Len(bytes)
        first == MinOf(n, FreeFirst(r))
    IN  [i \in 0 .. r.cap - 1 |->
            IF r.tail <= i /\ i < r.tail + first THEN bytes[i - r.tail + 1]
            ELSE IF i < n - first THEN bytes[first + i + 1]
            ELSE r.mem[i]]

(* extend, extend_pre_reserved, extend_and_fill.                            *)
Extend(r, bytes) ==
    LET s == Reserve(r, Len(bytes)) IN Advance(s, Len(bytes), Laid(s, bytes))

(* How far copy_bytes_overshooting runs past n: it copies whole chunks when  *)
(* both sides have room for them.                                          *)
RoundUp(n) == ((n + CopyAtOnce - 1) \div CopyAtOnce) * CopyAtOnce
Overshoot(room, n) ==
    IF room >= CopyAtOnce /\ n <= CopyAtOnce THEN CopyAtOnce - n
    ELSE IF room >= RoundUp(n) THEN RoundUp(n) - n ELSE 0

Copy(mem, src, srcLen, dst, dstLen, n) ==
    LET end == dst + n + Overshoot(MinOf(srcLen, dstLen), n)
    IN  [i \in DOMAIN mem |-> IF dst <= i /\ i < end THEN mem[src + i - dst] ELSE mem[i]]

(* Mutant of Within: a source that starts at the wrap is taken as unwrapped, *)
(* and the copy may run past the head.                                     *)
WithinPastHead(r, start, n) ==
    IF r.head < r.tail
    THEN LET here == MinOf(n, r.cap - r.tail)
             once == Copy(r.mem, r.head + start, r.tail - r.head - start,
                          r.tail, r.cap - r.tail, here)
         IN  IF here = n THEN once
             ELSE Copy(once, r.head + start + here, r.tail - r.head - start - here,
                       0, r.cap, n - here)
    ELSE LET s == wrap_add(r.head, start, r.cap)
         IN  Copy(r.mem, s, r.cap - s, r.tail, r.cap - r.tail, n)

(* extend_from_within_unchecked: n bytes from position `start` of the data,  *)
(* in the layouts of the two regions.                                      *)
Within(r, start, n) ==
    IF r.head < r.tail
    THEN LET here == MinOf(n, r.cap - r.tail)
             once == Copy(r.mem, r.head + start, r.tail - r.head - start,
                          r.tail, r.cap - r.tail, here)
         IN  IF here = n THEN once
             ELSE Copy(once, r.head + start + here, r.tail - r.head - start - here,
                       0, r.head, n - here)
    ELSE IF r.head + start > r.cap
    THEN LET s == wrap_add(r.head, start, r.cap)
         IN  Copy(r.mem, s, r.tail - s, r.tail, r.head - r.tail, n)
    ELSE LET here == MinOf(n, r.cap - r.head - start)
             once == Copy(r.mem, r.head + start, r.cap - r.head - start,
                          r.tail, r.head - r.tail, here)
         IN  IF here = n THEN once
             ELSE Copy(once, 0, r.tail, r.tail + here, r.head - r.tail - here, n - here)

DropFirst(r, amount) ==
    Forget([r EXCEPT !.head = wrap_add(r.head, MinOf(amount, Length(r)), r.cap)])

ByteAt(r, i) == r.mem[wrap_add(r.head, i, r.cap)]

-----------------------------------------------------------------------------
(* DecodeBuffer.                                                           *)
NoRepeat == [at |-> "idle", left |-> 0]
Idle == todo.at = "idle"

(* What the format says the next n bytes are: literals, or the bytes offset  *)
(* behind, out of the output and the dictionary before it.                 *)
Literals(n) == [i \in 1 .. n |-> Len(ring_out) + i]
Past(v) == IF v > 0 THEN ring_out[v] ELSE v - 1
Match(offset, n) == [i \in 1 .. n |-> Past(Len(ring_out) - offset + 1 + ((i - 1) % offset))]

(* dict_content[low ..], n bytes of it.                                    *)
DictSlice(low, n) == [i \in 1 .. n |-> low + i - 1 - ring_dict]

Grow(bytes) ==
    /\ Len(ring_out) + Len(bytes) <= RingOutput
    /\ ring_out' = ring_out \o bytes

RingInit ==
    /\ ring = NewRing
    /\ ring_dict = 0 /\ ring_window = 0 /\ total = 0 /\ hash = <<>>
    /\ todo = NoRepeat /\ ring_out = <<>> /\ frames = 0

(* reset, and the dictionary of the frame: the ring keeps its memory.       *)
ResetBuffer(w, d) ==
    /\ Idle /\ frames < RingFrames
    /\ Fits(Clear(ring), w)
    /\ ring' = Reserve(Clear(ring), w)
    /\ ring_window' = w /\ ring_dict' = d
    /\ total' = 0 /\ hash' = <<>> /\ ring_out' = <<>>
    /\ frames' = frames + 1
    /\ UNCHANGED todo

(* reserve: room for a whole block.                                        *)
ReserveBlock(amount) ==
    /\ Idle /\ frames > 0 /\ Free(ring) < amount
    /\ Fits(ring, amount)
    /\ ring' = Reserve(ring, amount)
    /\ UNCHANGED <<ring_dict, ring_window, total, hash, todo, ring_out, frames>>

PushLiterals(n) ==
    /\ Idle /\ frames > 0
    /\ Fits(ring, n)
    /\ Grow(Literals(n))
    /\ ring' = Extend(ring, Literals(n))
    /\ total' = total + n
    /\ UNCHANGED <<ring_dict, ring_window, hash, todo, frames>>

(* extend_from_reader on a reader that ends after `got` bytes: the free part *)
(* is zeroed and partly filled, and the cursor stays.                      *)
ReadShort(n, got) ==
    LET r == Reserve(ring, n)
        zeroed == IF got < FreeFirst(r) THEN MinOf(n, FreeFirst(r)) ELSE n
    IN
    /\ Idle /\ frames > 0 /\ got < n
    /\ Fits(ring, n)
    /\ ring' = Forget([r EXCEPT !.mem = Laid(r, [i \in 1 .. zeroed |->
                                             IF i <= got THEN Len(ring_out) + i ELSE Old])])
    /\ UNCHANGED <<ring_dict, ring_window, total, hash, todo, ring_out, frames>>

(* repeat: a source inside the ring is copied, in one piece or in chunks.   *)
Repeat(offset, n) ==
    /\ Idle /\ frames > 0
    /\ offset <= Length(ring) /\ Fits(ring, n)
    /\ Grow(Match(offset, n))
    /\ ring' = Reserve(ring, n)
    /\ todo' = [at |-> "copy", start |-> Length(ring) - offset, offset |-> offset,
                copied |-> 0, left |-> n, count |-> n]
    /\ UNCHANGED <<ring_dict, ring_window, total, hash, frames>>

(* Mutant of Chunk: every chunk as long as what is left.                    *)
ChunkAll == todo.left

(* Each chunk may be as long as all that is readable from the anchor.       *)
Chunk == MinOf(todo.offset + todo.copied, todo.left)

CopyChunk ==
    /\ todo.at = "copy"
    /\ ring' = Advance(ring, Chunk, Within(ring, todo.start, Chunk))
    /\ IF todo.left = Chunk
       THEN todo' = NoRepeat /\ total' = total + todo.count
       ELSE /\ todo' = [todo EXCEPT !.copied = @ + Chunk, !.left = @ - Chunk]
            /\ UNCHANGED total
    /\ UNCHANGED <<ring_dict, ring_window, hash, ring_out, frames>>

(* repeat_from_dict: the source begins in the dictionary, which is there     *)
(* while nothing has been drained; what it does not cover repeats from the   *)
(* start of the output.                                                    *)
RepeatFromDict(offset, n) ==
    LET fromDict == offset - Length(ring)
        r == Reserve(ring, n)
        taken == MinOf(fromDict, n)
        slice == DictSlice(ring_dict - fromDict, taken)
    IN
    /\ Idle /\ frames > 0
    /\ offset > Length(ring) /\ Length(ring) = total /\ fromDict <= ring_dict
    /\ Fits(ring, n) /\ Fits(r, taken)
    /\ Fits(Extend(r, slice), n - taken)
    /\ Grow(Match(offset, n))
    /\ total' = total + taken
    /\ IF taken < n
       THEN /\ ring' = Reserve(Extend(r, slice), n - taken)
            /\ todo' = [at |-> "copy", start |-> 0, offset |-> Length(ring) + taken,
                        copied |-> 0, left |-> n - taken, count |-> n - taken]
       ELSE ring' = Extend(r, slice) /\ UNCHANGED todo
    /\ UNCHANGED <<ring_dict, ring_window, hash, frames>>

(* drain_to over a sink that takes `accepted` bytes and then nothing, or     *)
(* fails: the parts written of the two slices, the second only after the     *)
(* whole first.  What was written is hashed, and dropped.                   *)

(* Mutant of Written: both slices are offered, however the first one went.  *)
WrittenBoth(amount, accepted) ==
    LET n1 == MinOf(DataFirst(ring), amount)
    IN  <<MinOf(n1, accepted), MinOf(MinOf(DataSecond(ring), amount - n1), accepted)>>

Written(amount, accepted) ==
    LET n1 == MinOf(DataFirst(ring), amount)
        n2 == MinOf(DataSecond(ring), amount - n1)
    IN  IF n1 # 0 /\ accepted >= n1 THEN <<n1, MinOf(n2, accepted - n1)>>
        ELSE <<MinOf(n1, accepted), 0>>

HashSlices(n1, n2) ==
    hash' = hash \o [i \in 1 .. n1 |-> ring.mem[ring.head + i - 1]]
                 \o [i \in 1 .. n2 |-> ring.mem[i - 1]]

DrainTo(amount, accepted) ==
    LET written == Written(amount, accepted)
    IN
    /\ Idle /\ amount > 0
    /\ HashSlices(written[1], written[2])
    /\ ring' = DropFirst(ring, written[1] + written[2])
    /\ UNCHANGED <<ring_dict, ring_window, total, todo, ring_out, frames>>

(* drain: everything, and the ring is cleared.                              *)
Drain ==
    /\ Idle /\ Length(ring) > 0
    /\ HashSlices(DataFirst(ring), DataSecond(ring))
    /\ ring' = Clear(ring)
    /\ UNCHANGED <<ring_dict, ring_window, total, todo, ring_out, frames>>

RingNext ==
    \/ \E w \in RingWindows, d \in RingDicts : ResetBuffer(w, d)
    \/ \E n \in RingSizes :
          \/ ReserveBlock(n) \/ PushLiterals(n) \/ ReadShort(n, n - 1)
          \/ \E offset \in RingOffsets : Repeat(offset, n) \/ RepeatFromDict(offset, n)
    \/ CopyChunk
    \/ \E amount \in {Length(ring), MaxOf(Length(ring) - ring_window, 0)} :
          \E accepted \in {1, amount} : DrainTo(amount, accepted)
    \/ Drain

RingSpec == RingInit /\ [][RingNext]_ringVars

-----------------------------------------------------------------------------
(* Properties.                                                             *)

(* What the cursors and the memory are, at any time.                        *)
RingOK(r) ==
    /\ r.cap \in Nat /\ r.head \in Nat /\ r.tail \in Nat
    /\ DOMAIN r.mem = 0 .. r.cap - 1
    /\ r.cap = 0 => r.head = 0 /\ r.tail = 0
    /\ r.cap > 0 => r.head < r.cap /\ r.tail < r.cap

(* The cursors stay inside the allocation and a repeat under way has the     *)
(* room and the source it was promised: the debug assertions of             *)
(* advance_tail, install_allocation and repeat_in_chunks.                  *)
CursorsInBounds ==
    /\ RingOK(ring)
    /\ todo.at = "copy" =>
        /\ Length(ring) = todo.start + todo.offset + todo.copied
        /\ Free(ring) >= todo.left

(* However the ring wraps, grows, is drained by sinks that take a part or    *)
(* fail, or is left half filled by a short read: what it holds is the end of *)
(* the frame's output, what the checksum has absorbed is the rest, and the   *)
(* counter is the whole (once a repeat is complete).                        *)
ServesOutput ==
    LET made == Len(ring_out) - todo.left
        gone == made - Length(ring)
    IN  /\ gone = Len(hash) /\ \A i \in 1 .. gone : hash[i] = ring_out[i]
        /\ \A i \in 1 .. Length(ring) : ByteAt(ring, i - 1) = ring_out[gone + i]
        /\ Idle => total = Len(ring_out)
=============================================================================
