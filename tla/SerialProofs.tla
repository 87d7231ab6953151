---------------------------- MODULE SerialProofs ----------------------------
(***************************************************************************)
(* Proofs about four components that run on one thread, for every value of   *)
(* their constants: the flat window (FlatWindow), the ring (RingWindow), the  *)
(* C API's compression context (CStream) and a decoder's session over a      *)
(* frame (FrameSession).  A match within the window reads the byte the frame  *)
(* put there (WindowServed), a buffer that has handed everything out has room *)
(* for one more block (NeverStuck), the ring and the checksum have each byte  *)
(* of the output (ServesOutput), every frame is coded on the terms that were  *)
(* asked for it (FrameTerms), and a frame is accepted only whole and right    *)
(* (SessionFaithful).                                                      *)
(***************************************************************************)
EXTENDS FlatWindow, RingWindow, CStream, FrameSession, NaturalLemmas, TLAPS

-----------------------------------------------------------------------------
(* FlatWindow: the flat window.                                             *)

Numbers ==
    /\ window \in Nat /\ flatCap \in Nat /\ blockMax \in Nat
    /\ origin \in Nat /\ prevOrigin \in Nat /\ prevPhysBase \in Nat /\ segAEnd \in Nat
    /\ start \in Nat /\ end \in Nat /\ dictPrefill \in Nat /\ dictTotal \in Nat
    /\ handed \in Int /\ flatFrames \in Nat /\ len \in Nat

Memory == mem \in [0 .. len - 1 -> Int]

(* What the frame's parameters promise: a frame whose buffer wraps has one   *)
(* that is a window, two blocks and the overlength long.                     *)
Sized ==
    /\ blockMax <= window
    /\ wrapEnabled /\ flatFrames > 0 => flatCap >= window + 2 * blockMax + Overlength

(* The cursors are in order, and after the first block of a generation the   *)
(* buffer can hold a block anywhere below its half.                          *)
Cursors ==
    /\ dictPrefill <= start /\ start <= end /\ end <= len
    /\ end = dictPrefill \/ blockMax + WildcopySlack <= len
    /\ room => flatFrames > 0 /\ end + blockMax + WildcopySlack <= len
    /\ handed = origin + start - dictTotal

(* This generation's bytes, the dictionary below the first one's included.   *)
Filled == \A p \in 0 .. end - 1 : mem[p] = origin + p

(* The generation before: it ends where this one begins, was too long for    *)
(* one more block, and is intact above what this one's copies have reached.  *)
Chained ==
    origin > 0 =>
        /\ wrapEnabled /\ flatFrames > 0
        /\ origin = prevOrigin + segAEnd
        /\ segAEnd + blockMax > flatCap
        /\ prevPhysBase + segAEnd <= len
        /\ \A p \in prevPhysBase .. prevPhysBase + segAEnd - 1 :
               p >= end + WildcopySlack => mem[p] = prevOrigin + p - prevPhysBase

FlatInv == Numbers /\ Memory /\ Sized /\ Cursors /\ Filled /\ Chained

-----------------------------------------------------------------------------
(* The sizes streaming_buffer_cap and max_block_output compute.              *)
LEMMA BufferSizes ==
    ASSUME NEW w \in Nat \ {0}, NEW fcs \in Nat \cup {NoPledge}
    PROVE  /\ max_block_output(w) \in Nat /\ max_block_output(w) <= w
           /\ streaming_buffer_cap(w, fcs) \in Nat
           /\ fcs = NoPledge \/ fcs > streaming_buffer_cap(w, fcs) =>
                  streaming_buffer_cap(w, fcs) >= w + 2 * max_block_output(w) + Overlength
  <1>1. /\ max_block_output(w) \in Nat /\ max_block_output(w) <= w
    BY FlatWindowAssumption DEF max_block_output, Least
  <1>2. Most(w, MinWindowSize) \in Nat /\ Most(w, MinWindowSize) >= w
    BY FlatWindowAssumption DEF Most
  <1> QED
    BY <1>1, <1>2, FlatWindowAssumption DEF streaming_buffer_cap, NoPledge

(* The first state: nothing allocated, no frame.                             *)
LEMMA FlatStarts == Init => FlatInv
  <1> SUFFICES ASSUME Init PROVE FlatInv
    OBVIOUS
  <1>1. Numbers /\ Sized /\ Cursors /\ Filled /\ Chained
    BY FlatWindowAssumption DEF Init, Numbers, Sized, Cursors, Filled, Chained
  <1>2. Memory
    <2>1. len = 0 /\ mem = [p \in 0 .. -1 |-> Junk]
      BY DEF Init
    <2>2. 0 .. len - 1 = 0 .. -1
      BY <2>1
    <2> QED BY <2>1, <2>2 DEF Memory, Junk
  <1> QED BY <1>1, <1>2 DEF FlatInv

(* A frame begins on the buffer the last one left.                           *)
LEMMA ResetOK ==
    ASSUME FlatInv, NEW w \in Windows, NEW fcs \in Pledges, NEW d \in Dicts, Reset(w, fcs, d)
    PROVE  FlatInv'
  <1>1. w \in Nat \ {0} /\ fcs \in Nat \cup {NoPledge} /\ d \in Nat
    BY FlatWindowAssumption
  <1>2. /\ blockMax' \in Nat /\ blockMax' <= w
        /\ flatCap' \in Nat
        /\ wrapEnabled' => flatCap' >= w + 2 * blockMax' + Overlength
    BY <1>1, BufferSizes DEF Reset
  <1>3. len' \in Nat /\ d <= len'
    BY <1>1 DEF Reset, FlatInv, Numbers, Most
  <1>4. mem' = [p \in 0 .. len' - 1 |-> IF p < d THEN p ELSE Junk]
    BY DEF Reset
  <1>5. Numbers'
    BY <1>1, <1>2, <1>3 DEF Reset, FlatInv, Numbers
  <1>8. Memory'
    <2>1. \A p \in 0 .. len' - 1 : (IF p < d THEN p ELSE Junk) \in Int
      BY <1>1, <1>3 DEF Junk
    <2> QED BY <1>4, <2>1 DEF Memory
  <1>6. Sized' /\ Cursors'
    BY <1>1, <1>2, <1>3 DEF Reset, FlatInv, Numbers, Sized, Cursors
  <1>7. Filled' /\ Chained'
    BY <1>1, <1>3, <1>4 DEF Reset, Filled, Chained
  <1> QED BY <1>5, <1>6, <1>7, <1>8 DEF FlatInv

(* The buffer is resized or left alone; it never shrinks or forgets.         *)
LEMMA GrownKeeps ==
    ASSUME FlatInv, NEW force \in BOOLEAN, EnsureBlockSpace(force)
    PROVE  /\ len' \in Nat /\ len <= len'
           /\ mem' \in [0 .. len' - 1 -> Int]
           /\ \A p \in 0 .. len - 1 : mem'[p] = mem[p]
           /\ room' => WrappedEnd + blockMax + WildcopySlack <= len'
  <1>1. /\ len \in Nat /\ end \in Nat /\ blockMax \in Nat /\ flatCap \in Nat
        /\ WrappedPrefill \in Nat /\ WrappedEnd \in Nat /\ WildcopySlack \in Nat
    BY FlatWindowAssumption DEF FlatInv, Numbers, WrappedPrefill, WrappedEnd
  <1>2. mem \in [0 .. len - 1 -> Int]
    BY DEF FlatInv, Memory
  <1>3. Grown \in Nat /\ len <= Grown
    BY <1>1 DEF Grown, Needed, Most
  <1>4. CASE Grows(force)
    <2>1. /\ len' = Grown /\ room' = FitsIn(Grown)
          /\ mem' = [p \in 0 .. Grown - 1 |-> IF p < len THEN mem[p] ELSE Junk]
      BY <1>4 DEF EnsureBlockSpace
    <2>2. \A p \in 0 .. Grown - 1 : p < len => p \in 0 .. len - 1
      BY <1>1, <1>3
    <2>3. \A p \in 0 .. Grown - 1 : (IF p < len THEN mem[p] ELSE Junk) \in Int
      BY <1>2, <2>2 DEF Junk
    <2>4. mem' \in [0 .. len' - 1 -> Int]
      BY <2>1, <2>3
    <2>5. \A p \in 0 .. len - 1 : p \in 0 .. Grown - 1 /\ p < len
      BY <1>1, <1>3
    <2>6. \A p \in 0 .. len - 1 : mem'[p] = mem[p]
      BY <2>1, <2>5
    <2>7. room' => WrappedEnd + blockMax + WildcopySlack <= len'
      BY <2>1, Zenon DEF FitsIn
    <2> QED BY <1>3, <2>1, <2>4, <2>6, <2>7
  <1>5. CASE ~Grows(force)
    <2>1. len' = len /\ mem' = mem /\ room' = FitsIn(len)
      BY <1>5 DEF EnsureBlockSpace
    <2>2. room' => WrappedEnd + blockMax + WildcopySlack <= len'
      BY <2>1, Zenon DEF FitsIn
    <2> QED BY <1>1, <1>2, <2>1, <2>2
  <1> QED BY <1>4, <1>5

(* ensure_block_space: the generation wraps, or its cursors stay.            *)
LEMMA EnsureOK ==
    ASSUME FlatInv, NEW force \in BOOLEAN, EnsureBlockSpace(force)
    PROVE  FlatInv'
  <1> USE FlatWindowAssumption
  <1>1. /\ len' \in Nat /\ len <= len'
        /\ mem' \in [0 .. len' - 1 -> Int]
        /\ \A p \in 0 .. len - 1 : mem'[p] = mem[p]
        /\ room' => WrappedEnd + blockMax + WildcopySlack <= len'
    BY GrownKeeps
  <1>2. /\ UNCHANGED <<window, flatCap, blockMax, wrapEnabled, dictTotal, flatFrames, handed>>
        /\ flatFrames > 0
        /\ end' = WrappedEnd /\ dictPrefill' = WrappedPrefill
    BY DEF EnsureBlockSpace, params
  <1>3. CASE Wraps
    <2>1. /\ origin' = origin + end /\ prevOrigin' = origin + dictPrefill
          /\ prevPhysBase' = dictPrefill /\ segAEnd' = end - dictPrefill
          /\ start' = 0 /\ end' = 0 /\ dictPrefill' = 0
          /\ start = end /\ wrapEnabled /\ end + blockMax > flatCap + dictPrefill
      BY <1>2, <1>3 DEF EnsureBlockSpace, Wraps, WrappedEnd, WrappedPrefill
    <2>2. Numbers'
      BY <1>1, <1>2, <2>1 DEF FlatInv, Numbers, Cursors
    <2>10. Memory'
      BY <1>1 DEF Memory
    <2>3. Sized' /\ Cursors'
      BY <1>1, <1>2, <1>3, <2>1 DEF FlatInv, Numbers, Sized, Cursors, WrappedEnd
    <2>4. Filled'
      BY <2>1 DEF Filled
    <2>5. /\ len \in Nat /\ end \in Nat /\ dictPrefill \in Nat /\ origin \in Nat
          /\ blockMax \in Nat /\ flatCap \in Nat
          /\ dictPrefill <= end /\ end <= len
      BY DEF FlatInv, Numbers, Cursors
    <2>6. \A p \in dictPrefill .. end - 1 : mem'[p] = origin + p
      <3>1. \A p \in dictPrefill .. end - 1 : p \in 0 .. len - 1 /\ p \in 0 .. end - 1
        BY <2>5
      <3> QED BY <1>1, <3>1 DEF FlatInv, Filled
    <2>7. prevPhysBase' + segAEnd' = end /\ origin' = prevOrigin' + segAEnd'
      BY <2>1, <2>5
    <2>8. \A p \in dictPrefill .. end - 1 : origin + p = prevOrigin' + p - prevPhysBase'
      BY <2>1, <2>5
    <2>9. Chained'
      <3>1. wrapEnabled' /\ flatFrames' > 0
        BY <1>2, <2>1, Zenon
      <3>2. segAEnd' + blockMax' > flatCap' /\ prevPhysBase' + segAEnd' <= len'
        BY <1>1, <1>2, <2>1, <2>5
      <3>3. \A p \in prevPhysBase' .. prevPhysBase' + segAEnd' - 1 :
                mem'[p] = prevOrigin' + p - prevPhysBase'
        <4>1. prevPhysBase' = dictPrefill /\ prevPhysBase' + segAEnd' - 1 = end - 1
          BY <2>1, <2>5
        <4> QED BY <2>6, <2>8, <4>1
      <3> QED BY <2>7, <3>1, <3>2, <3>3 DEF Chained
    <2> QED BY <2>2, <2>3, <2>4, <2>9, <2>10 DEF FlatInv
  <1>4. CASE ~Wraps
    <2>1. UNCHANGED <<origin, prevOrigin, prevPhysBase, segAEnd, start, end, dictPrefill>>
      BY <1>2, <1>4 DEF EnsureBlockSpace, chain, WrappedEnd, WrappedPrefill
    <2>2. Numbers' /\ Memory'
      BY <1>1, <1>2, <2>1 DEF FlatInv, Numbers, Memory
    <2>3. Sized' /\ Cursors'
      BY <1>1, <1>2, <1>4, <2>1 DEF FlatInv, Numbers, Sized, Cursors, WrappedEnd
    <2>4. Filled'
      <3>1. \A p \in 0 .. end - 1 : p \in 0 .. len - 1
        BY DEF FlatInv, Numbers, Cursors
      <3> QED BY <1>1, <2>1, <3>1 DEF FlatInv, Filled
    <2>5. Chained'
      <3>1. ASSUME origin > 0
            PROVE  \A p \in prevPhysBase .. prevPhysBase + segAEnd - 1 : p \in 0 .. len - 1
        BY <3>1 DEF FlatInv, Numbers, Chained
      <3>2. origin > 0 => prevPhysBase + segAEnd <= len'
        BY <1>1 DEF FlatInv, Numbers, Chained
      <3> QED BY <1>1, <1>2, <2>1, <3>1, <3>2 DEF FlatInv, Chained
    <2> QED BY <2>2, <2>3, <2>4, <2>5 DEF FlatInv
  <1> QED BY <1>3, <1>4

(* A block writes behind the cursor, and spoils no more than the slack.      *)
LEMMA BlockOK ==
    ASSUME FlatInv, NEW n \in Nat, Block(n)
    PROVE  FlatInv'
  <1> USE FlatWindowAssumption
  <1>1. /\ room /\ flatFrames > 0 /\ n <= blockMax
        /\ end + blockMax + WildcopySlack <= len
        /\ end' = end + n /\ room' = FALSE
        /\ UNCHANGED <<window, flatCap, blockMax, wrapEnabled, dictTotal, flatFrames, handed>>
        /\ UNCHANGED <<origin, prevOrigin, prevPhysBase, segAEnd, start, dictPrefill, len>>
    BY DEF Block, params, chain, FlatInv, Cursors
  <1>2. mem' = [p \in 0 .. len - 1 |->
                   IF p < end \/ p >= end + n + WildcopySlack THEN mem[p]
                   ELSE IF p < end + n THEN origin + p ELSE Junk]
    BY DEF Block
  <1>3. Numbers' /\ Memory'
    <2>1. Numbers'
      BY <1>1 DEF FlatInv, Numbers
    <2>2. \A p \in 0 .. len - 1 :
             (IF p < end \/ p >= end + n + WildcopySlack THEN mem[p]
              ELSE IF p < end + n THEN origin + p ELSE Junk) \in Int
      BY DEF FlatInv, Numbers, Memory, Junk
    <2>3. Memory'
      BY <1>1, <1>2, <2>2 DEF Memory
    <2> QED BY <2>1, <2>3
  <1>4. Sized' /\ Cursors'
    BY <1>1 DEF FlatInv, Numbers, Sized, Cursors
  <1>5. Filled'
    BY <1>1, <1>2 DEF FlatInv, Numbers, Filled
  <1>6. Chained'
    BY <1>1, <1>2 DEF FlatInv, Numbers, Chained
  <1> QED BY <1>3, <1>4, <1>5, <1>6 DEF FlatInv

(* Handing bytes out moves the flush cursor only.                            *)
LEMMA FlushOK ==
    ASSUME FlatInv, NEW n \in Int, Flush(n)
    PROVE  FlatInv'
  <1>1. /\ n > 0 /\ n <= end - start
        /\ start' = start + n /\ handed' = handed + n /\ room' = FALSE
        /\ UNCHANGED <<window, flatCap, blockMax, wrapEnabled, dictTotal, flatFrames>>
        /\ UNCHANGED <<origin, prevOrigin, prevPhysBase, segAEnd, end, dictPrefill, len, mem>>
    BY DEF Flush, params, chain
  <1>2. Numbers' /\ Sized' /\ Cursors'
    BY <1>1, FlatWindowAssumption DEF FlatInv, Numbers, Sized, Cursors
  <1>3. Memory' /\ Filled' /\ Chained'
    BY <1>1 DEF FlatInv, Memory, Filled, Chained
  <1> QED BY <1>2, <1>3 DEF FlatInv

LEMMA FlatInductive == FlatInv /\ [Next]_vars => FlatInv'
  <1> SUFFICES ASSUME FlatInv, [Next]_vars PROVE FlatInv'
    OBVIOUS
  <1>1. CASE \E w \in Windows, fcs \in Pledges, d \in Dicts : Reset(w, fcs, d)
    BY <1>1, ResetOK
  <1>2. CASE \E force \in BOOLEAN : EnsureBlockSpace(force)
    BY <1>2, EnsureOK
  <1>3. CASE \E n \in {0, 1, MaxBlockSize} : Block(n)
    BY <1>3, BlockOK, FlatWindowAssumption
  <1>4. CASE \E n \in {1, end - start} : Flush(n)
    BY <1>4, FlushOK DEF FlatInv, Numbers
  <1>5. CASE UNCHANGED vars
    BY <1>5 DEF vars, FlatInv, Numbers, Memory, Sized, Cursors, Filled, Chained
  <1> QED BY <1>1, <1>2, <1>3, <1>4, <1>5 DEF Next

(* The buffer's invariant, along its steps.                                  *)
THEOREM FlatInvariant == Spec => []FlatInv
  BY FlatStarts, FlatInductive, PTL DEF Spec

-----------------------------------------------------------------------------
(* Whatever has wrapped, grown or been handed out, a match within the window *)
(* reads the byte the frame put there, in this generation or the last.       *)
THEOREM WindowSafe == Spec => []WindowServed
  <1>1. FlatInv => WindowServed
    <2> SUFFICES ASSUME FlatInv, room, NEW j \in 0 .. blockMax - 1, NEW offset \in 1 .. window,
                        origin + end + j - offset >= 0
                 PROVE  Intact(origin + end + j - offset, j)
      BY DEF WindowServed
    <2> DEFINE v == origin + end + j - offset
    <2> USE FlatWindowAssumption
    <2>1. /\ window \in Nat /\ origin \in Nat /\ prevOrigin \in Nat /\ prevPhysBase \in Nat
          /\ segAEnd \in Nat /\ end \in Nat /\ flatCap \in Nat /\ blockMax \in Nat /\ len \in Nat
          /\ j \in Nat /\ offset \in Nat /\ v \in Nat
      BY DEF FlatInv, Numbers
    <2>2. CASE v >= origin
      <3>1. v - origin \in 0 .. end - 1 => mem[v - origin] = v
        BY <2>1, <2>2 DEF FlatInv, Filled
      <3> QED BY <2>1, <2>2, <3>1 DEF Intact
    <2>3. CASE v < origin
      <3>1. /\ origin = prevOrigin + segAEnd /\ prevPhysBase + segAEnd <= len
            /\ segAEnd > window + blockMax + Overlength
        BY <2>1, <2>3 DEF FlatInv, Chained, Sized
      <3>2. /\ v >= prevOrigin
            /\ Place(v) = prevPhysBase + (v - prevOrigin)
            /\ Place(v) \in prevPhysBase .. prevPhysBase + segAEnd - 1
            /\ Place(v) >= end + j + WildcopySlack
        BY <2>1, <2>3, <3>1 DEF Place
      <3>3. mem[Place(v)] = v
        BY <2>1, <2>3, <3>1, <3>2 DEF FlatInv, Chained
      <3> QED BY <2>1, <2>3, <3>1, <3>2, <3>3 DEF Intact
    <2> QED BY <2>1, <2>2, <2>3
  <1> QED BY <1>1, FlatInvariant, PTL

(* The block target has the room its unchecked copies count on, nothing is   *)
(* lost or handed out twice, and a buffer handed out makes room for a block. *)
THEOREM ProgressSafe == Spec => []NeverStuck
  <1>1. FlatInv => NeverStuck
    <2> SUFFICES ASSUME FlatInv PROVE NeverStuck
      OBVIOUS
    <2> USE FlatWindowAssumption
    <2>1. /\ room => end + blockMax + WildcopySlack <= len
          /\ handed = origin + start - dictTotal
          /\ \A p \in start .. end - 1 : mem[p] = origin + p
      BY DEF FlatInv, Numbers, Cursors, Filled
    <2>2. ASSUME start = end, flatFrames > 0
          PROVE  FitsIn(IF Grows(FALSE) THEN Grown ELSE len)
      <3>1. ~Pending
        BY <2>2 DEF Pending
      <3>2. CASE FitsIn(len)
        BY <3>2 DEF Grows
      <3>3. CASE ~FitsIn(len)
        <4>1. /\ len \in Nat /\ end \in Nat /\ blockMax \in Nat /\ flatCap \in Nat
              /\ WrappedPrefill \in Nat /\ WrappedEnd \in Nat
              /\ end <= len
          BY DEF FlatInv, Numbers, Cursors, WrappedPrefill, WrappedEnd
        <4>2. /\ Grown >= 2 * len
              /\ Grown >= WrappedPrefill + blockMax + WildcopySlack
          BY <4>1 DEF Grown, Needed, Most
        <4>3. \/ WrappedEnd = WrappedPrefill
              \/ WrappedEnd = end /\ blockMax + WildcopySlack <= len
          BY DEF WrappedEnd, WrappedPrefill, FlatInv, Cursors
        <4>4. FitsIn(Grown)
          BY <4>1, <4>2, <4>3 DEF FitsIn, Grown, Needed, Most
        <4> QED BY <3>1, <3>3, <4>4 DEF Grows
      <3> QED BY <3>2, <3>3
    <2> QED BY <2>1, <2>2 DEF NeverStuck
  <1> QED BY <1>1, FlatInvariant, PTL

-----------------------------------------------------------------------------
(* RingWindow: the ring.                                                    *)

(* A ring as the code can have it: the cursors within the memory.           *)
RingRecord(r) == r = [cap |-> r.cap, head |-> r.head, tail |-> r.tail, mem |-> r.mem]
RingCursors(cap, front, back) ==
    /\ cap \in Nat /\ front \in Nat /\ back \in Nat
    /\ cap = 0 => front = 0 /\ back = 0
    /\ cap > 0 => front < cap /\ back < cap
GoodRing(r) ==
    /\ RingRecord(r)
    /\ RingCursors(r.cap, r.head, r.tail)
    /\ r.mem \in [0 .. r.cap - 1 -> Int]

(* The place of the i-th byte behind the head.                               *)
Spot(r, i) == wrap_add(r.head, i, r.cap)

LEMMA RingExcept ==
    ASSUME NEW r, RingRecord(r), NEW x, NEW y
    PROVE  /\ [r EXCEPT !.mem = x] = [cap |-> r.cap, head |-> r.head, tail |-> r.tail, mem |-> x]
           /\ [r EXCEPT !.head = x] = [cap |-> r.cap, head |-> x, tail |-> r.tail, mem |-> r.mem]
           /\ [r EXCEPT !.tail = x, !.mem = y] = [cap |-> r.cap, head |-> r.head, tail |-> x, mem |-> y]
  <1>1. \A z : [r EXCEPT !.mem = z] = [cap |-> r.cap, head |-> r.head, tail |-> r.tail, mem |-> z]
    BY DEF RingRecord
  <1>2. \A z : [r EXCEPT !.head = z] = [cap |-> r.cap, head |-> z, tail |-> r.tail, mem |-> r.mem]
    BY DEF RingRecord
  <1>3. \A z : [r EXCEPT !.tail = z] = [cap |-> r.cap, head |-> r.head, tail |-> z, mem |-> r.mem]
    BY DEF RingRecord
  <1>4. [r EXCEPT !.tail = x, !.mem = y] = [cap |-> r.cap, head |-> r.head, tail |-> x, mem |-> y]
    <2>1. [r EXCEPT !.tail = x, !.mem = y] = [[r EXCEPT !.tail = x] EXCEPT !.mem = y]
      OBVIOUS
    <2>2. [[cap |-> r.cap, head |-> r.head, tail |-> x, mem |-> r.mem] EXCEPT !.mem = y]
          = [cap |-> r.cap, head |-> r.head, tail |-> x, mem |-> y]
      OBVIOUS
    <2> QED
      BY <2>1, <2>2, <1>3
  <1> QED
    BY <1>1, <1>2, <1>4

LEMMA RingConstants ==
    /\ Slack \in Nat /\ CopyAtOnce \in Nat /\ CopyAtOnce > 0 /\ Powers \subseteq Nat
    /\ RingWindows \subseteq Nat /\ RingDicts \subseteq Nat
    /\ RingSizes \subseteq Nat /\ 0 \notin RingSizes
    /\ RingOffsets \subseteq Nat /\ 0 \notin RingOffsets
    /\ RingOutput \in Nat /\ RingFrames \in Nat
  BY RingWindowAssumption

(* The lengths, in terms of the cursors.                                    *)
LEMMA RingLengths ==
    ASSUME NEW r, NEW c \in Nat, NEW h \in Nat, NEW t \in Nat,
           r.cap = c, r.head = h, r.tail = t, RingCursors(c, h, t)
    PROVE  /\ DataFirst(r) = IF t >= h THEN t - h ELSE c - h
           /\ DataSecond(r) = IF t >= h THEN 0 ELSE t
           /\ Length(r) = IF t >= h THEN t - h ELSE c - h + t
           /\ Free(r) = IF c = 0 THEN 0 ELSE IF t < h THEN h - t - 1 ELSE c - t + h - 1
  <1>1. /\ c = 0 => h = 0 /\ t = 0
        /\ c > 0 => h < c /\ t < c
    BY DEF RingCursors
  <1>2. /\ DataFirst(r) = IF t >= h THEN t - h ELSE c - h
        /\ DataSecond(r) = IF t >= h THEN 0 ELSE t
        /\ FreeFirst(r) = IF t < h THEN h - t ELSE c - t
        /\ FreeSecond(r) = IF t < h THEN 0 ELSE h
    BY DEF DataFirst, DataSecond, FreeFirst, FreeSecond
  <1>3. Length(r) = IF t >= h THEN t - h ELSE c - h + t
    BY <1>1, <1>2 DEF Length
  <1>4. Free(r) = IF c = 0 THEN 0 ELSE IF t < h THEN h - t - 1 ELSE c - t + h - 1
    BY <1>1, <1>2 DEF Free, MaxOf
  <1> QED
    BY <1>2, <1>3, <1>4

(* Data and free space fill the memory but for the sentinel.                 *)
LEMMA RingSizesAre ==
    ASSUME NEW r, RingCursors(r.cap, r.head, r.tail)
    PROVE  /\ Length(r) \in Nat /\ Free(r) \in Nat
           /\ DataFirst(r) \in Nat /\ DataSecond(r) \in Nat
           /\ Length(r) = DataFirst(r) + DataSecond(r)
           /\ r.cap = 0 => Length(r) = 0 /\ Free(r) = 0
           /\ r.cap > 0 => Length(r) + Free(r) + 1 = r.cap
           /\ r.cap \in Nat
  <1>1. PICK c \in Nat, h \in Nat, t \in Nat : r.cap = c /\ r.head = h /\ r.tail = t
    BY DEF RingCursors
  <1>2. RingCursors(c, h, t)
    BY <1>1
  <1>3. /\ DataFirst(r) = IF t >= h THEN t - h ELSE c - h
        /\ DataSecond(r) = IF t >= h THEN 0 ELSE t
        /\ Length(r) = IF t >= h THEN t - h ELSE c - h + t
        /\ Free(r) = IF c = 0 THEN 0 ELSE IF t < h THEN h - t - 1 ELSE c - t + h - 1
    BY <1>1, <1>2, RingLengths
  <1> QED
    BY <1>1, <1>2, <1>3 DEF RingCursors

LEMMA SpotsAre ==
    ASSUME NEW r, RingCursors(r.cap, r.head, r.tail), NEW i \in Nat, i < Length(r)
    PROVE  /\ Spot(r, i) \in 0 .. r.cap - 1 /\ InData(r, Spot(r, i))
           /\ ByteAt(r, i) = r.mem[Spot(r, i)]
           /\ Spot(r, i) = IF i < DataFirst(r) THEN r.head + i ELSE i - DataFirst(r)
  <1>1. /\ Spot(r, i) \in 0 .. r.cap - 1 /\ InData(r, Spot(r, i))
        /\ Spot(r, i) = IF i < DataFirst(r) THEN r.head + i ELSE i - DataFirst(r)
    BY DEF RingCursors, Length, DataFirst, DataSecond, Spot, wrap_add, InData
  <1> QED
    BY <1>1 DEF ByteAt, Spot

(* Two spots of the data differ.                                            *)
LEMMA SpotsDiffer ==
    ASSUME NEW r, RingCursors(r.cap, r.head, r.tail), NEW i \in Nat, NEW j \in Nat, i < r.cap, j < r.cap, i # j
    PROVE  Spot(r, i) # Spot(r, j)
  BY DEF RingCursors, Spot, wrap_add

(* What the ring holds does not change when the rest is forgotten.           *)
LEMMA ForgetKeeps ==
    ASSUME NEW r, GoodRing(r)
    PROVE  /\ GoodRing(Forget(r))
           /\ Forget(r).cap = r.cap /\ Forget(r).head = r.head /\ Forget(r).tail = r.tail
           /\ Length(Forget(r)) = Length(r)
           /\ Free(Forget(r)) = Free(r)
           /\ \A i \in Nat : i < Length(r) => ByteAt(Forget(r), i) = ByteAt(r, i)
  <1> DEFINE f == Forget(r)
  <1>1. /\ f = [cap |-> r.cap, head |-> r.head, tail |-> r.tail, mem |-> f.mem]
        /\ f.mem = [i \in 0 .. r.cap - 1 |-> IF InData(r, i) THEN r.mem[i] ELSE Old]
    BY RingExcept DEF GoodRing, Forget
  <1>2. f.mem \in [0 .. r.cap - 1 -> Int]
    BY <1>1 DEF GoodRing, RingCursors, Old
  <1> HIDE DEF f
  <1>3. GoodRing(f)
    BY <1>1, <1>2 DEF GoodRing, RingRecord, RingCursors
  <1>4. Length(f) = Length(r) /\ Free(f) = Free(r)
    BY <1>1 DEF Length, DataFirst, DataSecond, Free, FreeFirst, FreeSecond
  <1>5. ASSUME NEW i \in Nat, i < Length(r)
        PROVE  ByteAt(f, i) = ByteAt(r, i)
    <2>1. Spot(r, i) \in 0 .. r.cap - 1 /\ InData(r, Spot(r, i)) /\ ByteAt(r, i) = r.mem[Spot(r, i)]
      BY <1>5, SpotsAre DEF GoodRing
    <2>2. ByteAt(f, i) = f.mem[Spot(r, i)]
      BY <1>1 DEF ByteAt, Spot
    <2> QED
      BY <2>1, <2>2, <1>1
  <1> QED
    BY <1>1, <1>3, <1>4, <1>5 DEF f

LEMMA ClearEmpties ==
    ASSUME NEW r, GoodRing(r)
    PROVE  GoodRing(Clear(r)) /\ Length(Clear(r)) = 0
  <1> DEFINE e == [r EXCEPT !.head = 0, !.tail = 0]
  <1>1. e = [cap |-> r.cap, head |-> 0, tail |-> 0, mem |-> r.mem]
    <2>1. e = [[r EXCEPT !.head = 0] EXCEPT !.tail = 0]
      BY DEF e
    <2>2. [r EXCEPT !.head = 0] = [cap |-> r.cap, head |-> 0, tail |-> r.tail, mem |-> r.mem]
      BY RingExcept DEF GoodRing
    <2>3. [[cap |-> r.cap, head |-> 0, tail |-> r.tail, mem |-> r.mem] EXCEPT !.tail = 0]
          = [cap |-> r.cap, head |-> 0, tail |-> 0, mem |-> r.mem]
      OBVIOUS
    <2> QED
      BY <2>1, <2>2, <2>3
  <1> HIDE DEF e
  <1>2. GoodRing(e)
    BY <1>1 DEF GoodRing, RingRecord, RingCursors
  <1>3. Length(e) = 0
    BY <1>1 DEF Length, DataFirst, DataSecond
  <1>4. Clear(r) = Forget(e)
    BY DEF Clear, e
  <1> QED
    BY <1>2, <1>3, <1>4, ForgetKeeps

(* Growing keeps the bytes and makes the room that was asked for.            *)
LEMMA ReserveKeeps ==
    ASSUME NEW r, GoodRing(r), NEW n \in Nat, Fits(r, n)
    PROVE  /\ GoodRing(Reserve(r, n))
           /\ Length(Reserve(r, n)) = Length(r)
           /\ Free(Reserve(r, n)) >= n
           /\ \A i \in Nat : i < Length(r) => ByteAt(Reserve(r, n), i) = ByteAt(r, i)
  <1>1. CASE Free(r) >= n
    BY <1>1 DEF Reserve
  <1>2. CASE ~(Free(r) >= n)
    <2> DEFINE c == NewCap(r, n)
               s == Reserve(r, n)
    <2>0. /\ Length(r) \in Nat /\ Free(r) \in Nat
          /\ DataFirst(r) \in Nat /\ DataSecond(r) \in Nat
          /\ Length(r) = DataFirst(r) + DataSecond(r)
          /\ r.cap = 0 => Length(r) = 0 /\ Free(r) = 0
          /\ r.cap > 0 => Length(r) + Free(r) + 1 = r.cap
          /\ r.cap \in Nat
      BY RingSizesAre DEF GoodRing, RingCursors
    <2>1. \A m : NextPow2(m) \in Nat
      <3> TAKE m
      <3> DEFINE least(p) == p >= m /\ \A q \in Powers : q >= m => p <= q
      <3>1. CASE \E p \in Powers : least(p)
        BY <3>1, RingConstants DEF NextPow2
      <3>2. CASE ~\E p \in Powers : least(p)
        BY <3>2 DEF NextPow2
      <3> QED
        BY <3>1, <3>2
    <2>2. c \in Nat
      BY <2>1, RingConstants DEF NewCap, MaxOf
    <2>3. c >= r.cap + (n - Free(r)) + 1
      BY <1>2 DEF Fits, Required
    <2>4. /\ s = [cap |-> c, head |-> 0, tail |-> Length(r), mem |-> s.mem]
          /\ s.mem = [i \in 0 .. c - 1 |->
                      IF i < DataFirst(r) THEN r.mem[r.head + i]
                      ELSE IF i < Length(r) THEN r.mem[i - DataFirst(r)] ELSE Old]
      BY <1>2 DEF Reserve
    <2> HIDE DEF c, s
    <2>5. \A i \in 0 .. c - 1 : s.mem[i] \in Int
      <3> TAKE i \in 0 .. c - 1
      <3>1. CASE i < DataFirst(r)
        <4>1. s.mem[i] = r.mem[r.head + i] /\ r.head + i \in 0 .. r.cap - 1
          BY <3>1, <2>4, <2>2 DEF GoodRing, RingCursors, DataFirst
        <4> QED
          BY <4>1 DEF GoodRing
      <3>2. CASE ~(i < DataFirst(r)) /\ i < Length(r)
        <4>1. s.mem[i] = r.mem[i - DataFirst(r)]
          BY <3>2, <2>4
        <4>2. DataSecond(r) <= r.cap
          BY <2>0 DEF GoodRing, RingCursors, DataSecond
        <4>3. i - DataFirst(r) \in 0 .. r.cap - 1
          BY <3>2, <4>2, <2>0, <2>2
        <4> QED
          BY <4>1, <4>3 DEF GoodRing
      <3>3. CASE ~(i < DataFirst(r)) /\ ~(i < Length(r))
        BY <3>3, <2>4 DEF Old
      <3> QED
        BY <3>1, <3>2, <3>3
    <2>6. s.mem \in [0 .. c - 1 -> Int]
      BY <2>4, <2>5
    <2>7. GoodRing(s)
      <3>1. s.cap = c /\ s.head = 0 /\ s.tail = Length(r)
        BY <2>4
      <3>2. c > 0 /\ Length(r) < c
        BY <2>0, <2>2, <2>3, <1>2
      <3>3. RingCursors(s.cap, s.head, s.tail)
        BY <3>1, <3>2, <2>0, <2>2 DEF RingCursors
      <3>4. RingRecord(s)
        BY <3>1, <2>4 DEF RingRecord
      <3> QED
        BY <3>1, <3>3, <3>4, <2>6 DEF GoodRing
    <2>8. Length(s) = Length(r)
      BY <2>0, <2>4 DEF Length, DataFirst, DataSecond
    <2>9. Free(s) >= n
      <3>1. /\ Length(s) \in Nat /\ Free(s) \in Nat
            /\ s.cap > 0 => Length(s) + Free(s) + 1 = s.cap
        BY <2>7, RingSizesAre DEF GoodRing
      <3>2. s.cap = c
        BY <2>4
      <3> QED
        BY <3>1, <3>2, <2>0, <2>2, <2>3, <2>8, <1>2
    <2>10. ASSUME NEW i \in Nat, i < Length(r)
           PROVE  ByteAt(s, i) = ByteAt(r, i)
      <3>1. i \in 0 .. c - 1
        BY <2>0, <2>2, <2>3, <1>2, <2>10
      <3>2. s.head = 0 /\ s.cap = c
        BY <2>4
      <3>3. Spot(s, i) = i /\ ByteAt(s, i) = s.mem[i]
        BY <3>1, <3>2, <2>2 DEF Spot, wrap_add, ByteAt
      <3>4. /\ ByteAt(r, i) = r.mem[Spot(r, i)]
            /\ Spot(r, i) = IF i < DataFirst(r) THEN r.head + i ELSE i - DataFirst(r)
        BY <2>10, SpotsAre DEF GoodRing
      <3> QED
        BY <3>1, <3>3, <3>4, <2>4, <2>10
    <2> QED
      BY <2>7, <2>8, <2>9, <2>10 DEF s
  <1> QED
    BY <1>1, <1>2

(* Advancing the tail over n bytes written behind it.                        *)
LEMMA AdvanceAdds ==
    ASSUME NEW r, GoodRing(r), NEW n \in Nat, n <= Free(r), NEW m \in [0 .. r.cap - 1 -> Int]
    PROVE  /\ GoodRing(Advance(r, n, m))
           /\ Length(Advance(r, n, m)) = Length(r) + n
           /\ Free(Advance(r, n, m)) = Free(r) - n
           /\ \A i \in Nat : i < Length(r) + n => ByteAt(Advance(r, n, m), i) = m[Spot(r, i)]
  <1> DEFINE a == [r EXCEPT !.tail = wrap_add(r.tail, n, r.cap), !.mem = m]
  <1>1. a = [cap |-> r.cap, head |-> r.head, tail |-> wrap_add(r.tail, n, r.cap), mem |-> m]
    BY RingExcept DEF GoodRing
  <1> HIDE DEF a
  <1>2. PICK c \in Nat, h \in Nat, t \in Nat :
            r.cap = c /\ r.head = h /\ r.tail = t /\ RingCursors(c, h, t)
    BY DEF GoodRing, RingCursors
  <1> DEFINE u == wrap_add(t, n, c)
  <1>3. /\ Length(r) = IF t >= h THEN t - h ELSE c - h + t
        /\ Free(r) = IF c = 0 THEN 0 ELSE IF t < h THEN h - t - 1 ELSE c - t + h - 1
    BY <1>2, RingLengths
  <1>4. a.cap = c /\ a.head = h /\ a.tail = u /\ a.mem = m
    BY <1>1, <1>2
  <1>5. u \in Nat /\ RingCursors(c, h, u)
    BY <1>2, <1>3 DEF wrap_add, RingCursors
  <1>6. /\ (IF u >= h THEN u - h ELSE c - h + u) = Length(r) + n
        /\ (IF c = 0 THEN 0 ELSE IF u < h THEN h - u - 1 ELSE c - u + h - 1) = Free(r) - n
    BY <1>2, <1>3 DEF wrap_add, RingCursors
  <1> HIDE DEF u
  <1>7. Length(a) = Length(r) + n /\ Free(a) = Free(r) - n
    BY <1>4, <1>5, <1>6, RingLengths
  <1>8. GoodRing(a)
    BY <1>1, <1>2, <1>4, <1>5 DEF GoodRing, RingRecord, u
  <1>9. Advance(r, n, m) = Forget(a)
    BY DEF Advance, a
  <1>10. ASSUME NEW i \in Nat, i < Length(r) + n
         PROVE  ByteAt(Forget(a), i) = m[Spot(r, i)]
    <2>1. ByteAt(Forget(a), i) = ByteAt(a, i)
      BY <1>7, <1>8, <1>10, ForgetKeeps
    <2> QED
      BY <2>1, <1>2, <1>4 DEF Spot, ByteAt
  <1> QED
    BY <1>7, <1>8, <1>9, <1>10, ForgetKeeps

(* The place of the k-th byte behind the tail.                               *)
LEMMA SpotsBehind ==
    ASSUME NEW r, NEW c \in Nat, NEW h \in Nat, NEW t \in Nat,
           r.cap = c, r.head = h, r.tail = t, RingCursors(c, h, t),
           NEW k \in Nat, k < Free(r)
    PROVE  Spot(r, Length(r) + k) = IF t + k >= c THEN t + k - c ELSE t + k
  <1>1. /\ Length(r) = IF t >= h THEN t - h ELSE c - h + t
        /\ Free(r) = IF c = 0 THEN 0 ELSE IF t < h THEN h - t - 1 ELSE c - t + h - 1
    BY RingLengths
  <1> QED
    BY <1>1 DEF Spot, wrap_add, RingCursors

(* Bytes laid out behind the tail: the data stays.                           *)
LEMMA LaidIs ==
    ASSUME NEW r, GoodRing(r), NEW text \in Seq(Int), Len(text) <= Free(r)
    PROVE  /\ Laid(r, text) \in [0 .. r.cap - 1 -> Int]
           /\ \A i \in Nat : i < Length(r) => Laid(r, text)[Spot(r, i)] = r.mem[Spot(r, i)]
           /\ \A k \in Nat : k < Len(text) => Laid(r, text)[Spot(r, Length(r) + k)] = text[k + 1]
  <1>1. PICK c \in Nat, h \in Nat, t \in Nat :
            r.cap = c /\ r.head = h /\ r.tail = t /\ RingCursors(c, h, t)
    BY DEF GoodRing, RingCursors
  <1>2. /\ Length(r) = IF t >= h THEN t - h ELSE c - h + t
        /\ Free(r) = IF c = 0 THEN 0 ELSE IF t < h THEN h - t - 1 ELSE c - t + h - 1
    BY <1>1, RingLengths
  <1> DEFINE n == Len(text)
             first == MinOf(n, FreeFirst(r))
             m == Laid(r, text)
             ff == IF t < h THEN h - t ELSE c - t
  <1>3. n \in Nat /\ \A i \in 1 .. n : text[i] \in Int
    OBVIOUS
  <1>4. FreeFirst(r) = ff
    BY <1>1 DEF FreeFirst
  <1>5. m = [i \in 0 .. c - 1 |->
                IF t <= i /\ i < t + first THEN text[i - t + 1]
                ELSE IF i < n - first THEN text[first + i + 1] ELSE r.mem[i]]
    BY <1>1 DEF Laid
  <1>6. first \in Nat /\ first <= n /\ first <= ff /\ (first < n => first = ff)
    BY <1>1, <1>3, <1>4 DEF MinOf, RingCursors
  <1>7. n <= Free(r)
    OBVIOUS
  <1>8. \A i \in 0 .. c - 1 : r.mem[i] \in Int
    BY <1>1 DEF GoodRing
  <1> HIDE DEF n, first, m
  <1>9. m \in [0 .. c - 1 -> Int]
    <2>1. \A i \in 0 .. c - 1 : (IF t <= i /\ i < t + first THEN text[i - t + 1]
                ELSE IF i < n - first THEN text[first + i + 1] ELSE r.mem[i]) \in Int
      <3> TAKE i \in 0 .. c - 1
      <3>1. CASE t <= i /\ i < t + first
        <4>1. i - t + 1 \in 1 .. n
          BY <3>1, <1>1, <1>3, <1>6
        <4> QED
          BY <3>1, <4>1, <1>3
      <3>2. CASE ~(t <= i /\ i < t + first) /\ i < n - first
        <4>1. first + i + 1 \in 1 .. n
          BY <3>2, <1>1, <1>3, <1>6
        <4> QED
          BY <3>2, <4>1, <1>3
      <3>3. CASE ~(t <= i /\ i < t + first) /\ ~(i < n - first)
        BY <3>3, <1>8
      <3> QED
        BY <3>1, <3>2, <3>3
    <2> QED
      BY <2>1, <1>5
  <1>10. ASSUME NEW i \in Nat, i < Length(r)
         PROVE  m[Spot(r, i)] = r.mem[Spot(r, i)]
    <2>1. Spot(r, i) = IF h + i >= c THEN h + i - c ELSE h + i
      BY <1>1 DEF Spot, wrap_add
    <2> DEFINE s == IF h + i >= c THEN h + i - c ELSE h + i
    <2>2. s \in 0 .. c - 1 /\ ~(t <= s /\ s < t + first) /\ ~(s < n - first)
      BY <1>1, <1>2, <1>3, <1>6, <1>7, <1>10 DEF RingCursors
    <2> HIDE DEF s
    <2> QED
      BY <2>1, <2>2, <1>5 DEF s
  <1>11. ASSUME NEW k \in Nat, k < n
         PROVE  m[Spot(r, Length(r) + k)] = text[k + 1]
    <2> DEFINE s == IF t + k >= c THEN t + k - c ELSE t + k
    <2>1. k < Free(r)
      BY <1>2, <1>1, <1>3, <1>7, <1>11
    <2>2. Spot(r, Length(r) + k) = s
      BY <1>1, <2>1, SpotsBehind
    <2>3. CASE k < first
      <3>1. s \in 0 .. c - 1 /\ t <= s /\ s < t + first /\ s - t + 1 = k + 1
        BY <1>1, <1>2, <1>3, <1>6, <1>7, <1>11, <2>3 DEF RingCursors
      <3> HIDE DEF s
      <3> QED
        BY <3>1, <2>2, <1>5
    <2>4. CASE ~(k < first)
      <3>1. s \in 0 .. c - 1 /\ ~(t <= s) /\ s < n - first /\ first + s + 1 = k + 1
        BY <1>1, <1>2, <1>3, <1>6, <1>7, <1>11, <2>4 DEF RingCursors
      <3> HIDE DEF s
      <3> QED
        BY <3>1, <2>2, <1>5
    <2> QED
      BY <2>3, <2>4
  <1> QED
    BY <1>1, <1>9, <1>10, <1>11 DEF m, n

(* extend: the bytes follow what the ring held.                              *)
LEMMA ExtendAdds ==
    ASSUME NEW r, GoodRing(r), NEW text \in Seq(Int), Fits(r, Len(text))
    PROVE  /\ GoodRing(Extend(r, text))
           /\ Length(Extend(r, text)) = Length(r) + Len(text)
           /\ \A i \in Nat : i < Length(r) => ByteAt(Extend(r, text), i) = ByteAt(r, i)
           /\ \A k \in Nat : k < Len(text) =>
                  ByteAt(Extend(r, text), Length(r) + k) = text[k + 1]
  <1> DEFINE n == Len(text)
             s == Reserve(r, n)
             m == Laid(s, text)
             e == Advance(s, n, m)
             L == Length(r)
  <1>0. n \in Nat
    OBVIOUS
  <1>1. GoodRing(s) /\ Length(s) = L /\ Free(s) >= n
        /\ \A i \in Nat : i < L => ByteAt(s, i) = ByteAt(r, i)
    BY <1>0, ReserveKeeps
  <1>2. L \in Nat /\ Free(s) \in Nat
    BY <1>1, RingSizesAre DEF GoodRing
  <1> HIDE DEF s
  <1>3. /\ m \in [0 .. s.cap - 1 -> Int]
        /\ \A i \in Nat : i < L => m[Spot(s, i)] = s.mem[Spot(s, i)]
        /\ \A k \in Nat : k < n => m[Spot(s, L + k)] = text[k + 1]
    BY <1>0, <1>1, <1>2, LaidIs
  <1> HIDE DEF m
  <1>4. /\ GoodRing(e) /\ Length(e) = L + n
        /\ \A i \in Nat : i < L + n => ByteAt(e, i) = m[Spot(s, i)]
    BY <1>0, <1>1, <1>2, <1>3, AdvanceAdds
  <1>5. Extend(r, text) = e
    BY DEF Extend, e, m, s
  <1> HIDE DEF e, n, L
  <1>6. ASSUME NEW i \in Nat, i < L
        PROVE  ByteAt(e, i) = ByteAt(r, i)
    <2>1. ByteAt(e, i) = m[Spot(s, i)]
      BY <1>0, <1>2, <1>4, <1>6
    <2>2. ByteAt(s, i) = s.mem[Spot(s, i)]
      BY <1>1, <1>6, SpotsAre DEF GoodRing
    <2> QED
      BY <2>1, <2>2, <1>1, <1>3, <1>6
  <1>7. ASSUME NEW k \in Nat, k < n
        PROVE  ByteAt(e, L + k) = text[k + 1]
    <2>1. L + k \in Nat /\ L + k < L + n
      BY <1>0, <1>2, <1>7
    <2> QED
      BY <2>1, <1>3, <1>4, <1>7
  <1> QED
    BY <1>4, <1>5, <1>6, <1>7 DEF n, L

-----------------------------------------------------------------------------
(* A copy that overshoots stays within the room on both sides.               *)
LEMMA OvershootFits ==
    ASSUME NEW space \in Nat, NEW n \in Nat, n <= space
    PROVE  Overshoot(space, n) \in Nat /\ n + Overshoot(space, n) <= space
  <1>1. CopyAtOnce \in Nat /\ CopyAtOnce > 0
    BY RingConstants
  <1> DEFINE q == (n + CopyAtOnce - 1) \div CopyAtOnce
  <1>2. q \in Nat /\ n + CopyAtOnce - 1 < CopyAtOnce * q + CopyAtOnce
    <2>1. n + CopyAtOnce - 1 \in Nat
      BY <1>1
    <2> QED
      BY <1>1, <2>1, Division
  <1>3. RoundUp(n) = q * CopyAtOnce
    BY DEF RoundUp
  <1> HIDE DEF q
  <1>4. q * CopyAtOnce = CopyAtOnce * q /\ CopyAtOnce * q \in Nat
    BY <1>1, <1>2, Z3
  <1>5. PICK u \in Nat : RoundUp(n) = u /\ u >= n
    BY <1>1, <1>2, <1>3, <1>4
  <1> QED
    BY <1>1, <1>5 DEF Overshoot

(* What copying n bytes from src to dst leaves, with room up to dst + dstLen. *)
Copied(new, was, c, src, dst0, dstLen, n) ==
    /\ new \in [0 .. c - 1 -> Int]
    /\ \A i \in 0 .. n - 1 : new[dst0 + i] = was[src + i]
    /\ \A i \in 0 .. c - 1 : i < dst0 \/ i >= dst0 + dstLen => new[i] = was[i]

(* copy_bytes_overshooting.                                                 *)
LEMMA CopyIs ==
    ASSUME NEW c \in Nat, NEW mem0 \in [0 .. c - 1 -> Int],
           NEW src \in Nat, NEW srcLen \in Nat, NEW dst0 \in Nat, NEW dstLen \in Nat, NEW n \in Nat,
           n <= srcLen, n <= dstLen, src + srcLen <= c, dst0 + dstLen <= c
    PROVE  Copied(Copy(mem0, src, srcLen, dst0, dstLen, n), mem0, c, src, dst0, dstLen, n)
  <1> DEFINE room0 == MinOf(srcLen, dstLen)
             o == Overshoot(room0, n)
             m == Copy(mem0, src, srcLen, dst0, dstLen, n)
  <1>1. room0 \in Nat /\ n <= room0 /\ room0 <= srcLen /\ room0 <= dstLen
    BY DEF MinOf
  <1> HIDE DEF room0
  <1>2. o \in Nat /\ n + o <= room0
    BY <1>1, OvershootFits
  <1> HIDE DEF o
  <1>3. m = [i \in 0 .. c - 1 |-> IF dst0 <= i /\ i < dst0 + n + o THEN mem0[src + i - dst0] ELSE mem0[i]]
    BY DEF Copy, o, room0
  <1> HIDE DEF m
  <1>4. \A i \in 0 .. c - 1 : dst0 <= i /\ i < dst0 + n + o => src + i - dst0 \in 0 .. c - 1
    BY <1>1, <1>2
  <1>5. \A i \in 0 .. c - 1 : mem0[i] \in Int
    OBVIOUS
  <1>6. m \in [0 .. c - 1 -> Int]
    BY <1>3, <1>4, <1>5
  <1>7. ASSUME NEW i \in 0 .. n - 1
        PROVE  m[dst0 + i] = mem0[src + i]
    <2>1. dst0 + i \in 0 .. c - 1 /\ dst0 <= dst0 + i /\ dst0 + i < dst0 + n + o
          /\ src + (dst0 + i) - dst0 = src + i
      BY <1>1, <1>2
    <2> QED
      BY <2>1, <1>3
  <1>8. ASSUME NEW i \in 0 .. c - 1, i < dst0 \/ i >= dst0 + dstLen
        PROVE  m[i] = mem0[i]
    <2>1. ~(dst0 <= i /\ i < dst0 + n + o)
      BY <1>1, <1>2, <1>8
    <2> QED
      BY <2>1, <1>3
  <1> QED
    BY <1>6, <1>7, <1>8 DEF m, Copied

(* extend_from_within: the data stays, and the n bytes from start on are     *)
(* repeated behind the tail, in each of the layouts.                        *)
LEMMA WithinIs ==
    ASSUME NEW r, GoodRing(r), NEW begin \in Nat, NEW n \in Nat, n > 0,
           begin + n <= Length(r), n <= Free(r)
    PROVE  /\ Within(r, begin, n) \in [0 .. r.cap - 1 -> Int]
           /\ \A i \in Nat : i < Length(r) => Within(r, begin, n)[Spot(r, i)] = r.mem[Spot(r, i)]
           /\ \A k \in Nat : k < n =>
                  Within(r, begin, n)[Spot(r, Length(r) + k)] = r.mem[Spot(r, begin + k)]
  <1>1. PICK c \in Nat, h \in Nat, t \in Nat :
            r.cap = c /\ r.head = h /\ r.tail = t /\ RingCursors(c, h, t)
    BY DEF GoodRing, RingCursors
  <1>2. /\ Length(r) = IF t >= h THEN t - h ELSE c - h + t
        /\ Free(r) = IF c = 0 THEN 0 ELSE IF t < h THEN h - t - 1 ELSE c - t + h - 1
    BY <1>1, RingLengths
  <1> DEFINE L == Length(r)
             m == Within(r, begin, n)
             Was == r.mem
             At(i) == IF h + i >= c THEN h + i - c ELSE h + i
             Behind(k) == IF t + k >= c THEN t + k - c ELSE t + k
  <1>3. L \in Nat
    BY RingSizesAre DEF GoodRing
  <1>4. \A i \in Nat : Spot(r, i) = At(i)
    BY <1>1 DEF Spot, wrap_add
  <1>5. \A k \in Nat : k < n => Spot(r, L + k) = Behind(k)
    <2> TAKE k \in Nat
    <2> HAVE k < n
    <2>1. k < Free(r)
      BY <1>1, <1>2
    <2> QED
      BY <1>1, <2>1, SpotsBehind
  <1>6. Was \in [0 .. c - 1 -> Int]
    BY <1>1 DEF GoodRing
  <1>7. c > 0 /\ h < c /\ t < c
    BY <1>1, <1>2 DEF RingCursors
  <1>8. /\ n <= (IF t < h THEN h - t - 1 ELSE c - t + h - 1)
        /\ begin + n <= (IF t >= h THEN t - h ELSE c - h + t)
    BY <1>2, <1>7
  <1>9. SUFFICES
            /\ m \in [0 .. c - 1 -> Int]
            /\ \A i \in Nat : i < L => m[At(i)] = Was[At(i)]
            /\ \A k \in Nat : k < n => m[Behind(k)] = Was[At(begin + k)]
    <2>1. \A k \in Nat : begin + k \in Nat
      OBVIOUS
    <2> HIDE DEF m, L, Was, At, Behind
    <2>2. ASSUME NEW i \in Nat, i < L PROVE m[Spot(r, i)] = Was[Spot(r, i)]
      BY <1>4, <1>9, <2>2
    <2>3. ASSUME NEW k \in Nat, k < n PROVE m[Spot(r, L + k)] = Was[Spot(r, begin + k)]
      BY <1>4, <1>5, <1>9, <2>1, <2>3
    <2> QED
      BY <1>1, <1>9, <2>2, <2>3 DEF m, L, Was
  <1>10. CASE h < t
    <2> DEFINE here == MinOf(n, c - t)
               first == Copy(Was, h + begin, t - h - begin, t, c - t, here)
               second == Copy(first, h + begin + here, t - h - begin - here, 0, h, n - here)
    <2>1. m = IF here = n THEN first ELSE second
      BY <1>1, <1>10 DEF Within
    <2>2. here \in Nat /\ here <= n /\ here <= c - t /\ (here < n => here = c - t)
      BY <1>7 DEF MinOf
    <2> HIDE DEF here, m, Was
    <2>3. /\ first \in [0 .. c - 1 -> Int]
          /\ \A i \in 0 .. here - 1 : first[t + i] = Was[h + begin + i]
          /\ \A i \in 0 .. c - 1 : i < t \/ i >= t + (c - t) => first[i] = Was[i]
      <3>1. /\ h + begin \in Nat /\ t - h - begin \in Nat /\ c - t \in Nat
            /\ here <= t - h - begin /\ h + begin + (t - h - begin) <= c /\ t + (c - t) <= c
        BY <1>7, <1>8, <1>10, <2>2
      <3>2. Copied(first, Was, c, h + begin, t, c - t, here)
        BY <3>1, <2>2, <1>6, CopyIs
      <3> QED
        BY <3>2 DEF Copied
    <2> HIDE DEF first
    <2>4. /\ second \in [0 .. c - 1 -> Int]
          /\ \A i \in 0 .. (n - here) - 1 : second[0 + i] = first[h + begin + here + i]
          /\ \A i \in 0 .. c - 1 : i < 0 \/ i >= 0 + h => second[i] = first[i]
      <3>1. /\ h + begin + here \in Nat /\ t - h - begin - here \in Nat /\ n - here \in Nat
            /\ n - here <= t - h - begin - here /\ n - here <= h
            /\ h + begin + here + (t - h - begin - here) <= c /\ 0 + h <= c
        BY <1>7, <1>8, <1>10, <2>2
      <3>2. Copied(second, first, c, h + begin + here, 0, h, n - here)
        BY <3>1, <2>3, CopyIs
      <3> QED
        BY <3>2 DEF Copied
    <2> HIDE DEF second
    <2>5. m \in [0 .. c - 1 -> Int]
      BY <2>1, <2>3, <2>4
    <2>6. ASSUME NEW i \in Nat, i < L PROVE m[At(i)] = Was[At(i)]
      <3>1. At(i) = h + i /\ h + i \in 0 .. c - 1 /\ h + i < t /\ h + i >= 0 + h
        BY <1>2, <1>7, <1>10, <2>6
      <3>2. first[h + i] = Was[h + i] /\ second[h + i] = first[h + i]
        BY <3>1, <2>3, <2>4
      <3> QED
        BY <2>1, <3>1, <3>2
    <2>7. ASSUME NEW k \in Nat, k < n PROVE m[Behind(k)] = Was[At(begin + k)]
      <3>1. At(begin + k) = h + begin + k /\ h + begin + k < t
        BY <1>7, <1>8, <1>10, <2>7
      <3>2. CASE k < here
        <4>1. Behind(k) = t + k /\ k \in 0 .. here - 1 /\ t + k \in 0 .. c - 1 /\ t + k >= 0 + h
          BY <1>7, <1>10, <2>2, <3>2
        <4>2. first[t + k] = Was[h + begin + k] /\ second[t + k] = first[t + k]
          BY <2>3, <2>4, <4>1
        <4> QED
          BY <2>1, <3>1, <4>1, <4>2
      <3>3. CASE ~(k < here)
        <4>1. /\ here # n /\ k - here \in 0 .. (n - here) - 1 /\ Behind(k) = 0 + (k - here)
              /\ h + begin + here + (k - here) = h + begin + k /\ h + begin + k \in 0 .. c - 1
          BY <1>7, <1>8, <1>10, <2>2, <2>7, <3>1, <3>3
        <4>2. second[0 + (k - here)] = first[h + begin + here + (k - here)]
          BY <2>4, <4>1
        <4>3. first[h + begin + k] = Was[h + begin + k]
          BY <2>3, <3>1, <4>1
        <4> QED
          BY <2>1, <3>1, <4>1, <4>2, <4>3
      <3> QED
        BY <3>2, <3>3
    <2> QED
      BY <2>5, <2>6, <2>7
  <1>11. CASE ~(h < t) /\ h + begin > c
    <2> DEFINE s == wrap_add(h, begin, c)
    <2>1. m = Copy(Was, s, t - s, t, h - t, n)
      BY <1>1, <1>11 DEF Within
    <2>2. s = h + begin - c
      BY <1>11, <1>7 DEF wrap_add
    <2> HIDE DEF s, m, Was
    <2>3. /\ m \in [0 .. c - 1 -> Int]
          /\ \A i \in 0 .. n - 1 : m[t + i] = Was[s + i]
          /\ \A i \in 0 .. c - 1 : i < t \/ i >= t + (h - t) => m[i] = Was[i]
      <3>1. /\ s \in Nat /\ t - s \in Nat /\ h - t \in Nat
            /\ n <= t - s /\ n <= h - t /\ s + (t - s) <= c /\ t + (h - t) <= c
        BY <1>7, <1>8, <1>11, <2>2
      <3>2. Copied(m, Was, c, s, t, h - t, n)
        BY <3>1, <2>1, <1>6, CopyIs
      <3> QED
        BY <3>2 DEF Copied
    <2>4. ASSUME NEW i \in Nat, i < L PROVE m[At(i)] = Was[At(i)]
      <3>1. At(i) \in 0 .. c - 1 /\ (At(i) < t \/ At(i) >= t + (h - t))
        BY <1>2, <1>7, <1>11, <2>4
      <3> HIDE DEF At
      <3> QED
        BY <2>3, <3>1
    <2>5. ASSUME NEW k \in Nat, k < n PROVE m[Behind(k)] = Was[At(begin + k)]
      <3>1. Behind(k) = t + k /\ At(begin + k) = s + k /\ k \in 0 .. n - 1
        BY <1>7, <1>8, <1>11, <2>2, <2>5
      <3> HIDE DEF Behind, At
      <3> QED
        BY <2>3, <3>1
    <2> QED
      BY <2>3, <2>4, <2>5
  <1>12. CASE ~(h < t) /\ ~(h + begin > c)
    <2> DEFINE here == MinOf(n, c - h - begin)
               first == Copy(Was, h + begin, c - h - begin, t, h - t, here)
               second == Copy(first, 0, t, t + here, h - t - here, n - here)
    <2>1. m = IF here = n THEN first ELSE second
      BY <1>1, <1>12 DEF Within
    <2>2. here \in Nat /\ here <= n /\ here <= c - h - begin /\ (here < n => here = c - h - begin)
      BY <1>7, <1>12 DEF MinOf
    <2> HIDE DEF here, m, Was
    <2>3. /\ first \in [0 .. c - 1 -> Int]
          /\ \A i \in 0 .. here - 1 : first[t + i] = Was[h + begin + i]
          /\ \A i \in 0 .. c - 1 : i < t \/ i >= t + (h - t) => first[i] = Was[i]
      <3>1. /\ h + begin \in Nat /\ c - h - begin \in Nat /\ h - t \in Nat
            /\ here <= h - t /\ h + begin + (c - h - begin) <= c /\ t + (h - t) <= c
        BY <1>7, <1>8, <1>12, <2>2
      <3>2. Copied(first, Was, c, h + begin, t, h - t, here)
        BY <3>1, <2>2, <1>6, CopyIs
      <3> QED
        BY <3>2 DEF Copied
    <2> HIDE DEF first
    <2>4. /\ second \in [0 .. c - 1 -> Int]
          /\ \A i \in 0 .. (n - here) - 1 : second[t + here + i] = first[0 + i]
          /\ \A i \in 0 .. c - 1 : i < t + here \/ i >= t + here + (h - t - here) => second[i] = first[i]
      <3>1. /\ t + here \in Nat /\ h - t - here \in Nat /\ n - here \in Nat
            /\ n - here <= t /\ n - here <= h - t - here
            /\ 0 + t <= c /\ t + here + (h - t - here) <= c
        BY <1>7, <1>8, <1>12, <2>2
      <3>2. Copied(second, first, c, 0, t + here, h - t - here, n - here)
        BY <3>1, <2>3, CopyIs
      <3> QED
        BY <3>2 DEF Copied
    <2> HIDE DEF second
    <2>5. m \in [0 .. c - 1 -> Int]
      BY <2>1, <2>3, <2>4
    <2>6. ASSUME NEW i \in Nat, i < L PROVE m[At(i)] = Was[At(i)]
      <3>1. At(i) \in 0 .. c - 1 /\ (At(i) < t \/ At(i) >= t + (h - t))
        BY <1>2, <1>7, <1>12, <2>6
      <3>2. At(i) < t + here \/ At(i) >= t + here + (h - t - here)
        BY <1>7, <3>1, <2>2
      <3> HIDE DEF At
      <3>3. first[At(i)] = Was[At(i)] /\ second[At(i)] = first[At(i)]
        BY <3>1, <3>2, <2>3, <2>4
      <3> QED
        BY <2>1, <3>3
    <2>7. ASSUME NEW k \in Nat, k < n PROVE m[Behind(k)] = Was[At(begin + k)]
      <3>1. Behind(k) = t + k /\ t + k \in 0 .. c - 1 /\ t + k < h
        BY <1>7, <1>8, <1>12, <2>7
      <3>2. CASE k < here
        <4>1. At(begin + k) = h + begin + k /\ k \in 0 .. here - 1 /\ t + k < t + here
          BY <1>7, <1>12, <2>2, <3>2
        <4>2. first[t + k] = Was[h + begin + k] /\ second[t + k] = first[t + k]
          BY <2>3, <2>4, <4>1, <3>1
        <4> HIDE DEF At, Behind
        <4> QED
          BY <2>1, <3>1, <4>1, <4>2
      <3>3. CASE ~(k < here)
        <4>1. /\ here # n /\ k - here \in 0 .. (n - here) - 1 /\ t + k = t + here + (k - here)
              /\ At(begin + k) = 0 + (k - here) /\ 0 + (k - here) \in 0 .. c - 1 /\ 0 + (k - here) < t
          BY <1>7, <1>8, <1>12, <2>2, <2>7, <3>1, <3>3
        <4>2. second[t + here + (k - here)] = first[0 + (k - here)]
          BY <2>4, <4>1
        <4>3. first[0 + (k - here)] = Was[0 + (k - here)]
          BY <2>3, <4>1
        <4> HIDE DEF At, Behind
        <4> QED
          BY <2>1, <3>1, <4>1, <4>2, <4>3
      <3> QED
        BY <3>2, <3>3
    <2> QED
      BY <2>5, <2>6, <2>7
  <1> QED
    BY <1>10, <1>11, <1>12

(* drop_first_n.                                                            *)
LEMMA DropFirstIs ==
    ASSUME NEW r, GoodRing(r), NEW n \in Nat, n <= Length(r)
    PROVE  /\ GoodRing(DropFirst(r, n))
           /\ Length(DropFirst(r, n)) = Length(r) - n
           /\ \A i \in Nat : i < Length(r) - n => ByteAt(DropFirst(r, n), i) = ByteAt(r, n + i)
  <1>1. PICK c \in Nat, h \in Nat, t \in Nat :
            r.cap = c /\ r.head = h /\ r.tail = t /\ RingCursors(c, h, t)
    BY DEF GoodRing, RingCursors
  <1>2. Length(r) = IF t >= h THEN t - h ELSE c - h + t
    BY <1>1, RingLengths
  <1> DEFINE u == wrap_add(h, n, c)
             d == [r EXCEPT !.head = u]
  <1>3. MinOf(n, Length(r)) = n
    BY <1>1, <1>2 DEF MinOf
  <1>4. DropFirst(r, n) = Forget(d)
    BY <1>1, <1>3 DEF DropFirst
  <1>5. d = [cap |-> c, head |-> u, tail |-> t, mem |-> r.mem]
    BY <1>1, RingExcept DEF GoodRing
  <1>6. u \in Nat /\ RingCursors(c, u, t)
    BY <1>1, <1>2 DEF wrap_add, RingCursors
  <1>7. (IF t >= u THEN t - u ELSE c - u + t) = Length(r) - n
    BY <1>1, <1>2 DEF wrap_add, RingCursors
  <1>8. \A i \in Nat : i < Length(r) - n => wrap_add(u, i, c) = wrap_add(h, n + i, c)
    BY <1>1, <1>2 DEF wrap_add, RingCursors
  <1> HIDE DEF u, d
  <1>9. d.cap = c /\ d.head = u /\ d.tail = t /\ d.mem = r.mem
    BY <1>5
  <1>10. Length(d) = Length(r) - n
    BY <1>6, <1>7, <1>9, RingLengths
  <1>11. GoodRing(d)
    BY <1>1, <1>5, <1>6, <1>9 DEF GoodRing, RingRecord
  <1>12. ASSUME NEW i \in Nat, i < Length(r) - n
         PROVE  ByteAt(Forget(d), i) = ByteAt(r, n + i)
    <2>1. ByteAt(Forget(d), i) = ByteAt(d, i)
      BY <1>10, <1>11, <1>12, ForgetKeeps
    <2> QED
      BY <2>1, <1>1, <1>8, <1>9, <1>12 DEF ByteAt
  <1> QED
    BY <1>4, <1>10, <1>11, <1>12, ForgetKeeps

(* The ring holds what follows the hashed bytes of the output, up to a point.   *)
Holds(r, h, o, upto) ==
    /\ GoodRing(r) /\ h \in Seq(Int) /\ o \in Seq(Int)
    /\ upto \in Nat /\ upto <= Len(o) /\ Length(r) + Len(h) = upto
    /\ \A i \in 1 .. Len(h) : h[i] = o[i]
    /\ \A k \in Nat : k < Length(r) => ByteAt(r, k) = o[Len(h) + k + 1]

(* What is made so far is the same in two outputs.                           *)
Prefixed(o, o2, upto) == o2 \in Seq(Int) /\ upto <= Len(o2) /\ \A i \in 1 .. upto : o2[i] = o[i]

LEMMA HoldsSizes ==
    ASSUME NEW r, NEW h, NEW o, NEW upto, Holds(r, h, o, upto)
    PROVE  /\ GoodRing(r) /\ Length(r) \in Nat /\ Free(r) \in Nat /\ upto \in Nat /\ Len(h) \in Nat
           /\ Length(r) + Len(h) = upto
  <1>1. RingCursors(r.cap, r.head, r.tail) /\ GoodRing(r)
    BY DEF Holds, GoodRing
  <1>2. Length(r) \in Nat /\ Free(r) \in Nat
    BY <1>1, RingSizesAre
  <1>3. h \in Seq(Int)
    BY DEF Holds
  <1>4. Len(h) \in Nat
    BY <1>3
  <1>5. upto \in Nat /\ Length(r) + Len(h) = upto
    BY DEF Holds
  <1> QED
    BY <1>1, <1>2, <1>4, <1>5

LEMMA HoldsLonger ==
    ASSUME NEW r, NEW h, NEW o, NEW o2, NEW upto, Holds(r, h, o, upto), Prefixed(o, o2, upto)
    PROVE  Holds(r, h, o2, upto)
  <1>0. h \in Seq(Int)
    BY DEF Holds
  <1>1. /\ upto \in Nat /\ Length(r) + Len(h) = upto /\ h \in Seq(Int)
        /\ Length(r) \in Nat /\ Len(h) \in Nat
    BY ONLY <1>0, HoldsSizes, Holds(r, h, o, upto)
  <1>2. \A i \in 1 .. Len(h) : i \in 1 .. upto
    BY <1>1
  <1>3. \A k \in Nat : k < Length(r) => Len(h) + k + 1 \in 1 .. upto
    BY <1>1
  <1> QED
    BY <1>2, <1>3 DEF Holds, Prefixed

LEMMA HoldsReserve ==
    ASSUME NEW r, NEW h, NEW o, NEW upto, Holds(r, h, o, upto), NEW n \in Nat, Fits(r, n)
    PROVE  Holds(Reserve(r, n), h, o, upto)
  <1>1. GoodRing(r)
    BY DEF Holds
  <1> DEFINE s == Reserve(r, n)
  <1>2. GoodRing(s) /\ Length(s) = Length(r)
        /\ \A i \in Nat : i < Length(r) => ByteAt(s, i) = ByteAt(r, i)
    BY <1>1, ReserveKeeps
  <1> HIDE DEF s
  <1>3. Holds(s, h, o, upto)
    BY <1>2 DEF Holds
  <1> QED
    BY <1>3 DEF s

LEMMA HoldsExtend ==
    ASSUME NEW r, NEW h, NEW o, NEW upto, Holds(r, h, o, upto), NEW text \in Seq(Int),
           Fits(r, Len(text)), upto + Len(text) <= Len(o),
           \A k \in Nat : k < Len(text) => o[upto + k + 1] = text[k + 1]
    PROVE  Holds(Extend(r, text), h, o, upto + Len(text))
  <1> DEFINE n == Len(text)
             L == Length(r)
             e == Extend(r, text)
  <1>1. GoodRing(r) /\ L \in Nat /\ n \in Nat /\ upto \in Nat /\ Len(h) \in Nat /\ L + Len(h) = upto
    BY HoldsSizes
  <1>2. /\ GoodRing(e) /\ Length(e) = L + n
        /\ \A i \in Nat : i < L => ByteAt(e, i) = ByteAt(r, i)
        /\ \A k \in Nat : k < n => ByteAt(e, L + k) = text[k + 1]
    BY <1>1, ExtendAdds
  <1> HIDE DEF e
  <1>3. ASSUME NEW k \in Nat, k < L + n PROVE ByteAt(e, k) = o[Len(h) + k + 1]
    <2>1. CASE k < L
      BY <2>1, <1>2 DEF Holds
    <2>2. CASE ~(k < L)
      <3> DEFINE j == k - L
      <3>1. j \in Nat /\ j < n /\ L + j = k /\ upto + j + 1 = Len(h) + k + 1
        BY <2>2, <1>1, <1>3
      <3> HIDE DEF j
      <3>2. ByteAt(e, L + j) = text[j + 1] /\ o[upto + j + 1] = text[j + 1]
        BY <3>1, <1>2
      <3> QED
        BY <3>1, <3>2
    <2> QED
      BY <2>1, <2>2
  <1>4. upto + n \in Nat /\ (L + n) + Len(h) = upto + n
    <2>1. L \in Nat /\ n \in Nat /\ upto \in Nat /\ Len(h) \in Nat /\ L + Len(h) = upto
      BY <1>1
    <2> HIDE DEF L, n
    <2> QED
      BY ONLY <2>1
  <1>5. Holds(e, h, o, upto + n)
    BY <1>2, <1>3, <1>4 DEF Holds
  <1> QED
    BY <1>5 DEF e

(* A stretch of the output repeats an earlier one.                           *)
Repeated(o, a, b, n) == \A k \in Nat : k < n => o[a + k + 1] = o[b + k + 1]

LEMMA HoldsCopy ==
    ASSUME NEW r, NEW h, NEW o, NEW upto, Holds(r, h, o, upto), NEW begin \in Nat, NEW n \in Nat, n > 0,
           begin + n <= Length(r), n <= Free(r), upto + n <= Len(o),
           Repeated(o, upto, Len(h) + begin, n)
    PROVE  /\ Holds(Advance(r, n, Within(r, begin, n)), h, o, upto + n)
           /\ Length(Advance(r, n, Within(r, begin, n))) = Length(r) + n
           /\ Free(Advance(r, n, Within(r, begin, n))) = Free(r) - n
  <1> DEFINE L == Length(r)
             m == Within(r, begin, n)
             e == Advance(r, n, m)
  <1>1. GoodRing(r) /\ L \in Nat /\ upto \in Nat /\ Len(h) \in Nat /\ L + Len(h) = upto
    BY HoldsSizes
  <1>2. /\ m \in [0 .. r.cap - 1 -> Int]
        /\ \A i \in Nat : i < L => m[Spot(r, i)] = r.mem[Spot(r, i)]
        /\ \A k \in Nat : k < n => m[Spot(r, L + k)] = r.mem[Spot(r, begin + k)]
    BY <1>1, WithinIs
  <1> HIDE DEF m
  <1>3. /\ GoodRing(e) /\ Length(e) = L + n /\ Free(e) = Free(r) - n
        /\ \A i \in Nat : i < L + n => ByteAt(e, i) = m[Spot(r, i)]
    BY <1>1, <1>2, AdvanceAdds
  <1> HIDE DEF e
  <1>4. \A i \in Nat : i < L => ByteAt(r, i) = r.mem[Spot(r, i)]
    BY <1>1, SpotsAre DEF GoodRing
  <1>5. ASSUME NEW k \in Nat, k < L + n PROVE ByteAt(e, k) = o[Len(h) + k + 1]
    <2>1. CASE k < L
      BY <2>1, <1>2, <1>3, <1>4, <1>5 DEF Holds
    <2>2. CASE ~(k < L)
      <3> DEFINE j == k - L
      <3>1. /\ j \in Nat /\ j < n /\ L + j = k /\ upto + j + 1 = Len(h) + k + 1
            /\ begin + j \in Nat /\ begin + j < L /\ Len(h) + (begin + j) + 1 = Len(h) + begin + j + 1
        <4>1. L \in Nat /\ L + Len(h) = upto /\ k < L + n /\ ~(k < L) /\ begin + n <= L
              /\ Len(h) \in Nat
          BY <2>2, <1>1, <1>5
        <4> HIDE DEF L
        <4> QED
          BY <4>1
      <3> HIDE DEF j, L
      <3>2. ByteAt(e, L + j) = m[Spot(r, L + j)]
        BY <3>1, <1>3, <1>5
      <3>3. m[Spot(r, L + j)] = r.mem[Spot(r, begin + j)]
        BY <3>1, <1>2
      <3>4. r.mem[Spot(r, begin + j)] = ByteAt(r, begin + j)
        BY <3>1, <1>4
      <3>5. ByteAt(r, begin + j) = o[Len(h) + (begin + j) + 1]
        BY <3>1 DEF Holds, L
      <3>6. o[upto + j + 1] = o[Len(h) + begin + j + 1]
        BY <3>1 DEF Repeated
      <3> QED
        BY <3>1, <3>2, <3>3, <3>4, <3>5, <3>6
    <2> QED
      BY <2>1, <2>2
  <1>6. upto + n \in Nat /\ (L + n) + Len(h) = upto + n
    BY <1>1
  <1>7. Holds(e, h, o, upto + n)
    BY <1>3, <1>5, <1>6 DEF Holds
  <1> QED
    BY <1>3, <1>7 DEF e, m, L

(* The first n bytes of the ring are dropped, and they are hashed.           *)
Dropped(r, s, n) ==
    /\ GoodRing(s) /\ Length(s) = Length(r) - n
    /\ \A i \in Nat : i < Length(r) - n => ByteAt(s, i) = ByteAt(r, n + i)

Hashed(r, h, h2, n) ==
    /\ h2 \in Seq(Int) /\ Len(h2) = Len(h) + n
    /\ \A i \in 1 .. Len(h) : h2[i] = h[i]
    /\ \A k \in Nat : k < n => h2[Len(h) + k + 1] = ByteAt(r, k)

LEMMA HoldsDrop ==
    ASSUME NEW r, NEW h, NEW o, NEW upto, Holds(r, h, o, upto), NEW n \in Nat, n <= Length(r),
           NEW s, Dropped(r, s, n), NEW h2, Hashed(r, h, h2, n)
    PROVE  Holds(s, h2, o, upto)
  <1> DEFINE L == Length(r)
  <1>1. GoodRing(r) /\ L \in Nat /\ upto \in Nat /\ Len(h) \in Nat /\ L + Len(h) = upto
    BY HoldsSizes
  <1>5. /\ Dropped(r, s, n) /\ Hashed(r, h, h2, n)
        /\ h2 \in Seq(Int) /\ Len(h2) = Len(h) + n
    BY DEF Hashed
  <1>2. ASSUME NEW i \in 1 .. Len(h2) PROVE h2[i] = o[i]
    <2>1. CASE i <= Len(h)
      <3>1. i \in 1 .. Len(h)
        BY <2>1, <1>1
      <3> QED
        BY <3>1, <1>5 DEF Holds, Hashed
    <2>2. CASE ~(i <= Len(h))
      <3> DEFINE j == i - Len(h) - 1
      <3>1. j \in Nat /\ j < n /\ j < L /\ Len(h) + j + 1 = i
        BY <2>2, <1>1, <1>5
      <3> HIDE DEF j
      <3> QED
        BY <3>1, <1>5 DEF Holds, Hashed
    <2> QED
      BY <2>1, <2>2, <1>1
  <1>3. ASSUME NEW k \in Nat, k < L - n PROVE ByteAt(s, k) = o[Len(h2) + k + 1]
    <2>1. n + k \in Nat /\ n + k < L /\ Len(h) + (n + k) + 1 = Len(h2) + k + 1
      BY <1>1, <1>3, <1>5
    <2> QED
      BY <2>1, <1>3, <1>5 DEF Holds, Dropped
  <1>4. (L - n) + Len(h2) = upto
    BY <1>1, <1>5
  <1> QED
    BY <1>1, <1>2, <1>3, <1>4, <1>5 DEF Holds, Dropped

LEMMA SeqOfInt ==
    ASSUME NEW n \in Nat, NEW f \in [1 .. n -> Int]
    PROVE  f \in Seq(Int) /\ Len(f) = n
  OBVIOUS

LEMMA Joined ==
    ASSUME NEW f \in Seq(Int), NEW g \in Seq(Int)
    PROVE  /\ f \o g \in Seq(Int) /\ Len(f \o g) = Len(f) + Len(g)
           /\ \A i \in 1 .. Len(f) : (f \o g)[i] = f[i]
           /\ \A i \in 1 .. Len(g) : (f \o g)[Len(f) + i] = g[i]
  OBVIOUS

(* The slices the checksum absorbs are the first bytes of the ring.          *)
LEMMA SlicesAre ==
    ASSUME NEW r, GoodRing(r), NEW h \in Seq(Int), NEW n1 \in Nat, NEW n2 \in Nat,
           n1 <= DataFirst(r), n2 <= DataSecond(r), n2 > 0 => n1 = DataFirst(r),
           NEW h2, h2 = h \o [i \in 1 .. n1 |-> r.mem[r.head + i - 1]] \o [i \in 1 .. n2 |-> r.mem[i - 1]]
    PROVE  n1 + n2 \in Nat /\ n1 + n2 <= Length(r) /\ Hashed(r, h, h2, n1 + n2)
  <1>1. PICK c \in Nat, hd \in Nat, tl \in Nat :
            r.cap = c /\ r.head = hd /\ r.tail = tl /\ RingCursors(c, hd, tl)
    BY DEF GoodRing, RingCursors
  <1>2. /\ DataFirst(r) = IF tl >= hd THEN tl - hd ELSE c - hd
        /\ DataSecond(r) = IF tl >= hd THEN 0 ELSE tl
        /\ Length(r) = IF tl >= hd THEN tl - hd ELSE c - hd + tl
    BY <1>1, RingLengths
  <1> DEFINE a == [i \in 1 .. n1 |-> r.mem[r.head + i - 1]]
             b == [i \in 1 .. n2 |-> r.mem[i - 1]]
  <1>3. /\ \A i \in 1 .. n1 : hd + i - 1 \in 0 .. c - 1
        /\ \A i \in 1 .. n2 : i - 1 \in 0 .. c - 1
    BY <1>1, <1>2 DEF RingCursors
  <1>4. r.mem \in [0 .. c - 1 -> Int]
    BY <1>1 DEF GoodRing
  <1>5. a \in Seq(Int) /\ Len(a) = n1 /\ \A i \in 1 .. n1 : a[i] = r.mem[hd + i - 1]
    <2>1. a \in [1 .. n1 -> Int]
      BY <1>1, <1>3, <1>4
    <2> QED
      BY <2>1, <1>1, SeqOfInt
  <1>6. b \in Seq(Int) /\ Len(b) = n2 /\ \A i \in 1 .. n2 : b[i] = r.mem[i - 1]
    <2>1. b \in [1 .. n2 -> Int]
      BY <1>3, <1>4
    <2> QED
      BY <2>1, SeqOfInt
  <1> HIDE DEF a, b
  <1>7. h2 = h \o a \o b
    BY DEF a, b
  <1>8. /\ h2 \in Seq(Int) /\ Len(h2) = Len(h) + (n1 + n2)
        /\ \A i \in 1 .. Len(h) : h2[i] = h[i]
        /\ \A i \in 1 .. n1 : h2[Len(h) + i] = a[i]
        /\ \A i \in 1 .. n2 : h2[Len(h) + n1 + i] = b[i]
    <2> DEFINE ha == h \o a
    <2>1. /\ ha \in Seq(Int) /\ Len(ha) = Len(h) + n1
          /\ \A i \in 1 .. Len(h) : ha[i] = h[i]
          /\ \A i \in 1 .. n1 : ha[Len(h) + i] = a[i]
      BY <1>5, Joined
    <2> HIDE DEF ha
    <2>2. /\ ha \o b \in Seq(Int) /\ Len(ha \o b) = Len(ha) + n2
          /\ \A i \in 1 .. Len(ha) : (ha \o b)[i] = ha[i]
          /\ \A i \in 1 .. n2 : (ha \o b)[Len(ha) + i] = b[i]
      BY <2>1, <1>6, Joined
    <2>3. h2 = ha \o b
      BY <1>7 DEF ha
    <2>4. /\ \A i \in 1 .. Len(h) : i \in 1 .. Len(ha)
          /\ \A i \in 1 .. n1 : Len(h) + i \in 1 .. Len(ha)
          /\ Len(h) \in Nat
      BY <2>1
    <2>5. \A i \in 1 .. Len(h) : h2[i] = h[i]
      BY <2>1, <2>2, <2>3, <2>4
    <2>6. \A i \in 1 .. n1 : h2[Len(h) + i] = a[i]
      BY <2>1, <2>2, <2>3, <2>4
    <2>7. ASSUME NEW i \in 1 .. n2 PROVE h2[Len(h) + n1 + i] = b[i]
      <3>1. (ha \o b)[Len(ha) + i] = b[i]
        BY <2>2
      <3>2. Len(ha) + i = Len(h) + n1 + i
        BY <2>1, <2>4
      <3> QED
        BY <3>1, <3>2, <2>3
    <2>8. Len(h2) = Len(h) + (n1 + n2)
      BY <2>1, <2>2, <2>3, <2>4
    <2> QED
      BY <2>2, <2>3, <2>5, <2>6, <2>7, <2>8
  <1>9. n1 + n2 \in Nat /\ n1 + n2 <= Length(r) /\ Length(r) \in Nat
    BY <1>1, <1>2 DEF RingCursors
  <1>10. ASSUME NEW k \in Nat, k < n1 + n2 PROVE h2[Len(h) + k + 1] = ByteAt(r, k)
    <2>1. k < Length(r)
      BY <1>9, <1>10
    <2>2. /\ ByteAt(r, k) = r.mem[Spot(r, k)]
          /\ Spot(r, k) = IF k < DataFirst(r) THEN r.head + k ELSE k - DataFirst(r)
      BY <2>1, SpotsAre DEF GoodRing
    <2>3. CASE k < n1
      <3>1. k + 1 \in 1 .. n1 /\ hd + (k + 1) - 1 = hd + k /\ Len(h) + (k + 1) = Len(h) + k + 1
            /\ k < DataFirst(r)
        BY <2>3, <1>1, <1>2
      <3>2. h2[Len(h) + (k + 1)] = a[k + 1] /\ a[k + 1] = r.mem[hd + (k + 1) - 1]
        BY <3>1, <1>5, <1>8
      <3>3. ByteAt(r, k) = r.mem[hd + k]
        BY <3>1, <2>2, <1>1
      <3> QED
        BY <3>1, <3>2, <3>3
    <2>4. CASE ~(k < n1)
      <3> DEFINE j == k - n1 + 1
      <3>1. /\ j \in 1 .. n2 /\ Len(h) + n1 + j = Len(h) + k + 1
            /\ ~(k < DataFirst(r)) /\ j - 1 = k - DataFirst(r)
        BY <2>4, <1>1, <1>2, <1>10
      <3> HIDE DEF j
      <3> QED
        BY <3>1, <2>2, <1>6, <1>8
    <2> QED
      BY <2>3, <2>4
  <1> QED
    BY <1>8, <1>9, <1>10 DEF Hashed

(* From upto on, the output repeats what lies d behind.                      *)
Periodic(o, upto, d) == \A p \in upto + 1 .. Len(o) : o[p] = o[p - d]

(* A repeat under way: the source begins in the data, the room is there, and *)
(* what is to come is what lies as far behind as a chunk may be long.        *)
Copying(t, r, o, sum) ==
    /\ t = [at |-> "copy", start |-> t.start, offset |-> t.offset, copied |-> t.copied,
            left |-> t.left, count |-> t.count]
    /\ t.start \in Nat /\ t.offset \in Nat /\ t.copied \in Nat /\ t.left \in Nat /\ t.count \in Nat
    /\ t.left > 0 /\ t.offset + t.copied > 0
    /\ sum + t.count = Len(o)
    /\ Length(r) = t.start + t.offset + t.copied
    /\ Free(r) >= t.left
    /\ Periodic(o, Len(o) - t.left, t.offset + t.copied)

RingInv ==
    /\ ring_dict \in Nat /\ ring_window \in Nat /\ total \in Nat
    /\ Holds(ring, hash, ring_out, Len(ring_out) - todo.left)
    /\ \/ todo = [at |-> "idle", left |-> 0] /\ total = Len(ring_out)
       \/ Copying(todo, ring, ring_out, total)

(* What a state with no repeat under way is.                                 *)
LEMMA IdleIs ==
    ASSUME RingInv, Idle
    PROVE  /\ todo = [at |-> "idle", left |-> 0] /\ total = Len(ring_out)
           /\ Holds(ring, hash, ring_out, Len(ring_out))
           /\ ring_out \in Seq(Int) /\ Len(ring_out) \in Nat
  <1>1. todo = [at |-> "idle", left |-> 0] /\ total = Len(ring_out)
    BY DEF RingInv, Idle, Copying
  <1>2. ring_out \in Seq(Int)
    BY DEF RingInv, Holds
  <1>3. Len(ring_out) \in Nat
    BY <1>2
  <1>4. Len(ring_out) - todo.left = Len(ring_out)
    BY <1>1, <1>3
  <1> QED
    BY <1>1, <1>2, <1>3, <1>4 DEF RingInv

(* How such a state is reached.                                             *)
LEMMA IdleStays ==
    ASSUME ring_dict' \in Nat, ring_window' \in Nat, total' \in Nat,
           Holds(ring, hash, ring_out, Len(ring_out))', todo' = [at |-> "idle", left |-> 0],
           total' = Len(ring_out')
    PROVE  RingInv'
  <1>1. ring_out' \in Seq(Int)
    BY DEF Holds
  <1>2. Len(ring_out') - todo'.left = Len(ring_out')
    BY <1>1
  <1> QED
    BY <1>2 DEF RingInv

LEMMA Remainder ==
    ASSUME NEW a \in Nat, NEW n \in Nat, n > 0
    PROVE  /\ a % n \in 0 .. n - 1
           /\ a < n => a % n = a
           /\ a >= n => a % n = (a - n) % n
  <1>1. a % n \in 0 .. n - 1
    BY Z3
  <1>2. a < n => a % n = a
    BY Z3
  <1>3. ASSUME a >= n PROVE a % n = (a - n) % n
    <2> DEFINE b == a - n
               q == b \div n
               u == b % n
    <2>1. b \in Nat /\ a = b + n
      BY <1>3
    <2> HIDE DEF b
    <2>2. q \in Nat /\ u \in 0 .. n - 1 /\ b = n * q + u
      BY <2>1, Division, Z3
    <2> HIDE DEF q, u
    <2>3. n * (q + 1) = n * q + n /\ n * q \in Nat
      BY <2>2, Z3
    <2>4. (n * (q + 1) + u) % n = u
      BY <2>2, Z3
    <2>5. a = n * (q + 1) + u
      BY <2>1, <2>2, <2>3
    <2> QED
      BY <2>4, <2>5 DEF b, u
  <1> QED
    BY <1>1, <1>2, <1>3

(* A match: each byte is the one offset behind it, or the dictionary's.      *)
LEMMA MatchIs ==
    ASSUME ring_out \in Seq(Int), NEW offset \in Nat, offset > 0, NEW n \in Nat
    PROVE  /\ Match(offset, n) \in Seq(Int) /\ Len(Match(offset, n)) = n
           /\ \A i \in 1 .. n :
                  (ring_out \o Match(offset, n))[Len(ring_out) + i]
                  = IF Len(ring_out) + i > offset
                    THEN (ring_out \o Match(offset, n))[Len(ring_out) + i - offset]
                    ELSE Len(ring_out) + i - offset - 1
  <1> DEFINE m == Match(offset, n)
             o == ring_out
             L == Len(o)
             v(i) == L - offset + 1 + ((i - 1) % offset)
  <1>1. L \in Nat
    OBVIOUS
  <1>2. m = [i \in 1 .. n |-> Past(v(i))]
    BY DEF Match
  <1>3. \A i \in 1 .. n : i - 1 \in Nat /\ (i - 1) % offset \in 0 .. offset - 1
    BY Remainder
  <1>4. \A i \in 1 .. n : v(i) \in Int /\ v(i) <= L
    BY <1>1, <1>3
  <1>5. \A i \in 1 .. n : Past(v(i)) \in Int
    <2> TAKE i \in 1 .. n
    <2> HIDE DEF v
    <2>1. CASE v(i) > 0
      <3>1. v(i) \in 1 .. L
        BY <2>1, <1>4, <1>1
      <3> QED
        BY <3>1, <2>1 DEF Past
    <2>2. CASE ~(v(i) > 0)
      BY <2>2, <1>4 DEF Past
    <2> QED
      BY <2>1, <2>2
  <1> HIDE DEF v, m, o, L
  <1>6. m \in [1 .. n -> Int]
    BY <1>2, <1>5
  <1>7. m \in Seq(Int) /\ Len(m) = n /\ \A i \in 1 .. n : m[i] = Past(v(i))
    BY <1>2, <1>6, SeqOfInt
  <1> DEFINE o2 == o \o m
  <1>8. o \in Seq(Int) /\ Len(o) = L
    BY DEF o, L
  <1>9. /\ \A i \in 1 .. L : o2[i] = o[i]
        /\ \A i \in 1 .. n : o2[L + i] = m[i]
    BY <1>7, <1>8, Joined
  <1> HIDE DEF o2
  <1>10. ASSUME NEW i \in 1 .. n
         PROVE  o2[L + i] = IF L + i > offset THEN o2[L + i - offset] ELSE L + i - offset - 1
    <2>1. CASE i <= offset
      <3>1. (i - 1) % offset = i - 1
        BY <2>1, Remainder
      <3>2. v(i) = L + i - offset
        BY <3>1, <1>1 DEF v
      <3>3. o2[L + i] = Past(L + i - offset)
        BY <3>2, <1>7, <1>9
      <3>4. CASE L + i > offset
        <4>1. L + i - offset > 0 /\ L + i - offset \in 1 .. L
          BY <3>4, <2>1, <1>1
        <4>2. Past(L + i - offset) = o[L + i - offset]
          BY <4>1 DEF Past, o
        <4> QED
          BY <3>3, <3>4, <4>1, <4>2, <1>9
      <3>5. CASE ~(L + i > offset)
        BY <3>3, <3>5, <1>1 DEF Past
      <3> QED
        BY <3>4, <3>5
    <2>2. CASE ~(i <= offset)
      <3> DEFINE j == i - offset
      <3>1. j \in 1 .. n /\ i - 1 \in Nat /\ i - 1 >= offset /\ (i - 1) - offset = j - 1
            /\ L + i > offset /\ L + i - offset = L + j
        BY <2>2, <1>1
      <3>2. (i - 1) % offset = (j - 1) % offset
        <4>1. (i - 1) % offset = ((i - 1) - offset) % offset
          BY <3>1, Remainder
        <4> QED
          BY <4>1, <3>1
      <3>3. v(i) = v(j)
        BY <3>2 DEF v
      <3> HIDE DEF j
      <3>4. m[i] = m[j]
        BY <3>1, <3>3, <1>7
      <3> QED
        BY <3>1, <3>4, <1>9
    <2> QED
      BY <2>1, <2>2
  <1> QED
    BY <1>7, <1>10 DEF m, o2, o, L

LEMMA LiteralsAre ==
    ASSUME ring_out \in Seq(Int), NEW n \in Nat
    PROVE  Literals(n) \in Seq(Int) /\ Len(Literals(n)) = n
  <1>1. Len(ring_out) \in Nat
    OBVIOUS
  <1>2. Literals(n) \in [1 .. n -> Int]
    BY <1>1 DEF Literals
  <1> QED
    BY <1>2, SeqOfInt

-----------------------------------------------------------------------------
LEMMA RingStarts == RingInit => RingInv
  <1> SUFFICES ASSUME RingInit PROVE RingInv
    OBVIOUS
  <1>1. /\ ring = [cap |-> 0, head |-> 0, tail |-> 0, mem |-> [i \in 0 .. -1 |-> Old]]
        /\ ring_dict = 0 /\ ring_window = 0 /\ total = 0 /\ hash = <<>> /\ ring_out = <<>>
        /\ todo = [at |-> "idle", left |-> 0]
    BY DEF RingInit, NewRing, NoRepeat
  <1>2. ring.cap = 0 /\ ring.head = 0 /\ ring.tail = 0 /\ ring.mem = [i \in 0 .. -1 |-> Old]
    BY <1>1
  <1>3. ring.mem \in [0 .. ring.cap - 1 -> Int]
    <2>1. 0 .. ring.cap - 1 = 0 .. -1
      BY <1>2
    <2> QED
      BY <2>1, <1>2 DEF Old
  <1>4. GoodRing(ring)
    BY <1>1, <1>2, <1>3 DEF GoodRing, RingRecord, RingCursors
  <1>5. Length(ring) = 0
    BY <1>2 DEF Length, DataFirst, DataSecond
  <1>6. Holds(ring, hash, ring_out, 0)
    BY <1>1, <1>4, <1>5 DEF Holds
  <1>7. Len(ring_out) - todo.left = 0
    BY <1>1
  <1> QED
    BY <1>1, <1>6, <1>7 DEF RingInv

LEMMA ResetKeeps ==
    ASSUME RingInv, NEW w \in RingWindows, NEW d \in RingDicts, ResetBuffer(w, d)
    PROVE  RingInv'
  <1>1. /\ Idle /\ Fits(Clear(ring), w) /\ ring' = Reserve(Clear(ring), w)
        /\ ring_window' = w /\ ring_dict' = d /\ total' = 0 /\ hash' = <<>> /\ ring_out' = <<>> /\ todo' = todo
    BY DEF ResetBuffer
  <1>2. w \in Nat /\ d \in Nat
    BY RingConstants
  <1>3. GoodRing(ring) /\ todo = [at |-> "idle", left |-> 0]
    BY <1>1, IdleIs DEF Holds
  <1>4. GoodRing(Clear(ring)) /\ Length(Clear(ring)) = 0
    BY <1>3, ClearEmpties
  <1>5. Holds(Clear(ring), <<>>, <<>>, 0)
    BY <1>4 DEF Holds
  <1>6. Holds(ring', <<>>, <<>>, 0)
    BY <1>1, <1>2, <1>5, HoldsReserve
  <1>7. Holds(ring, hash, ring_out, Len(ring_out))'
    BY <1>1, <1>6
  <1> QED
    BY <1>1, <1>2, <1>3, <1>7, IdleStays

LEMMA ReserveBlockKeeps ==
    ASSUME RingInv, NEW n \in RingSizes, ReserveBlock(n)
    PROVE  RingInv'
  <1>1. /\ Idle /\ Fits(ring, n) /\ ring' = Reserve(ring, n)
        /\ UNCHANGED <<ring_dict, ring_window, total, hash, todo, ring_out>>
    BY DEF ReserveBlock
  <1>2. n \in Nat
    BY RingConstants
  <1>3. Holds(ring', hash, ring_out, Len(ring_out))
    BY <1>1, <1>2, IdleIs, HoldsReserve
  <1>4. Holds(ring, hash, ring_out, Len(ring_out))'
    BY <1>1, <1>3
  <1> QED
    BY <1>1, <1>4, IdleIs, IdleStays DEF RingInv

LEMMA PushKeeps ==
    ASSUME RingInv, NEW n \in RingSizes, PushLiterals(n)
    PROVE  RingInv'
  <1> DEFINE text == Literals(n)
  <1>1. /\ Idle /\ Fits(ring, n) /\ ring' = Extend(ring, text)
        /\ ring_out' = ring_out \o text /\ total' = total + n
        /\ UNCHANGED <<ring_dict, ring_window, hash, todo>>
    BY DEF PushLiterals, Grow
  <1>2. n \in Nat
    BY RingConstants
  <1>3. text \in Seq(Int) /\ Len(text) = n
    BY <1>1, <1>2, IdleIs, LiteralsAre
  <1> HIDE DEF text
  <1>4. /\ ring_out' \in Seq(Int) /\ Len(ring_out') = Len(ring_out) + n
        /\ \A i \in 1 .. Len(ring_out) : ring_out'[i] = ring_out[i]
        /\ \A i \in 1 .. n : ring_out'[Len(ring_out) + i] = text[i]
    BY <1>1, <1>3, IdleIs, Joined
  <1>5. Len(ring_out) \in Nat
    BY <1>1, IdleIs
  <1>6. Prefixed(ring_out, ring_out', Len(ring_out))
    <2>1. Len(ring_out) <= Len(ring_out) + n
      BY <1>2, <1>5
    <2> QED
      BY <2>1, <1>4 DEF Prefixed
  <1>7. Holds(ring, hash, ring_out', Len(ring_out))
    BY <1>1, <1>6, IdleIs, HoldsLonger
  <1>8. \A k \in Nat : k < Len(text) => ring_out'[Len(ring_out) + k + 1] = text[k + 1]
    <2> TAKE k \in Nat
    <2> HAVE k < Len(text)
    <2>1. k + 1 \in 1 .. n /\ Len(ring_out) + (k + 1) = Len(ring_out) + k + 1
      BY <1>2, <1>3, <1>5
    <2> QED
      BY <2>1, <1>4
  <1>9. Len(ring_out) + Len(text) <= Len(ring_out')
    BY <1>2, <1>3, <1>4, <1>5
  <1>10. Fits(ring, Len(text))
    BY <1>1, <1>3
  <1>11. Holds(ring', hash, ring_out', Len(ring_out) + Len(text))
    BY <1>1, <1>3, <1>7, <1>8, <1>9, <1>10, HoldsExtend
  <1>12. Holds(ring, hash, ring_out, Len(ring_out))'
    BY <1>1, <1>3, <1>4, <1>11
  <1>13. total' = Len(ring_out') /\ total' \in Nat /\ todo' = [at |-> "idle", left |-> 0]
    <2>1. total = Len(ring_out) /\ todo = [at |-> "idle", left |-> 0]
      BY <1>1, IdleIs
    <2> QED
      BY <2>1, <1>1, <1>2, <1>4, <1>5
  <1> QED
    BY <1>1, <1>12, <1>13, IdleStays DEF RingInv

LEMMA ReadShortKeeps ==
    ASSUME RingInv, NEW n \in RingSizes, ReadShort(n, n - 1)
    PROVE  RingInv'
  <1> DEFINE r == Reserve(ring, n)
             zeroed == IF n - 1 < FreeFirst(r) THEN MinOf(n, FreeFirst(r)) ELSE n
             text == [i \in 1 .. zeroed |-> IF i <= n - 1 THEN Len(ring_out) + i ELSE Old]
             m == Laid(r, text)
             e == [r EXCEPT !.mem = m]
  <1>1. /\ Idle /\ Fits(ring, n) /\ ring' = Forget(e)
        /\ UNCHANGED <<ring_dict, ring_window, total, hash, todo, ring_out>>
    BY DEF ReadShort
  <1>2. n \in Nat /\ n > 0
    BY RingConstants
  <1>3. GoodRing(ring) /\ Len(ring_out) \in Nat
    BY <1>1, IdleIs DEF Holds
  <1>4. GoodRing(r) /\ Free(r) >= n
    BY <1>1, <1>2, <1>3, ReserveKeeps
  <1>5. Holds(r, hash, ring_out, Len(ring_out))
    BY <1>1, <1>2, IdleIs, HoldsReserve
  <1> HIDE DEF r
  <1>6. FreeFirst(r) \in Int /\ Free(r) \in Nat
    BY <1>4, RingSizesAre DEF GoodRing, RingCursors, FreeFirst
  <1>7. zeroed \in Nat /\ zeroed <= n
    BY <1>2, <1>6 DEF MinOf
  <1> HIDE DEF zeroed
  <1>8. text \in [1 .. zeroed -> Int]
    BY <1>2, <1>3, <1>7 DEF Old
  <1>9. text \in Seq(Int) /\ Len(text) <= Free(r)
    <2>1. text \in Seq(Int) /\ Len(text) = zeroed
      BY <1>7, <1>8, SeqOfInt
    <2> QED
      BY <2>1, <1>2, <1>4, <1>6, <1>7
  <1> HIDE DEF text
  <1>10. m \in [0 .. r.cap - 1 -> Int]
         /\ \A i \in Nat : i < Length(r) => m[Spot(r, i)] = r.mem[Spot(r, i)]
    BY <1>4, <1>9, LaidIs
  <1> HIDE DEF m
  <1>11. e = [cap |-> r.cap, head |-> r.head, tail |-> r.tail, mem |-> m]
    BY <1>4, RingExcept DEF GoodRing
  <1> HIDE DEF e
  <1>12. e.cap = r.cap /\ e.head = r.head /\ e.tail = r.tail /\ e.mem = m
    BY <1>11
  <1>13. GoodRing(e)
    BY <1>4, <1>10, <1>11, <1>12 DEF GoodRing, RingRecord
  <1>14. Length(e) = Length(r)
    BY <1>12 DEF Length, DataFirst, DataSecond
  <1>15. ASSUME NEW i \in Nat, i < Length(r)
         PROVE  ByteAt(Forget(e), i) = ByteAt(r, i)
    <2>1. ByteAt(Forget(e), i) = ByteAt(e, i)
      BY <1>13, <1>14, <1>15, ForgetKeeps
    <2>2. ByteAt(e, i) = m[Spot(r, i)]
      BY <1>12 DEF ByteAt, Spot
    <2>3. ByteAt(r, i) = r.mem[Spot(r, i)]
      BY <1>4, <1>15, SpotsAre DEF GoodRing
    <2> QED
      BY <2>1, <2>2, <2>3, <1>10, <1>15
  <1>16. GoodRing(Forget(e)) /\ Length(Forget(e)) = Length(r)
    BY <1>13, <1>14, ForgetKeeps
  <1>17. Holds(Forget(e), hash, ring_out, Len(ring_out))
    BY <1>5, <1>15, <1>16 DEF Holds
  <1>18. Holds(ring, hash, ring_out, Len(ring_out))'
    BY <1>1, <1>17
  <1> QED
    BY <1>1, <1>18, IdleIs, IdleStays DEF RingInv

(* What a match adds to the output repeats the output, or the dictionary.    *)
GrownBy(o, o2, offset, n) ==
    /\ o2 \in Seq(Int) /\ Len(o2) = Len(o) + n /\ Prefixed(o, o2, Len(o))
    /\ \A p \in Len(o) + 1 .. Len(o2) : p > offset => o2[p] = o2[p - offset]
    /\ \A p \in Len(o) + 1 .. Len(o2) : p <= offset => o2[p] = p - offset - 1

LEMMA GrownByMatch ==
    ASSUME ring_out \in Seq(Int), NEW offset \in Nat, offset > 0, NEW n \in Nat
    PROVE  GrownBy(ring_out, ring_out \o Match(offset, n), offset, n)
  <1> DEFINE m == Match(offset, n)
             o2 == ring_out \o m
             L == Len(ring_out)
  <1>1. L \in Nat
    OBVIOUS
  <1>2. m \in Seq(Int) /\ Len(m) = n
    BY MatchIs
  <1>3. \A i \in 1 .. n : o2[L + i] = IF L + i > offset THEN o2[L + i - offset] ELSE L + i - offset - 1
    BY MatchIs
  <1> HIDE DEF m
  <1>4. o2 \in Seq(Int) /\ Len(o2) = L + Len(m) /\ \A i \in 1 .. L : o2[i] = ring_out[i]
    BY <1>2, Joined
  <1> HIDE DEF o2, L
  <1>5. Len(o2) = L + n
    BY <1>2, <1>4
  <1>6. ASSUME NEW p \in L + 1 .. Len(o2)
        PROVE  /\ p > offset => o2[p] = o2[p - offset]
               /\ p <= offset => o2[p] = p - offset - 1
    <2>1. PICK i \in 1 .. n : L + i = p
      <3>1. p - L \in 1 .. n /\ L + (p - L) = p
        BY <1>1, <1>5
      <3> QED
        BY <3>1
    <2>2. CASE p > offset
      <3>1. L + i > offset
        BY <2>1, <2>2
      <3>2. o2[L + i] = o2[L + i - offset]
        BY <1>3, <3>1
      <3> QED
        BY <2>1, <2>2, <3>2, <1>1
    <2>3. CASE p <= offset
      <3>1. ~(L + i > offset)
        BY <2>1, <2>3
      <3>2. o2[L + i] = L + i - offset - 1
        BY <1>3, <3>1
      <3>3. L + i - offset - 1 = p - offset - 1 /\ o2[L + i] = o2[p]
        BY <2>1, <1>1
      <3> QED
        BY <2>3, <3>2, <3>3
    <2>4. p > offset \/ p <= offset
      BY <1>1, <1>5
    <2> QED
      BY <2>2, <2>3, <2>4
  <1>7. L <= Len(o2)
    BY <1>1, <1>5
  <1>8. Prefixed(ring_out, o2, L)
    BY <1>4, <1>7 DEF Prefixed
  <1>9. GrownBy(ring_out, o2, offset, n)
    BY <1>4, <1>5, <1>6, <1>8 DEF GrownBy, L
  <1> QED
    BY <1>9 DEF o2, m

(* A repeat that begins: the output beyond upto is periodic.                 *)
LEMMA RepeatBegins ==
    ASSUME NEW o2, NEW r, NEW begin \in Nat, NEW offset \in Nat, offset > 0,
           NEW n \in Nat, n > 0, NEW sum \in Nat, sum + n = Len(o2),
           Length(r) = begin + offset, Free(r) >= n, Periodic(o2, sum, offset),
           NEW t, t = [at |-> "copy", start |-> begin, offset |-> offset, copied |-> 0, left |-> n, count |-> n]
    PROVE  Copying(t, r, o2, sum) /\ Len(o2) - t.left = sum
  <1>1. /\ t = [at |-> "copy", start |-> t.start, offset |-> t.offset, copied |-> t.copied,
                left |-> t.left, count |-> t.count]
        /\ t.start = begin /\ t.offset = offset /\ t.copied = 0 /\ t.left = n /\ t.count = n
    OBVIOUS
  <1>2. Len(o2) - t.left = sum
    BY <1>1
  <1>3. t.offset + t.copied = offset /\ Length(r) = t.start + t.offset + t.copied
    BY <1>1
  <1>4. Periodic(o2, Len(o2) - t.left, t.offset + t.copied)
    BY <1>2, <1>3
  <1> QED
    BY <1>1, <1>2, <1>3, <1>4 DEF Copying

LEMMA RepeatKeeps ==
    ASSUME RingInv, NEW n \in RingSizes, NEW offset \in RingOffsets, Repeat(offset, n)
    PROVE  RingInv'
  <1> DEFINE L == Len(ring_out)
             r == Reserve(ring, n)
  <1>1. /\ Idle /\ offset <= Length(ring) /\ Fits(ring, n)
        /\ ring_out' = ring_out \o Match(offset, n) /\ ring' = r
        /\ todo' = [at |-> "copy", start |-> Length(ring) - offset, offset |-> offset,
                    copied |-> 0, left |-> n, count |-> n]
        /\ UNCHANGED <<ring_dict, ring_window, total, hash>>
    BY DEF Repeat, Grow
  <1>2. n \in Nat /\ n > 0 /\ offset \in Nat /\ offset > 0
    BY RingConstants
  <1>3. /\ total = L /\ L \in Nat /\ ring_out \in Seq(Int) /\ Holds(ring, hash, ring_out, L)
        /\ ring_dict \in Nat /\ ring_window \in Nat
    BY <1>1, IdleIs DEF RingInv
  <1>4. /\ GoodRing(ring) /\ Length(ring) \in Nat /\ Length(ring) <= L
    <2>1. GoodRing(ring) /\ Length(ring) \in Nat /\ Len(hash) \in Nat /\ Length(ring) + Len(hash) = L
      BY <1>3, HoldsSizes
    <2> HIDE DEF L
    <2> QED
      BY <2>1
  <1>5. Length(r) = Length(ring) /\ Free(r) >= n
    BY <1>1, <1>2, <1>4, ReserveKeeps
  <1>6. Holds(r, hash, ring_out, L)
    BY <1>1, <1>2, <1>3, HoldsReserve
  <1> HIDE DEF r
  <1>7. /\ ring_out' \in Seq(Int) /\ Len(ring_out') = L + n /\ Prefixed(ring_out, ring_out', L)
        /\ \A p \in L + 1 .. Len(ring_out') : p > offset => ring_out'[p] = ring_out'[p - offset]
        /\ \A p \in L + 1 .. Len(ring_out') : p <= offset => ring_out'[p] = p - offset - 1
    <2>1. GrownBy(ring_out, ring_out \o Match(offset, n), offset, n)
      BY <1>1, <1>2, <1>3, GrownByMatch
    <2>2. GrownBy(ring_out, ring_out', offset, n)
      BY <2>1, <1>1
    <2> QED
      BY <2>2 DEF GrownBy
  <1>8. Holds(r, hash, ring_out', L)
    BY <1>6, <1>7, HoldsLonger
  <1> HIDE DEF L
  <1>9. Periodic(ring_out', L, offset)
    <2>1. \A p \in L + 1 .. Len(ring_out') : p > offset
      BY <1>1, <1>2, <1>3, <1>4, <1>7
    <2> QED
      BY <2>1, <1>7 DEF Periodic
  <1>10. Copying(todo', r, ring_out', L) /\ Len(ring_out') - todo'.left = L
    <2>1. Length(ring) - offset \in Nat /\ Length(r) = (Length(ring) - offset) + offset
      BY <1>1, <1>2, <1>4, <1>5
    <2>2. PICK begin \in Nat : begin = Length(ring) - offset
      BY <2>1
    <2>3. PICK o2, t : o2 = ring_out' /\ t = todo'
      OBVIOUS
    <2>4. L + n = Len(o2) /\ Periodic(o2, L, offset) /\ Length(r) = begin + offset
      BY <2>1, <2>2, <2>3, <1>7, <1>9
    <2>5. t = [at |-> "copy", start |-> begin, offset |-> offset, copied |-> 0, left |-> n, count |-> n]
      BY <2>2, <2>3, <1>1
    <2>6. Copying(t, r, o2, L) /\ Len(o2) - t.left = L
      BY <2>4, <2>5, <1>2, <1>3, <1>5, RepeatBegins
    <2> QED
      BY <2>3, <2>6
  <1>11. Holds(ring', hash', ring_out', Len(ring_out') - todo'.left)
    BY <1>1, <1>8, <1>10
  <1>12. Copying(todo', ring', ring_out', total')
    BY <1>1, <1>3, <1>10
  <1>13. ring_dict' \in Nat /\ ring_window' \in Nat /\ total' \in Nat
    BY <1>1, <1>3
  <1> QED
    BY <1>11, <1>12, <1>13 DEF RingInv

LEMMA DictSliceIs ==
    ASSUME ring_dict \in Nat, NEW d \in Nat, d <= ring_dict, NEW n \in Nat
    PROVE  /\ DictSlice(ring_dict - d, n) \in Seq(Int) /\ Len(DictSlice(ring_dict - d, n)) = n
           /\ \A i \in 1 .. n : DictSlice(ring_dict - d, n)[i] = i - 1 - d
  <1> DEFINE s == DictSlice(ring_dict - d, n)
  <1>1. s = [i \in 1 .. n |-> (ring_dict - d) + i - 1 - ring_dict]
    BY DEF DictSlice
  <1>2. \A i \in 1 .. n : (ring_dict - d) + i - 1 - ring_dict = i - 1 - d /\ i - 1 - d \in Int
    OBVIOUS
  <1> HIDE DEF s
  <1>3. s \in [1 .. n -> Int] /\ \A i \in 1 .. n : s[i] = i - 1 - d
    BY <1>1, <1>2
  <1> QED
    BY <1>3, SeqOfInt DEF s

LEMMA RepeatFromDictKeeps ==
    ASSUME RingInv, NEW n \in RingSizes, NEW offset \in RingOffsets, RepeatFromDict(offset, n)
    PROVE  RingInv'
  <1> DEFINE L == Len(ring_out)
             from == offset - Length(ring)
             r == Reserve(ring, n)
             took == MinOf(from, n)
             slice == DictSlice(ring_dict - from, took)
             x == Extend(r, slice)
             s == Reserve(x, n - took)
  <1>1. /\ Idle /\ offset > Length(ring) /\ Length(ring) = total /\ from <= ring_dict
        /\ Fits(ring, n) /\ Fits(r, took) /\ Fits(x, n - took)
        /\ ring_out' = ring_out \o Match(offset, n) /\ total' = total + took
        /\ UNCHANGED <<ring_dict, ring_window, hash>>
    BY DEF RepeatFromDict, Grow
  <1>2. IF took < n
        THEN /\ ring' = s
             /\ todo' = [at |-> "copy", start |-> 0, offset |-> Length(ring) + took,
                         copied |-> 0, left |-> n - took, count |-> n - took]
        ELSE ring' = x /\ todo' = todo
    BY DEF RepeatFromDict
  <1>3. n \in Nat /\ n > 0 /\ offset \in Nat /\ offset > 0
    BY RingConstants
  <1>4. /\ total = L /\ L \in Nat /\ ring_out \in Seq(Int) /\ Holds(ring, hash, ring_out, L)
        /\ ring_dict \in Nat /\ ring_window \in Nat /\ todo = [at |-> "idle", left |-> 0]
    BY <1>1, IdleIs DEF RingInv
  <1>5. GoodRing(ring) /\ Length(ring) = L
    BY <1>1, <1>4 DEF Holds
  <1>6. from \in Nat /\ from > 0 /\ from = offset - L
    BY <1>1, <1>3, <1>4, <1>5
  <1> HIDE DEF from
  <1>7. took \in Nat /\ took <= n /\ took <= from /\ (took < n => took = from)
    BY <1>3, <1>6 DEF MinOf
  <1> HIDE DEF took
  <1>8. slice \in Seq(Int) /\ Len(slice) = took /\ \A i \in 1 .. took : slice[i] = i - 1 - from
    BY <1>1, <1>4, <1>6, <1>7, DictSliceIs
  <1> HIDE DEF slice
  <1>9. Holds(r, hash, ring_out, L)
    BY <1>1, <1>3, <1>4, HoldsReserve
  <1> HIDE DEF r
  <1>10. /\ ring_out' \in Seq(Int) /\ Len(ring_out') = L + n /\ Prefixed(ring_out, ring_out', L)
         /\ \A p \in L + 1 .. Len(ring_out') : p > offset => ring_out'[p] = ring_out'[p - offset]
         /\ \A p \in L + 1 .. Len(ring_out') : p <= offset => ring_out'[p] = p - offset - 1
    <2>1. GrownBy(ring_out, ring_out \o Match(offset, n), offset, n)
      BY <1>1, <1>3, <1>4, GrownByMatch
    <2>2. GrownBy(ring_out, ring_out', offset, n)
      BY <2>1, <1>1
    <2> QED
      BY <2>2 DEF GrownBy
  <1>11. Holds(r, hash, ring_out', L)
    BY <1>9, <1>10, HoldsLonger
  <1> HIDE DEF L
  <1>12. Holds(x, hash, ring_out', L + took)
    <2>1. ASSUME NEW k \in Nat, k < took PROVE ring_out'[L + k + 1] = slice[k + 1]
      <3>1. /\ L + k + 1 \in L + 1 .. Len(ring_out') /\ L + k + 1 <= offset
            /\ L + k + 1 - offset - 1 = (k + 1) - 1 - from /\ k + 1 \in 1 .. took
        BY <2>1, <1>3, <1>4, <1>6, <1>7, <1>10
      <3>2. PICK p \in L + 1 .. Len(ring_out') : p = L + k + 1
        BY <3>1
      <3>3. p <= offset /\ ring_out'[p] = p - offset - 1
        BY <3>1, <3>2, <1>10
      <3>4. slice[k + 1] = (k + 1) - 1 - from
        BY <3>1, <1>8
      <3> QED
        BY <3>1, <3>2, <3>3, <3>4, <1>3, <1>4, <1>6
    <2>2. L + Len(slice) <= Len(ring_out') /\ Fits(r, Len(slice))
      BY <1>1, <1>3, <1>4, <1>7, <1>8, <1>10
    <2>3. Holds(x, hash, ring_out', L + Len(slice))
      BY <2>1, <2>2, <1>8, <1>11, HoldsExtend
    <2> QED
      BY <2>3, <1>8
  <1> HIDE DEF x
  <1>13. L + took \in Nat
    BY <1>4, <1>7
  <1>14. CASE took < n
    <2>1. /\ ring' = s
          /\ todo' = [at |-> "copy", start |-> 0, offset |-> Length(ring) + took,
                      copied |-> 0, left |-> n - took, count |-> n - took]
      BY <1>14, <1>2
    <2>2. n - took \in Nat /\ n - took > 0 /\ Length(ring) + took = offset
      BY <1>14, <1>3, <1>4, <1>5, <1>6, <1>7
    <2>3. Holds(s, hash, ring_out', L + took)
      BY <2>2, <1>1, <1>12, HoldsReserve
    <2>4. Length(s) = Length(x) /\ Free(s) >= n - took
      BY <2>2, <1>1, <1>12, ReserveKeeps DEF Holds
    <2> HIDE DEF s
    <2>5. Length(s) = 0 + offset
      <3>1. hash \in Seq(Int) /\ Length(ring) + Len(hash) = L /\ Length(x) + Len(hash) = L + took
        BY <1>4, <1>12 DEF Holds
      <3>2. Len(hash) = 0
        <4>1. Len(hash) \in Nat
          BY <3>1
        <4> QED
          BY <4>1, <3>1, <1>4, <1>5
      <3>3. GoodRing(x)
        BY <1>12 DEF Holds
      <3>4. Length(x) \in Nat
        BY <3>3, RingSizesAre DEF GoodRing
      <3> QED
        BY <3>1, <3>2, <3>4, <2>2, <2>4, <1>4, <1>5, <1>7, <1>3
    <2>6. Periodic(ring_out', L + took, offset)
      <3>1. \A p \in (L + took) + 1 .. Len(ring_out') : p \in L + 1 .. Len(ring_out') /\ p > offset
        BY <1>3, <1>4, <1>6, <1>7, <1>10, <1>14
      <3> QED
        BY <3>1, <1>10 DEF Periodic
    <2>7. Copying(todo', s, ring_out', L + took) /\ Len(ring_out') - todo'.left = L + took
      <3>1. PICK o2, t : o2 = ring_out' /\ t = todo'
        OBVIOUS
      <3>2. PICK k \in Nat, sum \in Nat : k = n - took /\ sum = L + took
        BY <2>2, <1>13
      <3>3. k > 0 /\ sum + k = Len(o2) /\ Periodic(o2, sum, offset)
        BY <3>1, <3>2, <2>2, <2>6, <1>3, <1>4, <1>7, <1>10
      <3>4. t = [at |-> "copy", start |-> 0, offset |-> offset, copied |-> 0, left |-> k, count |-> k]
        BY <3>1, <3>2, <2>1, <2>2
      <3>5. Free(s) >= k /\ Length(s) = 0 + offset
        BY <3>2, <2>4, <2>5
      <3>6. Copying(t, s, o2, sum) /\ Len(o2) - t.left = sum
        BY <3>3, <3>4, <3>5, <1>3, RepeatBegins
      <3> QED
        BY <3>1, <3>2, <3>6
    <2>8. Holds(ring', hash', ring_out', Len(ring_out') - todo'.left)
      BY <2>1, <2>3, <2>7, <1>1
    <2>9. Copying(todo', ring', ring_out', total')
      BY <2>1, <2>7, <1>1, <1>4
    <2>10. ring_dict' \in Nat /\ ring_window' \in Nat /\ total' \in Nat
      BY <1>1, <1>4, <1>13
    <2> QED
      BY <2>8, <2>9, <2>10 DEF RingInv
  <1>15. CASE ~(took < n)
    <2>1. took = n /\ ring' = x /\ todo' = todo
      BY <1>2, <1>3, <1>7, <1>15
    <2>2. Holds(ring, hash, ring_out, Len(ring_out))'
      BY <2>1, <1>1, <1>10, <1>12
    <2>3. ring_dict' \in Nat /\ ring_window' \in Nat /\ total' \in Nat /\ total' = Len(ring_out')
      BY <2>1, <1>1, <1>4, <1>10, <1>13
    <2> QED
      BY <2>1, <2>2, <2>3, <1>4, IdleStays
  <1> QED
    BY <1>14, <1>15

LEMMA CopyChunkKeeps ==
    ASSUME RingInv, CopyChunk
    PROVE  RingInv'
  <1>1. Copying(todo, ring, ring_out, total)
    BY DEF RingInv, CopyChunk
  <1>2. PICK b \in Nat, f \in Nat, c \in Nat, l \in Nat, q \in Nat :
            todo = [at |-> "copy", start |-> b, offset |-> f, copied |-> c, left |-> l, count |-> q]
    BY <1>1 DEF Copying
  <1>3. todo.start = b /\ todo.offset = f /\ todo.copied = c /\ todo.left = l /\ todo.count = q
    BY <1>2
  <1> DEFINE n == MinOf(f + c, l)
             L == Len(ring_out)
             span == f + c
             e == Advance(ring, n, Within(ring, b, n))
  <1>4. Chunk = n
    BY <1>3 DEF Chunk
  <1>5. /\ ring' = e
        /\ IF l = n
           THEN todo' = [at |-> "idle", left |-> 0] /\ total' = total + q
           ELSE todo' = [todo EXCEPT !.copied = @ + n, !.left = @ - n] /\ total' = total
        /\ UNCHANGED <<ring_dict, ring_window, hash, ring_out>>
    BY <1>3, <1>4 DEF CopyChunk, NoRepeat
  <1>6. /\ l > 0 /\ span > 0 /\ total + q = L /\ Length(ring) = b + f + c /\ Free(ring) >= l
        /\ Periodic(ring_out, L - l, span)
    BY <1>1, <1>3 DEF Copying
  <1>7. n \in Nat /\ n > 0 /\ n <= span /\ n <= l /\ (n # l => n = span)
    BY <1>6 DEF MinOf
  <1>8. Holds(ring, hash, ring_out, L - l) /\ ring_dict \in Nat /\ ring_window \in Nat /\ total \in Nat
    BY <1>3 DEF RingInv
  <1>9. PICK upto \in Nat : upto = L - l
    BY <1>8 DEF Holds
  <1>10. Holds(ring, hash, ring_out, upto) /\ Periodic(ring_out, upto, span)
    BY <1>6, <1>8, <1>9
  <1> HIDE DEF n
  <1>11. /\ ring_out \in Seq(Int) /\ L \in Nat /\ Len(hash) \in Nat
         /\ Length(ring) + Len(hash) = upto /\ Length(ring) \in Nat /\ Free(ring) \in Nat
    <2>1. ring_out \in Seq(Int)
      BY <1>10 DEF Holds
    <2>2. L \in Nat
      BY <2>1
    <2> QED
      BY <2>1, <2>2, <1>10, HoldsSizes
  <1>12. PICK h \in Nat : h = Len(hash)
    BY <1>11
  <1> HIDE DEF L, e
  <1>13. /\ upto + n <= L /\ b + n <= Length(ring) /\ n <= Free(ring)
         /\ b + span + h = upto /\ upto + l = L
    BY <1>6, <1>7, <1>9, <1>11, <1>12
  <1>14. Repeated(ring_out, upto, h + b, n)
    <2> SUFFICES ASSUME NEW k \in Nat, k < n
                 PROVE  ring_out[upto + k + 1] = ring_out[h + b + k + 1]
      BY DEF Repeated
    <2>1. upto + k + 1 \in upto + 1 .. L /\ (upto + k + 1) - span = h + b + k + 1
      BY <1>7, <1>11, <1>13
    <2>2. L = Len(ring_out)
      BY DEF L
    <2> HIDE DEF span
    <2> QED
      BY <2>1, <2>2, <1>10 DEF Periodic
  <1>15. Holds(e, hash, ring_out, upto + n)
         /\ Length(e) = Length(ring) + n /\ Free(e) = Free(ring) - n
    <2>1. upto + n <= Len(ring_out) /\ Repeated(ring_out, upto, Len(hash) + b, n)
      BY <1>12, <1>13, <1>14 DEF L
    <2> QED
      BY <2>1, <1>7, <1>10, <1>13, HoldsCopy DEF e
  <1>16. CASE l = n
    <2>1. upto + n = L
      BY <1>13, <1>16
    <2>2. Holds(ring, hash, ring_out, Len(ring_out))'
      BY <2>1, <1>5, <1>15 DEF L
    <2>3. total' = L /\ total' \in Nat
      BY <1>5, <1>6, <1>11, <1>16
    <2>4. todo' = [at |-> "idle", left |-> 0]
      BY <1>5, <1>16
    <2>5. ring_dict' \in Nat /\ ring_window' \in Nat /\ total' = Len(ring_out')
      BY <2>3, <1>5, <1>8 DEF L
    <2> QED
      BY <2>2, <2>3, <2>4, <2>5, IdleStays
  <1>17. CASE l # n
    <2>1. PICK c2 \in Nat, l2 \in Nat : c2 = c + n /\ l2 = l - n
      BY <1>7
    <2>2. todo' = [at |-> "copy", start |-> b, offset |-> f, copied |-> c2, left |-> l2, count |-> q]
      <3>1. todo' = [[todo EXCEPT !.copied = c2] EXCEPT !.left = l2]
        BY <1>2, <1>5, <1>17, <2>1
      <3>2. [todo EXCEPT !.copied = c2]
            = [at |-> "copy", start |-> b, offset |-> f, copied |-> c2, left |-> l, count |-> q]
        BY <1>2
      <3>3. [[at |-> "copy", start |-> b, offset |-> f, copied |-> c2, left |-> l, count |-> q] EXCEPT !.left = l2]
            = [at |-> "copy", start |-> b, offset |-> f, copied |-> c2, left |-> l2, count |-> q]
        OBVIOUS
      <3> QED
        BY <3>1, <3>2, <3>3
    <2>3. /\ n = span /\ l2 > 0 /\ f + c2 = span + span /\ Length(e) = b + f + c2
          /\ Free(e) >= l2 /\ L - l2 = upto + span /\ f + c2 > 0
      BY <2>1, <1>6, <1>7, <1>11, <1>13, <1>15, <1>17
    <2>4. todo'.start = b /\ todo'.offset = f /\ todo'.copied = c2 /\ todo'.left = l2 /\ todo'.count = q
      BY <2>2
    <2>5. Periodic(ring_out, upto + span, span + span)
      <3> SUFFICES ASSUME NEW p \in (upto + span) + 1 .. Len(ring_out)
                   PROVE  ring_out[p] = ring_out[p - (span + span)]
        BY DEF Periodic
      <3>1. PICK s \in Nat : s = span
        OBVIOUS
      <3> HIDE DEF span
      <3>2. Len(ring_out) \in Nat
        BY <1>11
      <3>3. s > 0 /\ s <= L - upto
        BY <3>1, <2>3, <1>6, <1>7, <1>13, <1>11
      <3>4. /\ p \in upto + 1 .. Len(ring_out) /\ p - s \in upto + 1 .. Len(ring_out)
            /\ (p - s) - s = p - (s + s)
        BY <3>1, <3>2, <3>3
      <3>5. ring_out[p] = ring_out[p - s] /\ ring_out[p - s] = ring_out[(p - s) - s]
        BY <3>1, <3>4, <1>10 DEF Periodic
      <3> QED
        BY <3>1, <3>4, <3>5
    <2>6. Periodic(ring_out, Len(ring_out) - l2, f + c2)
      BY <2>3, <2>5 DEF L
    <2>7. Copying(todo', e, ring_out, total)
      BY <2>2, <2>3, <2>4, <2>6, <1>6 DEF Copying, L
    <2>8. ring' = e /\ ring_out' = ring_out /\ total' = total /\ hash' = hash
      BY <1>5, <1>17
    <2>9. Copying(todo', ring', ring_out', total')
      BY <2>7, <2>8
    <2>10. Holds(ring', hash', ring_out', Len(ring_out') - todo'.left)
      BY <2>3, <2>4, <2>8, <1>15 DEF L
    <2> QED
      BY <2>8, <2>9, <2>10, <1>5, <1>8 DEF RingInv
  <1> QED
    BY <1>16, <1>17

(* What a drain writes is hashed and dropped.                                *)
LEMMA DropKeeps ==
    ASSUME RingInv, Idle, NEW n1 \in Nat, NEW n2 \in Nat,
           n1 <= DataFirst(ring), n2 <= DataSecond(ring), n2 > 0 => n1 = DataFirst(ring),
           HashSlices(n1, n2), Dropped(ring, ring', n1 + n2),
           UNCHANGED <<ring_dict, ring_window, total, todo, ring_out>>
    PROVE  RingInv'
  <1>1. GoodRing(ring) /\ hash \in Seq(Int) /\ Holds(ring, hash, ring_out, Len(ring_out))
    BY IdleIs DEF Holds
  <1>2. PICK h2 : h2 = hash \o [i \in 1 .. n1 |-> ring.mem[ring.head + i - 1]] \o [i \in 1 .. n2 |-> ring.mem[i - 1]]
    OBVIOUS
  <1>3. n1 + n2 \in Nat /\ n1 + n2 <= Length(ring) /\ Hashed(ring, hash, h2, n1 + n2)
    BY <1>1, <1>2, SlicesAre
  <1>4. hash' = h2
    BY <1>2 DEF HashSlices
  <1>5. PICK s : s = ring'
    OBVIOUS
  <1>6. Dropped(ring, s, n1 + n2)
    BY <1>5
  <1>7. Holds(s, h2, ring_out, Len(ring_out))
    BY <1>1, <1>3, <1>6, HoldsDrop
  <1>8. Holds(ring, hash, ring_out, Len(ring_out))'
    BY <1>4, <1>5, <1>7
  <1> QED
    BY <1>8, IdleIs, IdleStays DEF RingInv

LEMMA DrainToKeeps ==
    ASSUME RingInv, NEW amount \in {Length(ring), MaxOf(Length(ring) - ring_window, 0)},
           NEW accepted \in {1, amount}, DrainTo(amount, accepted)
    PROVE  RingInv'
  <1> DEFINE w == Written(amount, accepted)
             n1 == MinOf(DataFirst(ring), amount)
             n2 == MinOf(DataSecond(ring), amount - n1)
  <1>1. /\ Idle /\ amount > 0 /\ HashSlices(w[1], w[2])
        /\ ring' = DropFirst(ring, w[1] + w[2])
        /\ UNCHANGED <<ring_dict, ring_window, total, todo, ring_out>>
    BY DEF DrainTo
  <1>2. GoodRing(ring) /\ ring_window \in Nat
    BY <1>1, IdleIs DEF RingInv, Holds
  <1>3. /\ Length(ring) \in Nat /\ DataFirst(ring) \in Nat /\ DataSecond(ring) \in Nat
        /\ Length(ring) = DataFirst(ring) + DataSecond(ring)
    BY <1>2, RingSizesAre DEF GoodRing
  <1>4. amount \in Nat /\ accepted \in Nat
    BY <1>2, <1>3 DEF MaxOf
  <1>5. n1 \in Nat /\ n1 <= DataFirst(ring) /\ n1 <= amount
        /\ (n1 < amount => n1 = DataFirst(ring))
    BY <1>3, <1>4 DEF MinOf
  <1> HIDE DEF n1
  <1>6. n2 \in Nat /\ n2 <= DataSecond(ring) /\ (n2 > 0 => n1 < amount)
    BY <1>3, <1>4, <1>5 DEF MinOf
  <1> HIDE DEF n2
  <1>7. w = IF n1 # 0 /\ accepted >= n1 THEN <<n1, MinOf(n2, accepted - n1)>>
            ELSE <<MinOf(n1, accepted), 0>>
    BY DEF Written, n1, n2
  <1>8. PICK a \in Nat, b \in Nat : /\ w[1] = a /\ w[2] = b
                                    /\ a <= DataFirst(ring) /\ b <= DataSecond(ring)
                                    /\ (b > 0 => a = DataFirst(ring))
    <2>1. CASE n1 # 0 /\ accepted >= n1
      <3> DEFINE b == MinOf(n2, accepted - n1)
      <3>1. w[1] = n1 /\ w[2] = b
        BY <2>1, <1>7
      <3>2. b \in Nat /\ b <= n2
        BY <2>1, <1>4, <1>5, <1>6 DEF MinOf
      <3> HIDE DEF b
      <3> QED
        BY <3>1, <3>2, <1>3, <1>5, <1>6
    <2>2. CASE ~(n1 # 0 /\ accepted >= n1)
      <3> DEFINE a == MinOf(n1, accepted)
      <3>1. w[1] = a /\ w[2] = 0
        BY <2>2, <1>7
      <3>2. a \in Nat /\ a <= n1
        BY <1>4, <1>5 DEF MinOf
      <3> HIDE DEF a
      <3> QED
        BY <3>1, <3>2, <1>3, <1>5
    <2> QED
      BY <2>1, <2>2
  <1> HIDE DEF w
  <1>9. a + b \in Nat /\ a + b <= Length(ring) /\ ring' = DropFirst(ring, a + b)
    BY <1>1, <1>3, <1>8
  <1>10. Dropped(ring, ring', a + b)
    BY <1>2, <1>9, DropFirstIs DEF Dropped
  <1>11. HashSlices(a, b)
    BY <1>1, <1>8
  <1> QED
    BY <1>1, <1>8, <1>10, <1>11, DropKeeps

LEMMA DrainKeeps ==
    ASSUME RingInv, Drain
    PROVE  RingInv'
  <1>1. /\ Idle /\ HashSlices(DataFirst(ring), DataSecond(ring))
        /\ ring' = Clear(ring)
        /\ UNCHANGED <<ring_dict, ring_window, total, todo, ring_out>>
    BY DEF Drain
  <1>2. GoodRing(ring)
    BY <1>1, IdleIs DEF Holds
  <1>3. /\ Length(ring) \in Nat /\ DataFirst(ring) \in Nat /\ DataSecond(ring) \in Nat
        /\ Length(ring) = DataFirst(ring) + DataSecond(ring)
    BY <1>2, RingSizesAre DEF GoodRing
  <1>4. GoodRing(ring') /\ Length(ring') = 0
    BY <1>1, <1>2, ClearEmpties
  <1> DEFINE a == DataFirst(ring)
             b == DataSecond(ring)
  <1>5. /\ a \in Nat /\ b \in Nat /\ a <= DataFirst(ring) /\ b <= DataSecond(ring)
        /\ b > 0 => a = DataFirst(ring)
        /\ Length(ring') = Length(ring) - (a + b) /\ Length(ring) - (a + b) = 0
        /\ HashSlices(a, b)
    BY <1>1, <1>3, <1>4
  <1>6. Dropped(ring, ring', a + b)
    BY <1>4, <1>5 DEF Dropped
  <1> HIDE DEF a, b
  <1> QED
    BY <1>1, <1>5, <1>6, DropKeeps

LEMMA RingSteps == RingInv /\ RingNext => RingInv'
  <1> SUFFICES ASSUME RingInv, RingNext PROVE RingInv'
    OBVIOUS
  <1>1. ASSUME NEW w \in RingWindows, NEW d \in RingDicts, ResetBuffer(w, d) PROVE RingInv'
    BY <1>1, ResetKeeps
  <1>2. ASSUME NEW n \in RingSizes, ReserveBlock(n) PROVE RingInv'
    BY <1>2, ReserveBlockKeeps
  <1>3. ASSUME NEW n \in RingSizes, PushLiterals(n) PROVE RingInv'
    BY <1>3, PushKeeps
  <1>4. ASSUME NEW n \in RingSizes, ReadShort(n, n - 1) PROVE RingInv'
    BY <1>4, ReadShortKeeps
  <1>5. ASSUME NEW n \in RingSizes, NEW offset \in RingOffsets, Repeat(offset, n) PROVE RingInv'
    BY <1>5, RepeatKeeps
  <1>6. ASSUME NEW n \in RingSizes, NEW offset \in RingOffsets, RepeatFromDict(offset, n) PROVE RingInv'
    BY <1>6, RepeatFromDictKeeps
  <1>7. ASSUME CopyChunk PROVE RingInv'
    BY <1>7, CopyChunkKeeps
  <1>8. ASSUME NEW amount \in {Length(ring), MaxOf(Length(ring) - ring_window, 0)},
               NEW accepted \in {1, amount}, DrainTo(amount, accepted)
        PROVE  RingInv'
    BY <1>8, DrainToKeeps
  <1>9. ASSUME Drain PROVE RingInv'
    BY <1>9, DrainKeeps
  <1> QED
    BY <1>1, <1>2, <1>3, <1>4, <1>5, <1>6, <1>7, <1>8, <1>9 DEF RingNext

LEMMA RingUnchanged == RingInv /\ UNCHANGED ringVars => RingInv'
  BY DEF RingInv, ringVars

LEMMA RingSafe == RingInv => ServesOutput /\ CursorsInBounds
  <1> SUFFICES ASSUME RingInv PROVE ServesOutput /\ CursorsInBounds
    OBVIOUS
  <1> DEFINE upto == Len(ring_out) - todo.left
             gone == upto - Length(ring)
  <1>1. Holds(ring, hash, ring_out, upto)
    BY DEF RingInv
  <1>2. /\ GoodRing(ring) /\ hash \in Seq(Int) /\ upto \in Nat /\ Length(ring) + Len(hash) = upto
        /\ \A i \in 1 .. Len(hash) : hash[i] = ring_out[i]
        /\ \A k \in Nat : k < Length(ring) => ByteAt(ring, k) = ring_out[Len(hash) + k + 1]
    BY <1>1 DEF Holds
  <1>3. Length(ring) \in Nat
    BY <1>2, RingSizesAre DEF GoodRing
  <1>4. Len(hash) \in Nat
    BY <1>2
  <1> HIDE DEF upto
  <1>5. gone = Len(hash)
    BY <1>2, <1>3, <1>4
  <1> HIDE DEF gone
  <1>6. ASSUME NEW i \in 1 .. Length(ring) PROVE ByteAt(ring, i - 1) = ring_out[gone + i]
    <2>1. i - 1 \in Nat /\ i - 1 < Length(ring) /\ Len(hash) + (i - 1) + 1 = gone + i
      BY <1>3, <1>4, <1>5
    <2> QED
      BY <2>1, <1>2
  <1>7. Idle => total = Len(ring_out)
    BY IdleIs
  <1>8. ServesOutput
    BY <1>2, <1>5, <1>6, <1>7 DEF ServesOutput, gone, upto
  <1>9. RingOK(ring)
    BY <1>2 DEF RingOK, GoodRing, RingCursors
  <1>10. todo.at = "copy" => /\ Length(ring) = todo.start + todo.offset + todo.copied
                             /\ Free(ring) >= todo.left
    BY DEF RingInv, Copying
  <1> QED
    BY <1>8, <1>9, <1>10 DEF CursorsInBounds

-----------------------------------------------------------------------------
(* The ring's invariant, along its steps.                                    *)
THEOREM RingInvariant == RingSpec => []RingInv
  <1>1. RingInv /\ [RingNext]_ringVars => RingInv'
    BY RingSteps, RingUnchanged
  <1> QED
    BY <1>1, RingStarts, PTL DEF RingSpec

(* However the ring wraps, grows, repeats itself or the dictionary, is        *)
(* drained in part or left half filled: it holds the end of what is made of   *)
(* the output, and the checksum has absorbed the rest.                       *)
THEOREM OutputServed == RingSpec => []ServesOutput
  BY RingInvariant, RingSafe, PTL

(* The cursors stay inside the allocation, and a repeat under way has the    *)
(* source and the room it was promised.                                     *)
THEOREM RingBounded == RingSpec => []CursorsInBounds
  BY RingInvariant, RingSafe, PTL

-----------------------------------------------------------------------------
(* CStream: the C API's compression context.                                 *)
(* The C API's compression context.  What is in the slots is what was asked  *)
(* for, and a prefix is marked as one.                                      *)
SlotsAsAsked ==
    /\ level = cstream_asked.level /\ cstream_dict = cstream_asked.dict
    /\ cdict = cstream_asked.cdict
    /\ cstream_asked = [level |-> level, dict |-> cstream_dict,
                        kind |-> cstream_asked.kind, cdict |-> cdict]
    /\ cstream_asked.kind = "prefix" => once
    /\ once => cstream_asked.kind = "prefix" \/ cstream_dict = None

LastAsAsked ==
    IF last.asked.cdict # None
    THEN last.dict = last.asked.cdict /\ last.level = -1
    ELSE last.dict = last.asked.dict /\ last.level = last.asked.level

(* A frame that is closed has the pledge's bytes and takes no more, and one   *)
(* that is finished has handed its output over.                             *)
ClosedWhole ==
    /\ mode \in {"Continue", "Flush", "End"}
    /\ frame_closed => open /\ cstream_pc # "write" /\ cstream_pledge \in {Unknown, fed}
    /\ cstream_pc = "deliver" /\ mode = "End" => frame_closed
    /\ finished => frame_closed /\ cstream_out = 0 /\ cstream_pc \in {"idle", "begin"}
    /\ cstream_pc \notin {"idle", "begin"} => open

CStreamInv == SlotsAsAsked /\ LastAsAsked /\ ClosedWhole

LEMMA CStreamStarts == CStreamInit => CStreamInv
  BY DEF CStreamInit, CStreamInv, SlotsAsAsked, LastAsAsked, ClosedWhole, None

LEMMA CStreamSteps == CStreamInv /\ CStreamNext => CStreamInv'
  <1> SUFFICES ASSUME CStreamInv, CStreamNext PROVE CStreamInv'
    OBVIOUS
  <1> USE DEF CStreamInv, context, streamState, Sets, MidFrame,
              Answer
  <1>1. CASE SetLevel
    <2>1. SlotsAsAsked'
      BY <1>1 DEF SetLevel, SlotsAsAsked
    <2>2. LastAsAsked'
      BY <1>1 DEF SetLevel, SlotsAsAsked, LastAsAsked
    <2>3. ClosedWhole'
      BY <1>1 DEF SetLevel, ClosedWhole
    <2> QED
      BY <2>1, <2>2, <2>3
  <1>2. CASE load_dictionary
    <2>1. SlotsAsAsked'
      BY <1>2 DEF load_dictionary, SlotsAsAsked
    <2>2. LastAsAsked'
      BY <1>2 DEF load_dictionary, SlotsAsAsked, LastAsAsked
    <2>3. ClosedWhole'
      BY <1>2 DEF load_dictionary, ClosedWhole
    <2> QED
      BY <2>1, <2>2, <2>3
  <1>3. CASE ref_prefix
    <2>1. SlotsAsAsked'
      BY <1>3 DEF ref_prefix, SlotsAsAsked
    <2>2. LastAsAsked'
      BY <1>3 DEF ref_prefix, SlotsAsAsked, LastAsAsked
    <2>3. ClosedWhole'
      BY <1>3 DEF ref_prefix, ClosedWhole
    <2> QED
      BY <2>1, <2>2, <2>3
  <1>4. CASE ref_cdict
    <2>1. SlotsAsAsked'
      BY <1>4 DEF ref_cdict, SlotsAsAsked
    <2>2. LastAsAsked'
      BY <1>4 DEF ref_cdict, SlotsAsAsked, LastAsAsked
    <2>3. ClosedWhole'
      BY <1>4 DEF ref_cdict, ClosedWhole
    <2> QED
      BY <2>1, <2>2, <2>3
  <1>5. CASE reset_session
    <2>1. SlotsAsAsked'
      BY <1>5 DEF reset_session, SlotsAsAsked
    <2>2. LastAsAsked'
      BY <1>5 DEF reset_session, SlotsAsAsked, LastAsAsked
    <2>3. ClosedWhole'
      BY <1>5 DEF reset_session, ClosedWhole
    <2> QED
      BY <2>1, <2>2, <2>3
  <1>6. CASE reset_parameters
    <2>1. SlotsAsAsked'
      BY <1>6 DEF reset_parameters, SlotsAsAsked
    <2>2. LastAsAsked'
      BY <1>6 DEF reset_parameters, SlotsAsAsked, LastAsAsked
    <2>3. ClosedWhole'
      BY <1>6 DEF reset_parameters, ClosedWhole
    <2> QED
      BY <2>1, <2>2, <2>3
  <1>7. CASE init_stream
    <2>1. SlotsAsAsked'
      BY <1>7 DEF init_stream, SlotsAsAsked
    <2>2. LastAsAsked'
      BY <1>7 DEF init_stream, SlotsAsAsked, LastAsAsked
    <2>3. ClosedWhole'
      BY <1>7 DEF init_stream, ClosedWhole
    <2> QED
      BY <2>1, <2>2, <2>3
  <1>8. CASE Retire
    <2>1. SlotsAsAsked'
      BY <1>8 DEF Retire, SlotsAsAsked
    <2>2. LastAsAsked'
      BY <1>8 DEF Retire, SlotsAsAsked, LastAsAsked
    <2>3. ClosedWhole'
      BY <1>8 DEF Retire, ClosedWhole
    <2> QED
      BY <2>1, <2>2, <2>3
  <1>9. CASE Poll
    <2>1. SlotsAsAsked'
      BY <1>9 DEF Poll, SlotsAsAsked
    <2>2. LastAsAsked'
      BY <1>9 DEF Poll, SlotsAsAsked, LastAsAsked
    <2>3. ClosedWhole'
      BY <1>9 DEF Poll, ClosedWhole
    <2> QED
      BY <2>1, <2>2, <2>3
  <1>10. CASE OpenFrame
    <2>1. SlotsAsAsked'
      BY <1>10 DEF OpenFrame, frame_opened, None, SlotsAsAsked
    <2>2. LastAsAsked'
      BY <1>10 DEF OpenFrame, frame_opened, None, SlotsAsAsked, LastAsAsked
    <2>3. ClosedWhole'
      BY <1>10 DEF OpenFrame, frame_opened, None, ClosedWhole
    <2> QED
      BY <2>1, <2>2, <2>3
  <1>11. CASE Resume
    <2>1. SlotsAsAsked'
      BY <1>11 DEF Resume, SlotsAsAsked
    <2>2. LastAsAsked'
      BY <1>11 DEF Resume, SlotsAsAsked, LastAsAsked
    <2>3. ClosedWhole'
      BY <1>11 DEF Resume, ClosedWhole
    <2> QED
      BY <2>1, <2>2, <2>3
  <1>12. CASE Feed
    <2>1. SlotsAsAsked'
      BY <1>12 DEF Feed, Deliver, LoopOver, SlotsAsAsked
    <2>2. LastAsAsked'
      BY <1>12 DEF Feed, Deliver, LoopOver, SlotsAsAsked, LastAsAsked
    <2>3. ClosedWhole'
      BY <1>12 DEF Feed, Deliver, LoopOver, ClosedWhole
    <2> QED
      BY <2>1, <2>2, <2>3
  <1>13. CASE Write
    <2>1. SlotsAsAsked'
      BY <1>13 DEF Write, Take, Smaller, SlotsAsAsked
    <2>2. LastAsAsked'
      BY <1>13 DEF Write, Take, Smaller, SlotsAsAsked, LastAsAsked
    <2>3. ClosedWhole'
      BY <1>13 DEF Write, Take, Smaller, ClosedWhole
    <2> QED
      BY <2>1, <2>2, <2>3
  <1>14. CASE Close
    <2>1. SlotsAsAsked'
      BY <1>14 DEF Close, SlotsAsAsked
    <2>2. LastAsAsked'
      BY <1>14 DEF Close, SlotsAsAsked, LastAsAsked
    <2>3. ClosedWhole'
      BY <1>14 DEF Close, ClosedWhole
    <2> QED
      BY <2>1, <2>2, <2>3
  <1>15. CASE DeliverLast
    <2>1. SlotsAsAsked'
      BY <1>15 DEF DeliverLast, Deliver, LoopOver, SlotsAsAsked
    <2>2. LastAsAsked'
      BY <1>15 DEF DeliverLast, Deliver, LoopOver, SlotsAsAsked, LastAsAsked
    <2>3. ClosedWhole'
      BY <1>15 DEF DeliverLast, Deliver, LoopOver, ClosedWhole
    <2> QED
      BY <2>1, <2>2, <2>3
  <1>16. ASSUME NEW n \in {1, 2}, set_pledged(n) PROVE CStreamInv'
    <2>1. SlotsAsAsked'
      BY <1>16 DEF set_pledged, SlotsAsAsked
    <2>2. LastAsAsked'
      BY <1>16 DEF set_pledged, SlotsAsAsked, LastAsAsked
    <2>3. ClosedWhole'
      BY <1>16 DEF set_pledged, ClosedWhole
    <2> QED
      BY <2>1, <2>2, <2>3
  <1>17. ASSUME NEW n \in CInputs, NEW r \in CRooms, NEW m \in {"Continue", "Flush", "End"},
                Call(n, r, m)
         PROVE  CStreamInv'
    <2>1. SlotsAsAsked'
      BY <1>17 DEF Call, SlotsAsAsked
    <2>2. LastAsAsked'
      BY <1>17 DEF Call, SlotsAsAsked, LastAsAsked
    <2>3. ClosedWhole'
      BY <1>17 DEF Call, ClosedWhole
    <2> QED
      BY <2>1, <2>2, <2>3
  <1> QED
    BY <1>1, <1>2, <1>3, <1>4, <1>5, <1>6, <1>7, <1>8, <1>9, <1>10, <1>11, <1>12, <1>13, <1>14, <1>15, <1>16, <1>17 DEF CStreamNext

LEMMA CStreamUnchanged == CStreamInv /\ UNCHANGED cstreamVars => CStreamInv'
  BY DEF CStreamInv, SlotsAsAsked, LastAsAsked, ClosedWhole, cstreamVars

(* What the invariant says is what the frame and its call see.               *)
LEMMA CStreamSafe == CStreamInv => FrameTerms
  BY DEF CStreamInv, SlotsAsAsked, LastAsAsked, ClosedWhole, FrameTerms


-----------------------------------------------------------------------------
(* The context's invariant, along its steps.                                 *)
THEOREM CStreamInvariant == CStreamSpec => []CStreamInv
  <1>1. CStreamInv /\ [CStreamNext]_cstreamVars => CStreamInv'
    BY CStreamSteps, CStreamUnchanged
  <1> QED
    BY <1>1, CStreamStarts, PTL DEF CStreamSpec

(* Whatever was set, refused, reset or left half flushed in between: a frame   *)
(* is coded with the dictionary and the level asked for it, a prefix for it    *)
(* alone, and an End that answers 0 has closed it over the pledge's bytes.     *)
THEOREM FramesOnTerms == CStreamSpec => []FrameTerms
  BY CStreamInvariant, CStreamSafe, PTL

-----------------------------------------------------------------------------
(* The partial sums of a sequence of naturals: they exist, and never fall.   *)
LEMMA SumIs ==
    ASSUME NEW s \in Seq(Nat)
    PROVE  /\ Sum(s, 0) = 0
           /\ \A k \in 1 .. Len(s) : Sum(s, k) = Sum(s, k - 1) + s[k]
           /\ \A k \in 0 .. Len(s) : Sum(s, k) \in Nat
  <1> DEFINE D == 0 .. Len(s)
             F == [n \in Nat |-> [v \in Nat |-> IF n + 1 \in DOMAIN s THEN v + s[n + 1] ELSE v]]
             Is(g) == g = [n \in D |-> IF n = 0 THEN 0 ELSE g[n - 1] + s[n]]
  <1>1. Len(s) \in Nat /\ DOMAIN s = 1 .. Len(s) /\ \A i \in 1 .. Len(s) : s[i] \in Nat
    OBVIOUS
  <1>2. F \in StepsOn(Nat)
    BY <1>1 DEF StepsOn
  <1>3. \A n \in Nat, v \in Nat : n + 1 \in 1 .. Len(s) => F[n][v] = v + s[n + 1]
    BY <1>1
  <1> HIDE DEF F
  <1>4. PICK f \in Iterates(Nat, 0, F) : TRUE
    BY <1>2, Iteration
  <1>5. f \in [Nat -> Nat] /\ f[0] = 0 /\ \A n \in Nat : f[n + 1] = F[n][f[n]]
    BY <1>4 DEF Iterates
  <1>6. ASSUME NEW n \in 1 .. Len(s) PROVE f[n] = f[n - 1] + s[n]
    <2>1. n - 1 \in Nat /\ (n - 1) + 1 = n /\ (n - 1) + 1 \in 1 .. Len(s)
      BY <1>1
    <2>2. f[n] = F[n - 1][f[n - 1]] /\ f[n - 1] \in Nat
      BY <1>5, <2>1
    <2> QED
      BY <1>3, <2>1, <2>2
  <1> DEFINE g == [n \in D |-> f[n]]
  <1>7. Is(g)
    <2>1. \A n \in D : g[n] = IF n = 0 THEN 0 ELSE g[n - 1] + s[n]
      <3> SUFFICES ASSUME NEW n \in D PROVE g[n] = IF n = 0 THEN 0 ELSE g[n - 1] + s[n]
        OBVIOUS
      <3>1. n # 0 => n \in 1 .. Len(s) /\ n - 1 \in D /\ n - 1 \in Nat
        BY <1>1
      <3> QED
        BY <1>5, <1>6, <3>1
    <2> QED
      BY <2>1
  <1> DEFINE h == CHOOSE x : Is(x)
  <1>8. Is(h)
    BY <1>7
  <1>9. \A k : Sum(s, k) = h[k]
    BY DEF Sum
  <1> HIDE DEF h, g
  <1>10. 0 \in D /\ \A k \in 1 .. Len(s) : k \in D /\ k # 0
    BY <1>1
  <1>11. h[0] = 0 /\ \A k \in 1 .. Len(s) : h[k] = h[k - 1] + s[k]
    BY <1>8, <1>10
  <1> DEFINE S == {n \in Nat : n <= Len(s) => h[n] \in Nat}
  <1>12. 0 \in S
    BY <1>11
  <1>13. ASSUME NEW n \in Nat, n \in S PROVE n + 1 \in S
    <2>1. CASE n + 1 <= Len(s)
      <3>1. n + 1 \in 1 .. Len(s) /\ (n + 1) - 1 = n /\ n <= Len(s)
        BY <1>1, <2>1
      <3>2. h[n + 1] = h[n] + s[n + 1] /\ h[n] \in Nat /\ s[n + 1] \in Nat
        BY <1>1, <1>11, <1>13, <3>1
      <3> QED
        BY <3>2
    <2> QED
      BY <2>1
  <1> HIDE DEF S
  <1>14. Nat \subseteq S
    BY <1>12, <1>13, SetInduction
  <1>15. \A k \in 0 .. Len(s) : h[k] \in Nat
    BY <1>1, <1>14 DEF S
  <1> HIDE DEF Is
  <1> QED
    BY <1>9, <1>11, <1>15

LEMMA SumGrows ==
    ASSUME NEW s \in Seq(Nat), NEW j \in 0 .. Len(s), NEW k \in 0 .. Len(s), j <= k
    PROVE  Sum(s, j) <= Sum(s, k)
  <1> DEFINE S == {n \in Nat : j + n <= Len(s) => Sum(s, j) <= Sum(s, j + n)}
  <1>1. Len(s) \in Nat /\ \A i \in 1 .. Len(s) : s[i] \in Nat
    OBVIOUS
  <1>2. Sum(s, j) \in Nat
    BY SumIs
  <1>3. 0 \in S
    BY <1>1, <1>2
  <1>4. ASSUME NEW n \in Nat, n \in S PROVE n + 1 \in S
    <2>1. CASE j + (n + 1) <= Len(s)
      <3>1. /\ j + (n + 1) \in 1 .. Len(s) /\ (j + (n + 1)) - 1 = j + n
            /\ j + n <= Len(s) /\ j + n \in 0 .. Len(s)
        BY <1>1, <2>1
      <3>2. Sum(s, j + (n + 1)) = Sum(s, j + n) + s[j + (n + 1)]
        BY <3>1, SumIs
      <3>3. s[j + (n + 1)] \in Nat /\ Sum(s, j + n) \in Nat /\ Sum(s, j) <= Sum(s, j + n)
        BY <1>1, <1>4, <3>1, SumIs
      <3>4. Sum(s, j) <= Sum(s, j + (n + 1))
        BY <1>2, <3>2, <3>3
      <3> QED
        BY <3>4
    <2> QED
      BY <2>1
  <1> HIDE DEF S
  <1>5. Nat \subseteq S
    BY <1>3, <1>4, SetInduction
  <1>6. k - j \in Nat /\ j + (k - j) = k /\ k <= Len(s)
    BY <1>1
  <1>7. k - j \in S
    BY <1>5, <1>6
  <1> QED
    BY <1>6, <1>7 DEF S

-----------------------------------------------------------------------------
(* FrameSession: one frame through a decoder.  A decoder's counters, which    *)
(* every call leaves in order, a failed one too.                            *)
Decoder == [blk : Nat, made : Nat, out : Nat, flat : BOOLEAN, fin : BOOLEAN, sum : BOOLEAN,
            hashed : Nat, hashing : BOOLEAN]

Carries(d) ==
    /\ d \in Decoder
    /\ d.blk \in BlockNo /\ d.made = Content(d.blk) /\ d.out <= d.made
    /\ d.fin = (d.blk = Count) /\ d.hashing = ~d.sum
    /\ d.sum => d.fin /\ d.hashed = d.made
    /\ d.flat => d.hashed = d.made
    /\ ~d.flat /\ d.hashing => d.hashed = d.out

(* What the calls so far have accepted, and where they have left the caller.  *)
Sound(d, a) ==
    /\ stream.bad = 0 \/ stream.bad > d.blk
    /\ d.fin => stream.size # "wrong"
    /\ d.sum => stream.sum = "right"
    /\ a = PlaceAfter(d.blk) + (IF d.sum THEN SumLen ELSE 0)
    /\ a <= stream.have

(* An error has its cause in the frame.                                     *)
Caused(v) ==
    LET whole == stream.have >= FrameEnd /\ stream.bad = 0
    IN  /\ v = "size" => stream.size = "wrong"
        /\ v = "sum" => stream.sum = "wrong"
        /\ v \in {"block", "read"} => ~whole
        /\ v = "target" => \E t \in Targets : t < Content(Count)

Session(d, a, v, s, idle) ==
    /\ Carries(d) /\ s = d.out /\ Caused(v) /\ ~idle
    /\ v \in {"none", "all"} => Sound(d, a)

SessionInv == stream \in FedFrames /\ Session(dec, at, verdict, served, stalled)

(* No frame's checksum is followed by what reads as an empty block: where one *)
(* is, LateSum goes past the frame's end.                                      *)
NothingLikeABlock == \A f \in FedFrames : f.sum # "absent" => f.trail # "zeros"

-----------------------------------------------------------------------------
(* What the counts of a frame are.                                          *)
LEMMA FrameIs ==
    ASSUME stream \in FedFrames
    PROVE  /\ Count \in Nat /\ Count > 0 /\ BlockNo = 0 .. Count /\ 0 \in BlockNo /\ Count \in BlockNo
           /\ stream.bad \in 0 .. Count /\ stream.have \in Nat
           /\ stream.sum \in {"absent", "right", "wrong"}
           /\ stream.size \in {"absent", "right", "wrong"}
           /\ stream.body \in Seq(Nat) /\ stream.outs \in Seq(Nat) /\ Len(stream.outs) = Count
  <1>1. FrameOK(stream)
    BY FrameSessionAssumption
  <1> QED
    BY <1>1 DEF FrameOK, Count, BlockNo

LEMMA CountsAre ==
    ASSUME stream \in FedFrames
    PROVE  /\ \A k \in BlockNo : Content(k) \in Nat /\ PlaceAfter(k) \in Nat
           /\ \A j, k \in BlockNo : j <= k => Content(j) <= Content(k)
           /\ \A j, k \in BlockNo : j < k => PlaceAfter(j) + HeaderLen <= PlaceAfter(k)
           /\ \A j, k \in BlockNo : j <= k => PlaceAfter(j) <= PlaceAfter(k)
           /\ Content(0) = 0 /\ PlaceAfter(0) = 0
           /\ FrameEnd \in Nat /\ PlaceAfter(Count) <= FrameEnd
  <1>1. /\ stream.body \in Seq(Nat) /\ stream.outs \in Seq(Nat) /\ Len(stream.outs) = Count
        /\ Len(stream.body) = Count /\ BlockNo = 0 .. Count /\ Count \in Nat
    BY FrameIs DEF Count
  <1>2. \A k \in 0 .. Count : Sum(stream.body, k) \in Nat /\ Sum(stream.outs, k) \in Nat
    BY <1>1, SumIs
  <1>3. Sum(stream.body, 0) = 0 /\ Sum(stream.outs, 0) = 0
    BY <1>1, SumIs
  <1>4. \A j, k \in 0 .. Count : j <= k => /\ Sum(stream.body, j) <= Sum(stream.body, k)
                                            /\ Sum(stream.outs, j) <= Sum(stream.outs, k)
    BY <1>1, SumGrows
  <1>5. ASSUME NEW j \in 0 .. Count, NEW k \in 0 .. Count, j < k
        PROVE  PlaceAfter(j) + HeaderLen <= PlaceAfter(k)
    <2>1. Sum(stream.body, j) <= Sum(stream.body, k)
      BY <1>1, <1>4, <1>5
    <2>2. Sum(stream.body, j) \in Nat /\ Sum(stream.body, k) \in Nat
      BY <1>2
    <2> QED
      BY <1>1, <1>5, <2>1, <2>2 DEF PlaceAfter, HeaderLen
  <1>6. \A k \in 0 .. Count : PlaceAfter(k) \in Nat
    BY <1>1, <1>2 DEF PlaceAfter, HeaderLen
  <1>7. \A j, k \in 0 .. Count : j <= k => PlaceAfter(j) <= PlaceAfter(k)
    <2> SUFFICES ASSUME NEW j \in 0 .. Count, NEW k \in 0 .. Count, j <= k
                 PROVE  PlaceAfter(j) <= PlaceAfter(k)
      OBVIOUS
    <2>1. PlaceAfter(j) \in Nat /\ PlaceAfter(k) \in Nat
      BY <1>6
    <2>2. j < k => PlaceAfter(j) + HeaderLen <= PlaceAfter(k)
      BY <1>5
    <2>3. j < k \/ j = k
      BY <1>1
    <2> QED
      BY <2>1, <2>2, <2>3 DEF HeaderLen
  <1>8. PlaceAfter(0) = 0
    BY <1>3 DEF PlaceAfter, HeaderLen
  <1>9. FrameEnd \in Nat /\ PlaceAfter(Count) <= FrameEnd
    <2>1. PlaceAfter(Count) \in Nat
      BY <1>1, <1>6
    <2> QED
      BY <2>1 DEF FrameEnd, SumLen
  <1> QED
    BY <1>1, <1>2, <1>3, <1>4, <1>5, <1>6, <1>7, <1>8, <1>9 DEF Content

LEMMA BlockIs ==
    ASSUME stream \in FedFrames, NEW k \in BlockNo
    PROVE  /\ k \in Nat /\ Count \in Nat /\ k <= Count
           /\ PlaceAfter(k) \in Nat /\ Content(k) \in Nat
  <1>1. BlockNo = 0 .. Count /\ Count \in Nat
    BY FrameIs
  <1>2. PlaceAfter(k) \in Nat /\ Content(k) \in Nat
    BY CountsAre
  <1> QED
    BY <1>1, <1>2

-----------------------------------------------------------------------------
(* The decoder's operations.                                                *)

LEMMA DecoderExcept ==
    ASSUME NEW d \in Decoder, NEW n \in Nat, NEW x \in Nat
    PROVE  /\ [d EXCEPT !.out = n, !.hashed = x] \in Decoder
           /\ [d EXCEPT !.sum = TRUE, !.hashing = FALSE, !.hashed = x] \in Decoder
  <1>1. \A e \in Decoder : /\ [e EXCEPT !.hashed = x] \in Decoder /\ [e EXCEPT !.out = n] \in Decoder
                            /\ [e EXCEPT !.sum = TRUE] \in Decoder
                            /\ [e EXCEPT !.hashing = FALSE] \in Decoder
    BY DEF Decoder
  <1>2. [d EXCEPT !.out = n, !.hashed = x] = [[d EXCEPT !.out = n] EXCEPT !.hashed = x]
    BY DEF Decoder
  <1>3. [d EXCEPT !.sum = TRUE, !.hashing = FALSE, !.hashed = x]
        = [[[d EXCEPT !.sum = TRUE] EXCEPT !.hashing = FALSE] EXCEPT !.hashed = x]
    BY DEF Decoder
  <1> QED
    BY <1>1, <1>2, <1>3

(* Decoding to a block changes these counters.                               *)
LEMMA DecodedCarries ==
    ASSUME stream \in FedFrames, NEW d, Carries(d), ~d.fin, NEW k \in BlockNo, d.blk <= k
    PROVE  /\ Carries(Decoded(d, k))
           /\ Decoded(d, k).blk = k /\ Decoded(d, k).out = d.out /\ Decoded(d, k).flat = d.flat
           /\ Decoded(d, k).fin = (k = Count) /\ Decoded(d, k).sum = FALSE
           /\ Decoded(d, k).made = Content(k)
  <1> DEFINE e == Decoded(d, k)
  <1>1. /\ d \in Decoder /\ d.blk \in BlockNo /\ d.made = Content(d.blk) /\ d.out <= d.made
        /\ d.hashing = ~d.sum /\ ~d.sum /\ (~d.flat /\ d.hashing => d.hashed = d.out)
    BY DEF Carries
  <1>2. Content(k) \in Nat /\ k \in Nat /\ Content(d.blk) \in Nat /\ Content(d.blk) <= Content(k)
    BY <1>1, CountsAre, FrameIs
  <1>3. /\ e.blk = k /\ e.made = Content(k) /\ e.fin = (k = Count) /\ e.out = d.out
        /\ e.flat = d.flat /\ e.sum = d.sum /\ e.hashing = d.hashing
        /\ e.hashed = IF d.flat THEN Content(k) ELSE d.hashed
    BY <1>1 DEF Decoded, Decoder
  <1>4. e \in Decoder
    BY <1>1, <1>2 DEF Decoded, Decoder
  <1>5. d.out \in Nat
    BY <1>1 DEF Decoder
  <1> HIDE DEF e
  <1>6. Carries(e)
    BY <1>1, <1>2, <1>3, <1>4, <1>5 DEF Carries
  <1> QED
    BY <1>1, <1>3, <1>6 DEF e

LEMMA WithSumCarries ==
    ASSUME stream \in FedFrames, NEW d, Carries(d), d.fin, ~d.sum
    PROVE  /\ Carries(WithSum(d)) /\ WithSum(d).sum
           /\ WithSum(d).blk = d.blk /\ WithSum(d).out = d.out /\ WithSum(d).flat = d.flat
           /\ WithSum(d).fin = d.fin /\ WithSum(d).made = d.made
  <1> DEFINE e == WithSum(d)
  <1>1. /\ d \in Decoder /\ d.out <= d.made /\ d.hashing
        /\ (d.flat => d.hashed = d.made) /\ (~d.flat => d.hashed = d.out)
    BY DEF Carries
  <1>2. d.out \in Nat /\ d.made \in Nat /\ d.hashed \in Nat
    BY <1>1 DEF Decoder
  <1>3. /\ e.blk = d.blk /\ e.made = d.made /\ e.fin = d.fin /\ e.out = d.out
        /\ e.flat = d.flat /\ e.sum = TRUE /\ e.hashing = FALSE
        /\ e.hashed = IF d.flat THEN d.hashed ELSE d.hashed + (d.made - d.out)
    BY <1>1 DEF WithSum, Decoder
  <1>4. e.hashed = d.made
    BY <1>1, <1>2, <1>3
  <1> DEFINE x == IF d.flat \/ ~d.hashing THEN d.hashed ELSE d.hashed + (d.made - d.out)
  <1>7. x \in Nat
    BY <1>1, <1>2
  <1>8. e = [d EXCEPT !.sum = TRUE, !.hashing = FALSE, !.hashed = x]
    BY <1>1 DEF WithSum, Decoder
  <1> HIDE DEF e, x
  <1>5. e \in Decoder
    BY <1>1, <1>7, <1>8, DecoderExcept
  <1>6. Carries(e)
    <2>1. /\ d.blk \in BlockNo /\ d.made = Content(d.blk) /\ d.fin = (d.blk = Count) /\ d.fin
      BY DEF Carries
    <2>2. /\ e.blk \in BlockNo /\ e.made = Content(e.blk) /\ e.out <= e.made
          /\ e.fin = (e.blk = Count) /\ e.fin
      BY <1>1, <1>3, <2>1
    <2>3. e.hashing = ~e.sum
      BY <1>3
    <2> QED
      BY <1>3, <1>4, <1>5, <2>2, <2>3 DEF Carries
  <1> QED
    BY <1>3, <1>6 DEF e

LEMMA DrainedCarries ==
    ASSUME stream \in FedFrames, NEW d, Carries(d), NEW n \in Nat, n <= d.made - d.out
    PROVE  /\ Carries(Drained(d, n))
           /\ Drained(d, n).blk = d.blk /\ Drained(d, n).out = d.out + n
           /\ Drained(d, n).fin = d.fin /\ Drained(d, n).sum = d.sum
           /\ Drained(d, n).made = d.made
  <1> DEFINE e == Drained(d, n)
  <1>1. d \in Decoder
    BY DEF Carries
  <1>2. d.out \in Nat /\ d.made \in Nat /\ d.hashed \in Nat /\ d.flat \in BOOLEAN /\ d.hashing \in BOOLEAN
    BY <1>1 DEF Decoder
  <1>3. /\ e.blk = d.blk /\ e.made = d.made /\ e.fin = d.fin /\ e.out = d.out + n
        /\ e.flat = d.flat /\ e.sum = d.sum /\ e.hashing = d.hashing
        /\ e.hashed = IF d.flat \/ ~d.hashing THEN d.hashed ELSE d.hashed + n
    BY <1>1 DEF Drained, Decoder
  <1> DEFINE x == IF d.flat \/ ~d.hashing THEN d.hashed ELSE d.hashed + n
  <1>6. x \in Nat /\ d.out + n \in Nat
    BY <1>2
  <1>7. e = [d EXCEPT !.out = d.out + n, !.hashed = x]
    BY <1>1 DEF Drained, Decoder
  <1> HIDE DEF e, x
  <1>4. e \in Decoder
    BY <1>1, <1>6, <1>7, DecoderExcept
  <1>5. Carries(e)
    BY <1>2, <1>3, <1>4 DEF Carries
  <1> QED
    BY <1>3, <1>5 DEF e

(* What can be read or collected is there.                                   *)
LEMMA ReadableIs ==
    ASSUME stream \in FedFrames, NEW d, Carries(d)
    PROVE  /\ d.made - d.out \in Nat
           /\ Readable(d) \in Nat /\ Readable(d) <= d.made - d.out
           /\ can_collect(d) \in Nat /\ can_collect(d) <= d.made - d.out
           /\ d.flat \/ d.fin => Readable(d) = d.made - d.out
  <1>1. d.made \in Nat /\ d.out \in Nat /\ d.out <= d.made
    BY DEF Carries, Decoder
  <1>2. Window \in Nat
    BY FrameSessionAssumption
  <1>3. Kept(d) \in Nat /\ Kept(d) <= d.made - d.out
    BY <1>1, <1>2 DEF Kept
  <1> QED
    BY <1>1, <1>3 DEF Readable, can_collect

LEMMA SessionStarts == SessionInit => SessionInv
  <1> SUFFICES ASSUME SessionInit PROVE SessionInv
    OBVIOUS
  <1>1. stream \in FedFrames /\ dec = Fresh /\ at = 0 /\ verdict = "none" /\ served = 0 /\ stalled = FALSE
    BY DEF SessionInit
  <1>2. Count \in Nat /\ Count > 0 /\ 0 \in BlockNo /\ Content(0) = 0 /\ PlaceAfter(0) = 0
        /\ stream.bad \in 0 .. Count /\ stream.have \in Nat
    BY <1>1, FrameIs, CountsAre
  <1>3. Carries(Fresh) /\ Fresh.out = 0
    <2>1. Fresh \in Decoder
      BY DEF Fresh, Decoder
    <2>2. /\ Fresh.blk = 0 /\ Fresh.made = 0 /\ Fresh.out = 0 /\ Fresh.fin = FALSE /\ Fresh.sum = FALSE
          /\ Fresh.hashed = 0 /\ Fresh.hashing = TRUE
      BY DEF Fresh
    <2>3. Fresh.fin = (Fresh.blk = Count)
      <3>1. 0 # Count
        BY <1>2
      <3>2. (0 = Count) = FALSE
        BY <3>1, Zenon
      <3> QED
        BY <2>2, <3>2, Zenon
    <2>4. Fresh.hashing = ~Fresh.sum
      BY <2>2
    <2>5. Fresh.blk \in BlockNo /\ Fresh.made = Content(Fresh.blk) /\ Fresh.out <= Fresh.made
      BY <1>2, <2>2
    <2> QED
      BY <2>1, <2>2, <2>3, <2>4, <2>5 DEF Carries
  <1>4. Sound(Fresh, 0)
    BY <1>2 DEF Sound, Fresh
  <1>5. Caused("none")
    BY DEF Caused
  <1> QED
    BY <1>1, <1>3, <1>4, <1>5 DEF SessionInv, Session

-----------------------------------------------------------------------------
(* The ends of a call.                                                     *)

LEMMA SessionPrimed ==
    ASSUME stream \in FedFrames, stream' = stream, Session(dec', at', verdict', served', stalled')
    PROVE  SessionInv'
  <1>1. BlockNo' = BlockNo /\ Count' = Count
    BY DEF BlockNo, Count
  <1>2. \A k : Content(k)' = Content(k) /\ PlaceAfter(k)' = PlaceAfter(k)
    BY DEF Content, PlaceAfter
  <1>3. FrameEnd' = FrameEnd
    BY <1>1, <1>2 DEF FrameEnd, Summed
  <1>4. Carries(dec)'
    BY <1>1, <1>2 DEF Session, Carries
  <1>5. Caused(verdict)'
    BY <1>1, <1>2, <1>3 DEF Session, Caused
  <1>6. verdict' \in {"none", "all"} => Sound(dec, at)'
    BY <1>2 DEF Session, Sound
  <1> QED
    BY <1>4, <1>5, <1>6 DEF Session, SessionInv

(* A call whose decoder is in order fails for a cause.                       *)
LEMMA FailKeeps ==
    ASSUME stream \in FedFrames, stream' = stream, SessionInv, NEW d, NEW error, Fail(d, error),
           Carries(d), d.out = dec.out, Caused(error), error \notin {"none", "all"},
           stalled' = stalled
    PROVE  SessionInv'
  <1>1. /\ dec' = d /\ verdict' = error /\ served' = served /\ at' = at
        /\ served = dec.out /\ ~stalled
    BY DEF Fail, SessionInv, Session
  <1>2. Session(dec', at', verdict', served', stalled')
    BY <1>1 DEF Session
  <1> QED
    BY <1>2, SessionPrimed

(* A call gives what there is, and is no idle one.                           *)
LEMMA GiveKeeps ==
    ASSUME stream \in FedFrames, stream' = stream, NEW d, Carries(d), served = d.out,
           NEW n \in Nat, n <= d.made - d.out, Give(d, n),
           Sound(d, at'), Caused(verdict'), ~stalled'
    PROVE  SessionInv'
  <1>1. dec' = Drained(d, n) /\ served' = served + n
    BY DEF Give
  <1>2. Carries(dec') /\ dec'.blk = d.blk /\ dec'.out = d.out + n /\ dec'.fin = d.fin /\ dec'.sum = d.sum
    BY <1>1, DrainedCarries
  <1>3. Sound(dec', at')
    BY <1>2 DEF Sound
  <1>4. Session(dec', at', verdict', served', stalled')
    BY <1>1, <1>2, <1>3 DEF Session
  <1> QED
    BY <1>4, SessionPrimed

(* The read that ends a decode_from_to.                                      *)
LEMMA DeliverKeeps ==
    ASSUME stream \in FedFrames, SessionInv, verdict = "none", NEW d, Carries(d), d.out = dec.out,
           NEW consumed \in Nat, NEW target \in Nat, NEW offered,
           DeliverRead(d, consumed, target, offered), Sound(d, at + consumed),
           consumed = 0 /\ Lesser(Readable(d), target) = 0 /\ target > 0 /\ at + offered >= FrameEnd
               => Finished(dec) /\ dec.out = dec.made
    PROVE  SessionInv'
  <1> DEFINE n == Lesser(Readable(d), target)
  <1>1. Readable(d) \in Nat /\ Readable(d) <= d.made - d.out /\ d.made - d.out \in Nat
    BY ReadableIs
  <1>2. n \in Nat /\ n <= d.made - d.out
    BY <1>1 DEF Lesser
  <1>3. /\ Give(d, n) /\ at' = at + consumed /\ stream' = stream /\ verdict' = verdict
        /\ stalled' = (stalled \/ (/\ consumed + n = 0 /\ target > 0 /\ at + offered >= FrameEnd
                                   /\ ~(Finished(dec) /\ dec.out = dec.made)))
    BY DEF DeliverRead
  <1>4. consumed + n = 0 => consumed = 0 /\ n = 0
    BY <1>2
  <1>5. ~stalled /\ served = dec.out /\ Caused(verdict)
    BY DEF SessionInv, Session
  <1> HIDE DEF n
  <1>6. ~stalled'
    BY <1>3, <1>4, <1>5 DEF n
  <1>7. Sound(d, at') /\ Caused(verdict') /\ served = d.out
    BY <1>3, <1>5
  <1> QED
    BY <1>2, <1>3, <1>6, <1>7, GiveKeeps

(* The blocks up to k, and the frame's end.                                    *)
LEMMA ResultCarries ==
    ASSUME stream \in FedFrames, NEW d, Carries(d), ~d.fin, NEW k \in BlockNo, d.blk <= k, NEW more \in Int
    PROVE  LET e == Result(d, k, more) IN
           /\ Carries(e) /\ e.blk = k /\ e.out = d.out /\ e.flat = d.flat /\ e.fin = (k = Count)
           /\ e.made = Content(k)
           /\ e.sum <=> Closing(k, more) \in {"sum", "summed"}
  <1> DEFINE c == Decoded(d, k)
             e == Result(d, k, more)
  <1>1. /\ Carries(c) /\ c.blk = k /\ c.out = d.out /\ c.flat = d.flat /\ c.fin = (k = Count)
        /\ c.sum = FALSE /\ c.made = Content(k)
    BY DecodedCarries
  <1> HIDE DEF c
  <1>2. CASE Closing(k, more) \in {"sum", "summed"}
    <2>1. k = Count
      BY <1>2, FrameIs DEF Closing
    <2>2. e = WithSum(c)
      BY <1>2 DEF Result, c
    <2>3. c.fin /\ ~c.sum
      BY <1>1, <2>1
    <2>4. /\ Carries(e) /\ e.sum /\ e.blk = c.blk /\ e.out = c.out /\ e.flat = c.flat
          /\ e.fin = c.fin /\ e.made = c.made
      BY <1>1, <2>2, <2>3, WithSumCarries
    <2>5. e.sum \in BOOLEAN
      BY <2>4 DEF Carries, Decoder
    <2> HIDE DEF e
    <2>6. e.sum = TRUE
      BY <2>4, <2>5
    <2>8. e.sum <=> Closing(k, more) \in {"sum", "summed"}
      BY <1>2, <2>6
    <2> QED
      BY <1>1, <2>4, <2>8 DEF e
  <1>3. CASE Closing(k, more) \notin {"sum", "summed"}
    <2>1. e = c
      BY <1>3 DEF Result, c
    <2> HIDE DEF e
    <2>3. e.sum <=> Closing(k, more) \in {"sum", "summed"}
      BY <1>1, <1>3, <2>1
    <2> QED
      BY <1>1, <2>1, <2>3 DEF e
  <1> QED
    BY <1>2, <1>3

LEMMA ResultSound ==
    ASSUME SessionInv, verdict = "none", ~dec.fin, NEW k \in BlockNo, dec.blk <= k, ~Meets(k),
           NEW more \in Int, PlaceAfter(k) <= stream.have, PlaceAfter(k) + more <= stream.have,
           Closing(k, more) \notin {"size", "sum"}
    PROVE  Sound(Result(dec, k, more),
                 PlaceAfter(k) + (IF Closing(k, more) = "summed" THEN SumLen ELSE 0))
  <1> DEFINE e == Result(dec, k, more)
  <1>1. stream \in FedFrames /\ Carries(dec) /\ Sound(dec, at)
    BY DEF SessionInv, Session
  <1>2. /\ e.blk = k /\ e.fin = (k = Count)
        /\ (e.sum <=> Closing(k, more) \in {"sum", "summed"})
    BY <1>1, ResultCarries
  <1> HIDE DEF e
  <1>3. k \in Nat /\ dec.blk \in Nat /\ stream.bad \in Nat /\ PlaceAfter(k) \in Nat /\ stream.have \in Nat
        /\ Count \in Nat
    <2>1. dec.blk \in BlockNo
      BY <1>1 DEF Carries
    <2>2. stream.bad \in Nat /\ stream.have \in Nat
      BY <1>1, FrameIs
    <2> QED
      BY <1>1, <2>1, <2>2, BlockIs
  <1>4. stream.bad = 0 \/ stream.bad > e.blk
    BY <1>1, <1>2, <1>3 DEF Sound, Meets
  <1>5. e.fin => stream.size # "wrong"
    <2>1. e.fin => k = Count
      BY <1>2, Zenon
    <2>2. k = Count => stream.size # "wrong"
      BY <1>3 DEF Closing
    <2> QED
      BY <2>1, <2>2
  <1>6. e.sum <=> Closing(k, more) = "summed"
    BY <1>2
  <1>7. e.sum => stream.sum = "right" /\ more >= SumLen
    BY <1>1, <1>6, FrameIs DEF Closing, Summed, SumLen
  <1>8. CASE e.sum
    BY <1>2, <1>3, <1>4, <1>5, <1>6, <1>7, <1>8 DEF Sound, SumLen, e
  <1>9. CASE ~e.sum
    BY <1>2, <1>3, <1>4, <1>5, <1>6, <1>7, <1>9 DEF Sound, SumLen, e
  <1> QED
    BY <1>8, <1>9

-----------------------------------------------------------------------------
(* decode_from_to.                                                         *)

LEMMA SoundIs ==
    ASSUME SessionInv, verdict = "none"
    PROVE  /\ stream \in FedFrames /\ Carries(dec) /\ Sound(dec, at) /\ ~stalled
           /\ dec \in Decoder /\ dec.blk \in BlockNo /\ dec.blk \in Nat /\ dec.out \in Nat /\ at \in Nat
           /\ at <= stream.have /\ stream.have \in Nat
           /\ ~dec.sum => at = PlaceAfter(dec.blk)
           /\ ~dec.fin => ~dec.sum /\ dec.blk < Count
           /\ dec.fin => dec.blk = Count
  <1>1. stream \in FedFrames /\ Carries(dec) /\ Sound(dec, at) /\ ~stalled
    BY DEF SessionInv, Session
  <1>2. dec \in Decoder /\ dec.blk \in BlockNo /\ (dec.sum => dec.fin)
    BY <1>1 DEF Carries
  <1>3. dec.fin = (dec.blk = Count)
    BY <1>1 DEF Carries
  <1>4. dec.fin <=> dec.blk = Count
    BY <1>3, Zenon
  <1>5. dec.blk \in Nat /\ dec.blk <= Count /\ Count \in Nat /\ PlaceAfter(dec.blk) \in Nat
        /\ stream.have \in Nat
    BY <1>1, <1>2, FrameIs, CountsAre
  <1>6. dec.out \in Nat
    BY <1>2 DEF Decoder
  <1>7. at = PlaceAfter(dec.blk) + (IF dec.sum THEN SumLen ELSE 0) /\ at <= stream.have
    BY <1>1 DEF Sound
  <1>8. at \in Nat /\ (~dec.sum => at = PlaceAfter(dec.blk))
    BY <1>5, <1>7 DEF SumLen
  <1> QED
    BY <1>1, <1>2, <1>4, <1>5, <1>6, <1>7, <1>8

(* The block that does not decode, and a frame that ends wrong.              *)
LEMMA BlockFails ==
    ASSUME SessionInv, verdict = "none", ~dec.fin, NEW k \in BlockNo, Meets(k),
           Fail(Decoded(dec, stream.bad - 1), "block"), stream' = stream, stalled' = stalled
    PROVE  SessionInv'
  <1>1. stream \in FedFrames /\ Carries(dec) /\ dec.blk \in Nat
    BY SoundIs
  <1>2. stream.bad \in Nat /\ dec.blk < stream.bad /\ stream.bad <= Count /\ BlockNo = 0 .. Count
        /\ Count \in Nat
    BY <1>1, FrameIs DEF Meets
  <1>3. stream.bad - 1 \in BlockNo /\ dec.blk <= stream.bad - 1 /\ stream.bad # 0
    BY <1>1, <1>2
  <1>4. Carries(Decoded(dec, stream.bad - 1)) /\ Decoded(dec, stream.bad - 1).out = dec.out
    BY <1>1, <1>3, DecodedCarries
  <1>5. Caused("block")
    BY <1>3 DEF Caused
  <1> QED
    BY <1>1, <1>4, <1>5, FailKeeps

LEMMA EndFails ==
    ASSUME SessionInv, verdict = "none", ~dec.fin, NEW k \in BlockNo, dec.blk <= k, NEW more \in Int,
           NEW d, d = Result(dec, k, more) \/ d = dec,
           Closing(k, more) \in {"size", "sum"}, Fail(d, Closing(k, more)),
           stream' = stream, stalled' = stalled
    PROVE  SessionInv'
  <1>1. stream \in FedFrames /\ Carries(dec)
    BY SoundIs
  <1>2. Carries(d) /\ d.out = dec.out
    BY <1>1, ResultCarries
  <1>3. Caused(Closing(k, more))
    BY DEF Caused, Closing
  <1> QED
    BY <1>1, <1>2, <1>3, FailKeeps

LEMMA DecodeMoreKeeps ==
    ASSUME SessionInv, verdict = "none", NEW avail \in Nat, NEW target \in Nat,
           avail <= stream.have - at, DecodeMore(avail, target)
    PROVE  SessionInv'
  <1>1. /\ stream \in FedFrames /\ Carries(dec) /\ ~dec.fin /\ ~dec.sum /\ dec.blk < Count
        /\ dec.blk \in BlockNo /\ dec.blk \in Nat
        /\ at = PlaceAfter(dec.blk) /\ at \in Nat /\ stream.have \in Nat /\ dec.out \in Nat
    BY SoundIs DEF DecodeMore
  <1>2. PICK k \in Reach(dec, Whole(avail)) :
          LET more == at + avail - PlaceAfter(k)
              close  == Closing(k, more)
          IN  IF Meets(k) THEN Fail(Decoded(dec, stream.bad - 1), "block") /\ UNCHANGED <<stream, stalled>>
              ELSE IF close \in {"size", "sum"}
              THEN Fail(Result(dec, k, more), close) /\ UNCHANGED <<stream, stalled>>
              ELSE DeliverRead(Result(dec, k, more),
                           PlaceAfter(k) - at + (IF close = "summed" THEN SumLen ELSE 0), target, avail)
    BY DEF DecodeMore
  <1> DEFINE more == at + avail - PlaceAfter(k)
             e == Result(dec, k, more)
             consumed == PlaceAfter(k) - at + (IF Closing(k, more) = "summed" THEN SumLen ELSE 0)
  <1>3. k \in BlockNo /\ dec.blk <= k /\ PlaceAfter(k) <= at + avail
    BY <1>1 DEF Reach, Whole
  <1>4. PlaceAfter(k) \in Nat /\ PlaceAfter(dec.blk) <= PlaceAfter(k) /\ k \in Nat /\ Count \in Nat
        /\ k <= Count
    <2>1. PlaceAfter(dec.blk) <= PlaceAfter(k)
      BY <1>1, <1>3, CountsAre
    <2> QED
      BY <1>1, <1>3, <2>1, BlockIs
  <1>5. more \in Int /\ PlaceAfter(k) + more <= stream.have /\ PlaceAfter(k) <= stream.have
        /\ consumed \in Nat
        /\ at + consumed = PlaceAfter(k) + (IF Closing(k, more) = "summed" THEN SumLen ELSE 0)
        /\ consumed >= PlaceAfter(k) - at
    BY <1>1, <1>3, <1>4 DEF SumLen
  <1>6. CASE Meets(k)
    BY <1>1, <1>2, <1>3, <1>6, BlockFails
  <1>7. CASE ~Meets(k) /\ Closing(k, more) \in {"size", "sum"}
    <2>1. Fail(e, Closing(k, more)) /\ stream' = stream /\ stalled' = stalled
      BY <1>2, <1>7
    <2> HIDE DEF more
    <2> QED
      BY <1>1, <1>3, <1>5, <1>7, <2>1, EndFails
  <1>8. CASE ~Meets(k) /\ Closing(k, more) \notin {"size", "sum"}
    <2>1. DeliverRead(e, consumed, target, avail)
      BY <1>2, <1>8
    <2> HIDE DEF more
    <2>2. /\ Carries(e) /\ e.out = dec.out /\ e.flat = dec.flat /\ e.made = Content(k)
      BY <1>1, <1>3, <1>5, ResultCarries
    <2>3. Sound(e, at + consumed)
      BY <1>1, <1>3, <1>5, <1>8, ResultSound
    <2> HIDE DEF e, consumed
    <2>4. ASSUME consumed = 0, target > 0, at + avail >= FrameEnd
          PROVE  Lesser(Readable(e), target) # 0
      <3>1. Count \in Whole(avail)
        <4>1. Count \in BlockNo /\ PlaceAfter(Count) <= FrameEnd /\ FrameEnd \in Nat
              /\ PlaceAfter(Count) \in Nat
          BY <1>1, FrameIs, CountsAre
        <4> QED
          BY <1>1, <1>4, <2>4, <4>1 DEF Whole
      <3>2. k # Count
        <4>1. Count \in BlockNo /\ PlaceAfter(dec.blk) + HeaderLen <= PlaceAfter(Count)
          BY <1>1, FrameIs, CountsAre
        <4> QED
          BY <1>1, <1>4, <1>5, <2>4, <4>1 DEF HeaderLen
      <3>3. Count > k
        BY <1>4, <3>2
      <3>4. MayPause(dec, k)
        BY <1>2, <3>1, <3>3 DEF Reach
      <3>5. e.flat /\ e.made > e.out
        BY <2>2, <3>4 DEF MayPause
      <3>6. Readable(e) = e.made - e.out /\ e.made \in Nat /\ e.out \in Nat
        BY <1>1, <2>2, <3>5, ReadableIs DEF Carries, Decoder
      <3> QED
        BY <2>4, <3>5, <3>6 DEF Lesser
    <2> QED
      BY <1>1, <1>5, <2>1, <2>2, <2>3, <2>4, DeliverKeeps
  <1> QED
    BY <1>6, <1>7, <1>8

LEMMA LateSumKeeps ==
    ASSUME SessionInv, verdict = "none", NothingLikeABlock, NEW avail \in Nat, NEW target \in Nat,
           avail <= stream.have - at, LateSum(avail, target)
    PROVE  SessionInv'
  <1>1. /\ stream \in FedFrames /\ Carries(dec) /\ dec.fin /\ ~dec.sum /\ dec.blk = Count
        /\ at = PlaceAfter(dec.blk) /\ at \in Nat /\ stream.have \in Nat /\ dec.out \in Nat
        /\ Sound(dec, at) /\ Summed
    BY SoundIs DEF LateSum
  <1> DEFINE e == WithSum(dec)
  <1>2. Carries(e) /\ e.sum /\ e.out = dec.out /\ e.blk = dec.blk /\ e.fin = dec.fin
    BY <1>1, WithSumCarries
  <1>3. CASE avail < SumLen
    <2>1. UNCHANGED sessionVars
      BY <1>1, <1>3 DEF LateSum
    <2>2. Session(dec', at', verdict', served', stalled') /\ stream' = stream
      BY <2>1 DEF SessionInv, sessionVars
    <2> QED
      BY <1>1, <2>2, SessionPrimed
  <1>4. CASE avail >= SumLen /\ stream.sum = "wrong"
    <2>1. Fail(e, "sum") /\ stream' = stream /\ stalled' = stalled
      BY <1>1, <1>4 DEF LateSum, SumLen
    <2>2. Caused("sum")
      BY <1>4 DEF Caused
    <2> HIDE DEF e
    <2> QED
      BY <1>1, <1>2, <2>1, <2>2, FailKeeps
  <1>5. CASE avail >= SumLen /\ stream.sum # "wrong"
    <2>1. \/ DeliverRead(e, SumLen, target, avail)
          \/ Fail(e, "header") /\ UNCHANGED <<stream, stalled>>
      <3>1. stream.trail # "zeros"
        BY <1>1 DEF NothingLikeABlock, Summed
      <3>2. ~(avail < SumLen)
        BY <1>5 DEF SumLen
      <3> QED
        BY <1>5, <3>1, <3>2 DEF LateSum
    <2>2. stream.sum = "right"
      BY <1>1, <1>5, FrameIs DEF Summed
    <2> HIDE DEF e
    <2>3. Sound(e, at + SumLen)
      <3>1. /\ stream.bad = 0 \/ stream.bad > e.blk
            /\ e.fin => stream.size # "wrong"
        BY <1>1, <1>2 DEF Sound
      <3>2. at + SumLen = PlaceAfter(e.blk) + (IF e.sum THEN SumLen ELSE 0)
        BY <1>1, <1>2
      <3>3. at + SumLen <= stream.have
        BY <1>1, <1>5 DEF SumLen
      <3> QED
        BY <2>2, <3>1, <3>2, <3>3 DEF Sound
    <2>4. CASE DeliverRead(e, SumLen, target, avail)
      BY <1>1, <1>2, <2>3, <2>4, DeliverKeeps DEF SumLen
    <2>5. CASE Fail(e, "header") /\ UNCHANGED <<stream, stalled>>
      <3>1. Caused("header")
        BY DEF Caused
      <3> QED
        BY <1>1, <1>2, <2>5, <3>1, FailKeeps
    <2> QED
      BY <2>1, <2>4, <2>5
  <1> QED
    BY <1>3, <1>4, <1>5 DEF SumLen

LEMMA DrainOnlyKeeps ==
    ASSUME SessionInv, verdict = "none", NEW avail \in Nat, NEW target \in Nat,
           DrainOnly(target, avail)
    PROVE  SessionInv'
  <1>1. /\ stream \in FedFrames /\ Carries(dec) /\ Sound(dec, at + 0) /\ Finished(dec) /\ dec.fin
        /\ DeliverRead(dec, 0, target, avail)
    BY SoundIs DEF DrainOnly, Finished
  <1>2. Readable(dec) = dec.made - dec.out /\ dec.made \in Nat /\ dec.out \in Nat
    BY <1>1, ReadableIs DEF Carries, Decoder
  <1>3. Lesser(Readable(dec), target) = 0 /\ target > 0 => dec.out = dec.made
    BY <1>2 DEF Lesser
  <1> QED
    BY <1>1, <1>3, DeliverKeeps

-----------------------------------------------------------------------------
(* The other calls.                                                        *)

LEMMA UptoIs ==
    ASSUME SessionInv, verdict = "none", ~dec.fin, NEW strat \in Strategies
    PROVE  Upto(strat) \in BlockNo /\ Upto(strat) > dec.blk
  <1> DEFINE T == {k \in BlockNo : k > dec.blk /\ Suffices(strat, k)}
  <1>1. /\ BlockNo = 0 .. Count /\ Count \in Nat /\ Count \in BlockNo /\ dec.blk < Count /\ dec.blk \in Nat
    BY SoundIs, FrameIs
  <1>2. Count \in T /\ T \subseteq Nat
    BY <1>1 DEF Suffices
  <1>3. PICK k \in T : \A j \in T : k <= j
    BY <1>2, LeastElement
  <1>4. /\ k \in BlockNo /\ k > dec.blk /\ Suffices(strat, k)
        /\ \A j \in BlockNo : j > dec.blk /\ Suffices(strat, j) => k <= j
    BY <1>3
  <1> HIDE DEF T
  <1> QED
    BY <1>4 DEF Upto

LEMMA DecodeBlocksKeeps ==
    ASSUME SessionInv, NEW strat \in Strategies, decode_blocks(strat)
    PROVE  SessionInv'
  <1>0. verdict = "none" /\ ~dec.fin /\ stream' = stream /\ stalled' = stalled
    BY DEF decode_blocks
  <1>1. /\ stream \in FedFrames /\ Carries(dec) /\ ~stalled /\ ~dec.sum /\ dec.blk \in Nat
        /\ at = PlaceAfter(dec.blk) /\ at \in Nat /\ stream.have \in Nat /\ dec.out \in Nat
        /\ served = dec.out
    BY <1>0, SoundIs DEF SessionInv, Session
  <1>2. PICK k \in BlockNo :
          /\ dec.blk <= k
          /\ LET more == stream.have - PlaceAfter(k)
                 close  == Closing(k, more)
             IN  IF Meets(k) /\ PlaceAfter(stream.bad) <= stream.have
                 THEN Fail(Decoded(dec, stream.bad - 1), "block")
                 ELSE IF more < 0 \/ close = "late" THEN Fail(dec, "read")
                 ELSE IF close \in {"size", "sum"} THEN Fail(Result(dec, k, more), close)
                 ELSE /\ dec' = Result(dec, k, more)
                      /\ at' = PlaceAfter(k) + (IF close = "summed" THEN SumLen ELSE 0)
                      /\ UNCHANGED <<verdict, served>>
    <2>1. Upto(strat) \in BlockNo /\ dec.blk <= Upto(strat)
      BY <1>0, <1>1, UptoIs, FrameIs
    <2> HIDE DEF Upto, Closing, Fail, Result, Decoded, Meets
    <2> QED
      BY <2>1 DEF decode_blocks
  <1> DEFINE more == stream.have - PlaceAfter(k)
             e == Result(dec, k, more)
  <1>3. /\ k \in Nat /\ Count \in Nat /\ k <= Count /\ PlaceAfter(k) \in Nat
        /\ PlaceAfter(k) <= PlaceAfter(Count) /\ PlaceAfter(Count) <= FrameEnd /\ FrameEnd \in Nat
        /\ PlaceAfter(Count) \in Nat /\ stream.bad \in Nat
    BY <1>1, FrameIs, CountsAre
  <1>4. more \in Int /\ PlaceAfter(k) + more = stream.have
    BY <1>1, <1>3
  <1>5. CASE Meets(k) /\ PlaceAfter(stream.bad) <= stream.have
    BY <1>0, <1>2, <1>5, BlockFails
  <1>6. CASE ~(Meets(k) /\ PlaceAfter(stream.bad) <= stream.have)
             /\ (more < 0 \/ Closing(k, more) = "late")
    <2>1. Fail(dec, "read")
      BY <1>2, <1>6
    <2>2. stream.have < FrameEnd
      <3>1. CASE more < 0
        BY <1>1, <1>3, <3>1
      <3>2. CASE Closing(k, more) = "late"
        <4>1. k = Count /\ Summed /\ more < SumLen
          BY <1>3, <3>2 DEF Closing
        <4> QED
          BY <1>1, <1>3, <4>1 DEF FrameEnd, SumLen
      <3> QED
        BY <1>6, <3>1, <3>2
    <2>3. Caused("read")
      BY <1>1, <1>3, <2>2 DEF Caused
    <2> QED
      BY <1>0, <1>1, <2>1, <2>3, FailKeeps
  <1>7. CASE ~(Meets(k) /\ PlaceAfter(stream.bad) <= stream.have)
             /\ ~(more < 0 \/ Closing(k, more) = "late") /\ Closing(k, more) \in {"size", "sum"}
    <2>1. Fail(e, Closing(k, more))
      BY <1>2, <1>7
    <2> HIDE DEF more
    <2> QED
      BY <1>0, <1>2, <1>4, <1>7, <2>1, EndFails
  <1>8. CASE ~(Meets(k) /\ PlaceAfter(stream.bad) <= stream.have)
             /\ ~(more < 0 \/ Closing(k, more) = "late") /\ Closing(k, more) \notin {"size", "sum"}
    <2>1. /\ dec' = e /\ at' = PlaceAfter(k) + (IF Closing(k, more) = "summed" THEN SumLen ELSE 0)
          /\ verdict' = verdict /\ served' = served
      BY <1>2, <1>8
    <2>2. PlaceAfter(k) <= stream.have
      BY <1>1, <1>3, <1>8
    <2>3. ~Meets(k)
      <3> SUFFICES ASSUME Meets(k) PROVE FALSE
        OBVIOUS
      <3>1. stream.bad \in BlockNo /\ stream.bad <= k /\ k \in BlockNo
        BY <1>1, <1>3, FrameIs DEF Meets
      <3>2. PlaceAfter(stream.bad) <= PlaceAfter(k) /\ PlaceAfter(stream.bad) \in Nat
        BY <1>1, <3>1, CountsAre
      <3> QED
        BY <1>1, <1>3, <1>8, <2>2, <3>2
    <2> HIDE DEF more
    <2>4. Carries(e) /\ e.out = dec.out
      BY <1>0, <1>1, <1>2, <1>4, ResultCarries
    <2>5. PlaceAfter(k) + more <= stream.have
      BY <1>1, <1>4
    <2>6. Sound(e, at')
      BY <1>0, <1>2, <1>4, <1>8, <2>1, <2>2, <2>3, <2>5, ResultSound
    <2>7. Caused("none")
      BY DEF Caused
    <2> HIDE DEF e
    <2>8. Session(dec', at', verdict', served', stalled')
      BY <1>0, <1>1, <2>1, <2>4, <2>6, <2>7 DEF Session
    <2> QED
      BY <1>0, <1>1, <2>8, SessionPrimed
  <1> QED
    BY <1>5, <1>6, <1>7, <1>8

LEMMA ReadKeeps ==
    ASSUME SessionInv, verdict = "none", NEW n \in Nat, n <= dec.made - dec.out, Give(dec, n),
           UNCHANGED <<stream, at, verdict, stalled>>
    PROVE  SessionInv'
  <1>1. /\ stream \in FedFrames /\ Carries(dec) /\ Sound(dec, at) /\ ~stalled /\ served = dec.out
        /\ Caused(verdict)
    BY SoundIs DEF SessionInv, Session
  <1> QED
    BY <1>1, GiveKeeps

LEMMA ForceDictKeeps ==
    ASSUME SessionInv, force_dict
    PROVE  SessionInv'
  <1>1. /\ verdict = "none" /\ dec = Fresh /\ dec' = [Fresh EXCEPT !.flat = FALSE]
        /\ UNCHANGED <<stream, at, verdict, served, stalled>>
    BY DEF force_dict
  <1>2. /\ stream \in FedFrames /\ Carries(dec) /\ Sound(dec, at) /\ ~stalled /\ served = dec.out
        /\ Caused(verdict)
    BY <1>1, SoundIs DEF SessionInv, Session
  <1>3. /\ dec'.blk = dec.blk /\ dec'.made = dec.made /\ dec'.out = dec.out /\ dec'.flat = FALSE
        /\ dec'.fin = dec.fin /\ dec'.sum = dec.sum /\ dec'.hashing = dec.hashing
        /\ dec'.hashed = dec'.out
    BY <1>1 DEF Fresh
  <1>4. dec' \in Decoder
    BY <1>1 DEF Fresh, Decoder
  <1>5. Carries(dec')
    <2>1. /\ dec.blk \in BlockNo /\ dec.made = Content(dec.blk) /\ dec.out <= dec.made
          /\ dec.fin = (dec.blk = Count) /\ dec.hashing = ~dec.sum
      BY <1>2 DEF Carries
    <2>2. dec'.fin = (dec'.blk = Count) /\ dec'.hashing = ~dec'.sum
      BY <1>3, <2>1
    <2>3. ~dec'.sum
      BY <1>1 DEF Fresh
    <2> QED
      BY <1>3, <1>4, <2>1, <2>2, <2>3 DEF Carries
  <1>6. Sound(dec', at')
    BY <1>1, <1>2, <1>3 DEF Sound
  <1>7. Session(dec', at', verdict', served', stalled')
    BY <1>1, <1>2, <1>3, <1>5, <1>6 DEF Session
  <1> QED
    BY <1>1, <1>2, <1>7, SessionPrimed

-----------------------------------------------------------------------------
(* decode_all: what the first block that stops it says.                      *)
LEMMA StopIs ==
    ASSUME stream \in FedFrames, NEW target \in Targets
    PROVE  /\ Stop(target) \in {"none", "read", "block", "target"}
           /\ Caused(Stop(target))
           /\ Stop(target) = "none" =>
                stream.bad = 0 /\ PlaceAfter(Count) <= stream.have
  <1> DEFINE here(k) == CASE PlaceAfter(k) > stream.have -> "read"
                          [] PlaceAfter(k) <= stream.have /\ k = stream.bad -> "block"
                          [] PlaceAfter(k) <= stream.have /\ k # stream.bad
                             /\ ~stream.dict /\ Content(k) > target -> "target"
                          [] OTHER -> "none"
             met == {k \in 1 .. Count : here(k) # "none"}
             first == CHOOSE k \in met : \A j \in met : k <= j
  <1>1. /\ Count \in Nat /\ Count > 0 /\ BlockNo = 0 .. Count /\ stream.bad \in 0 .. Count
        /\ stream.have \in Nat
        /\ \A k \in BlockNo : PlaceAfter(k) \in Nat /\ Content(k) \in Nat
        /\ \A j, k \in BlockNo : j <= k => Content(j) <= Content(k)
        /\ \A j, k \in BlockNo : j <= k => PlaceAfter(j) <= PlaceAfter(k)
        /\ PlaceAfter(Count) <= FrameEnd /\ FrameEnd \in Nat
    BY FrameIs, CountsAre
  <1>2. target \in Nat
    BY FrameSessionAssumption
  <1>3. ASSUME NEW k \in 1 .. Count
        PROVE  /\ here(k) \in {"none", "read", "block", "target"}
               /\ here(k) = "read" => PlaceAfter(k) > stream.have
               /\ here(k) = "block" => k = stream.bad
               /\ here(k) = "target" => Content(k) > target
               /\ here(k) = "none" => PlaceAfter(k) <= stream.have /\ k # stream.bad
    <2>1. k \in BlockNo
      BY <1>1
    <2>2. PlaceAfter(k) \in Nat
      BY <1>1, <2>1
    <2>3. CASE PlaceAfter(k) > stream.have
      BY <1>1, <2>2, <2>3
    <2>4. CASE PlaceAfter(k) <= stream.have
      BY <1>1, <2>2, <2>4
    <2> QED
      BY <1>1, <2>2, <2>3, <2>4
  <1> HIDE DEF here
  <1>4. Stop(target) = IF met = {} THEN "none" ELSE here(first)
    BY DEF Stop, here
  <1>5. CASE met = {}
    <2>1. \A k \in 1 .. Count : PlaceAfter(k) <= stream.have /\ k # stream.bad
      BY <1>3, <1>5
    <2>2. Count \in 1 .. Count /\ (stream.bad # 0 => stream.bad \in 1 .. Count)
      BY <1>1
    <2>3. Stop(target) = "none"
      BY <1>4, <1>5
    <2>4. Caused("none")
      BY DEF Caused
    <2> QED
      BY <2>1, <2>2, <2>3, <2>4
  <1>6. CASE met # {}
    <2>1. \E k \in met : \A j \in met : k <= j
      <3>1. met \subseteq Nat
        OBVIOUS
      <3> QED
        BY <1>6, <3>1, LeastElement
    <2>2. first \in met
      BY <2>1
    <2> HIDE DEF first
    <2>3. first \in 1 .. Count /\ here(first) # "none" /\ Stop(target) = here(first)
      BY <1>4, <1>6, <2>2
    <2> HIDE DEF met
    <2>4. first \in BlockNo /\ Count \in BlockNo /\ first <= Count /\ first # 0
      BY <1>1, <2>3
    <2>5. PlaceAfter(first) <= PlaceAfter(Count) /\ Content(first) <= Content(Count)
          /\ PlaceAfter(first) \in Nat /\ PlaceAfter(Count) \in Nat
          /\ Content(first) \in Nat /\ Content(Count) \in Nat
      BY <1>1, <2>4
    <2>6. CASE here(first) = "read"
      <3>1. stream.have < FrameEnd
        BY <1>1, <1>3, <2>3, <2>5, <2>6
      <3> QED
        BY <1>1, <2>3, <2>6, <3>1 DEF Caused
    <2>7. CASE here(first) = "block"
      <3>1. stream.bad # 0
        BY <1>3, <2>3, <2>4, <2>7
      <3> QED
        BY <2>3, <2>7, <3>1 DEF Caused
    <2>8. CASE here(first) = "target"
      <3>1. target < Content(Count)
        BY <1>2, <1>3, <2>3, <2>5, <2>8
      <3> QED
        BY <2>3, <2>8, <3>1 DEF Caused
    <2> QED
      BY <1>3, <2>3, <2>6, <2>7, <2>8
  <1> QED
    BY <1>5, <1>6

LEMMA DecodeAllKeeps ==
    ASSUME SessionInv, NEW target \in Targets, decode_all(target)
    PROVE  SessionInv'
  <1> DEFINE more == stream.have - PlaceAfter(Count)
             close == Closing(Count, more)
             e == Result(dec, Count, more)
  <1>1. /\ verdict = "none" /\ dec = Fresh /\ stream.have <= FrameEnd
        /\ stream' = stream /\ stalled' = stalled
        /\ IF Stop(target) # "none" THEN Fail(dec, Stop(target))
           ELSE IF close \in {"size", "sum"} THEN Fail(dec, close)
           ELSE IF close = "late" THEN Fail(dec, "read")
           ELSE IF Content(Count) > target THEN Fail(dec, "target")
           ELSE /\ dec' = Drained(e, Content(Count))
                /\ at' = stream.have
                /\ verdict' = "all" /\ served' = Content(Count)
    BY DEF decode_all
  <1>2. /\ stream \in FedFrames /\ Carries(dec) /\ Sound(dec, at) /\ ~stalled /\ served = dec.out
        /\ dec.blk = 0 /\ dec.out = 0 /\ ~dec.fin
    BY <1>1, SoundIs DEF SessionInv, Session, Fresh
  <1>3. /\ Count \in Nat /\ Count \in BlockNo /\ stream.have \in Nat /\ PlaceAfter(Count) \in Nat
        /\ Content(Count) \in Nat /\ FrameEnd \in Nat
    BY <1>2, FrameIs, CountsAre
  <1>4. more \in Int /\ PlaceAfter(Count) + more = stream.have
    BY <1>3
  <1>5. CASE Stop(target) # "none"
    <2>1. Fail(dec, Stop(target)) /\ Caused(Stop(target)) /\ Stop(target) \notin {"none", "all"}
      BY <1>1, <1>2, <1>5, StopIs
    <2> QED
      BY <1>1, <1>2, <2>1, FailKeeps
  <1>6. CASE Stop(target) = "none" /\ close \in {"size", "sum"}
    <2>1. Fail(dec, Closing(Count, more)) /\ dec.blk <= Count
      BY <1>1, <1>2, <1>3, <1>6
    <2> HIDE DEF more
    <2> QED
      BY <1>1, <1>2, <1>3, <1>4, <1>6, <2>1, EndFails
  <1>7. CASE Stop(target) = "none" /\ close = "late"
    <2>1. Fail(dec, "read")
      BY <1>1, <1>7
    <2>2. Summed /\ more < SumLen
      BY <1>7 DEF Closing
    <2>3. stream.have < FrameEnd
      BY <1>3, <2>2 DEF FrameEnd, SumLen
    <2>4. Caused("read")
      BY <1>3, <2>3 DEF Caused
    <2> QED
      BY <1>1, <1>2, <2>1, <2>4, FailKeeps
  <1>8. CASE Stop(target) = "none" /\ close \notin {"size", "sum", "late"} /\ Content(Count) > target
    <2>1. Fail(dec, "target")
      BY <1>1, <1>8
    <2>2. target \in Nat
      BY FrameSessionAssumption
    <2>3. Caused("target")
      BY <1>3, <1>8, <2>2 DEF Caused
    <2> QED
      BY <1>1, <1>2, <2>1, <2>3, FailKeeps
  <1>9. CASE Stop(target) = "none" /\ close \notin {"size", "sum", "late"} /\ ~(Content(Count) > target)
    <2>1. /\ dec' = Drained(e, Content(Count)) /\ at' = stream.have /\ verdict' = "all"
          /\ served' = Content(Count)
      BY <1>1, <1>9
    <2>2. stream.bad = 0 /\ PlaceAfter(Count) <= stream.have
      BY <1>2, <1>9, StopIs
    <2>3. ~Meets(Count)
      BY <1>2, <2>2 DEF Meets
    <2>4. dec.blk <= Count /\ PlaceAfter(Count) + more <= stream.have
      BY <1>2, <1>3, <1>4
    <2>5. stream.have = PlaceAfter(Count) + (IF close = "summed" THEN SumLen ELSE 0)
      <3>1. close \in {"done", "summed"} /\ (close = "summed" <=> Summed) /\ (Summed => more >= SumLen)
        BY <1>3, <1>4, <1>9 DEF Closing, SumLen
      <3>2. CASE Summed
        BY <1>1, <1>3, <1>4, <3>1, <3>2 DEF FrameEnd, SumLen
      <3>3. CASE ~Summed
        BY <1>1, <1>3, <2>2, <3>1, <3>3 DEF FrameEnd
      <3> QED
        BY <3>2, <3>3
    <2> HIDE DEF more
    <2>6. Sound(e, at')
      BY <1>1, <1>2, <1>3, <1>4, <1>9, <2>1, <2>2, <2>3, <2>4, <2>5, ResultSound
    <2>7. Carries(e) /\ e.out = 0 /\ e.made = Content(Count)
      BY <1>2, <1>3, <1>4, <2>4, ResultCarries
    <2> HIDE DEF e
    <2>8. Give(e, Content(Count))
      BY <1>2, <1>3, <2>1 DEF Give
    <2>9. Caused(verdict') /\ Content(Count) <= e.made - e.out /\ served = e.out /\ ~stalled'
      BY <1>1, <1>2, <1>3, <2>1, <2>7 DEF Caused
    <2> QED
      BY <1>1, <1>2, <1>3, <2>6, <2>7, <2>8, <2>9, GiveKeeps
  <1> QED
    BY <1>5, <1>6, <1>7, <1>8, <1>9

-----------------------------------------------------------------------------
LEMMA SessionSteps == NothingLikeABlock /\ SessionInv /\ [SessionNext]_sessionVars => SessionInv'
  <1> SUFFICES ASSUME NothingLikeABlock, SessionInv, [SessionNext]_sessionVars PROVE SessionInv'
    OBVIOUS
  <1>0. stream \in FedFrames /\ stream.have \in Nat /\ Targets \subseteq Nat
    BY FrameIs, FrameSessionAssumption DEF SessionInv
  <1>1. CASE \E avail \in 0 .. stream.have, target \in Targets : decode_from_to(avail, target)
    <2>1. PICK avail \in 0 .. stream.have, target \in Targets : decode_from_to(avail, target)
      BY <1>1
    <2>2. /\ avail \in Nat /\ target \in Nat /\ verdict = "none" /\ avail <= stream.have - at
          /\ DrainOnly(target, avail) \/ DecodeMore(avail, target) \/ LateSum(avail, target)
      BY <1>0, <2>1 DEF decode_from_to
    <2> QED
      BY <2>2, DrainOnlyKeeps, DecodeMoreKeeps, LateSumKeeps
  <1>2. CASE \E strat \in Strategies : decode_blocks(strat)
    BY <1>2, DecodeBlocksKeeps
  <1>3. CASE \E target \in Targets : read(target) \/ decode_all(target)
    <2>1. PICK target \in Targets : read(target) \/ decode_all(target)
      BY <1>3
    <2>2. CASE read(target)
      <3>1. verdict = "none" /\ Give(dec, Lesser(Readable(dec), target))
            /\ UNCHANGED <<stream, at, verdict, stalled>>
        BY <2>2 DEF read
      <3>2. Readable(dec) \in Nat /\ Readable(dec) <= dec.made - dec.out /\ dec.made - dec.out \in Nat
        BY <3>1, SoundIs, ReadableIs
      <3>3. Lesser(Readable(dec), target) \in Nat /\ Lesser(Readable(dec), target) <= dec.made - dec.out
        BY <1>0, <3>2 DEF Lesser
      <3> QED
        BY <3>1, <3>3, ReadKeeps
    <2> QED
      BY <2>1, <2>2, DecodeAllKeeps
  <1>4. CASE \E n \in {1, can_collect(dec)} : collect(n)
    <2>1. PICK n \in {1, can_collect(dec)} : collect(n)
      BY <1>4
    <2>2. verdict = "none" /\ n <= can_collect(dec) /\ Give(dec, n)
          /\ UNCHANGED <<stream, at, verdict, stalled>>
      BY <2>1 DEF collect
    <2>3. /\ can_collect(dec) \in Nat /\ can_collect(dec) <= dec.made - dec.out
          /\ dec.made - dec.out \in Nat
      BY <2>2, SoundIs, ReadableIs
    <2>4. n \in Nat /\ n <= dec.made - dec.out
      BY <2>1, <2>2, <2>3
    <2> QED
      BY <2>2, <2>4, ReadKeeps
  <1>5. CASE force_dict
    BY <1>5, ForceDictKeeps
  <1>6. CASE UNCHANGED sessionVars
    <2>1. Session(dec', at', verdict', served', stalled') /\ stream' = stream
      BY <1>6 DEF SessionInv, sessionVars
    <2> QED
      BY <1>0, <2>1, SessionPrimed
  <1> QED
    BY <1>1, <1>2, <1>3, <1>4, <1>5, <1>6 DEF SessionNext

LEMMA SessionSafe == SessionInv => SessionFaithful
  <1> SUFFICES ASSUME SessionInv PROVE SessionFaithful
    OBVIOUS
  <1>1. /\ stream \in FedFrames /\ Carries(dec) /\ served = dec.out /\ Caused(verdict) /\ ~stalled
        /\ (verdict \in {"none", "all"} => Sound(dec, at))
    BY DEF SessionInv, Session
  <1>2. /\ dec.out <= dec.made /\ (dec.sum => dec.hashed = dec.made) /\ dec.blk \in BlockNo
        /\ (dec.sum => dec.fin)
    BY <1>1 DEF Carries
  <1>3. dec.fin => dec.blk = Count
    <2>1. dec.fin = (dec.blk = Count)
      BY <1>1 DEF Carries
    <2> QED
      BY <2>1, Zenon
  <1>4. /\ stream.bad \in 0 .. Count /\ Count \in Nat /\ stream.have \in Nat
        /\ stream.sum \in {"absent", "right", "wrong"} /\ PlaceAfter(Count) \in Nat
    BY <1>1, FrameIs, CountsAre
  <1>5. ASSUME verdict \in {"none", "all"}, Finished(dec)
        PROVE  /\ stream.have >= FrameEnd /\ stream.bad = 0
               /\ stream.size # "wrong" /\ stream.sum # "wrong"
    <2>1. dec.fin /\ dec.blk = Count /\ (Summed => dec.sum)
      BY <1>3, <1>5 DEF Finished
    <2>2. /\ (stream.bad = 0 \/ stream.bad > dec.blk) /\ stream.size # "wrong"
          /\ (dec.sum => stream.sum = "right") /\ at <= stream.have
          /\ at = PlaceAfter(dec.blk) + (IF dec.sum THEN SumLen ELSE 0)
      BY <1>1, <1>5, <2>1 DEF Sound
    <2>3. stream.bad = 0
      BY <1>4, <2>1, <2>2
    <2>4. stream.sum # "wrong"
      BY <2>1, <2>2 DEF Summed
    <2>5. dec.sum => Summed
      BY <2>2 DEF Summed
    <2>6. stream.have >= FrameEnd
      BY <1>4, <2>1, <2>2, <2>5 DEF FrameEnd, SumLen
    <2> QED
      BY <2>2, <2>3, <2>4, <2>6
  <1>6. verdict \in {"none", "all"} => at = PlaceAfter(dec.blk) + (IF dec.sum THEN SumLen ELSE 0)
    BY <1>1 DEF Sound
  <1> QED
    BY <1>1, <1>2, <1>5, <1>6 DEF SessionFaithful, Caused

-----------------------------------------------------------------------------
(* A session's invariant, along its steps.                                   *)
THEOREM SessionInvariant ==
    ASSUME NothingLikeABlock
    PROVE  SessionSpec => []SessionInv
  <1>1. SessionInv /\ [SessionNext]_sessionVars => SessionInv'
    BY SessionSteps
  <1> QED
    BY <1>1, SessionStarts, PTL DEF SessionSpec

(* However the calls are cut and mixed: a frame is accepted exactly when it is *)
(* whole and right, no output is lost or given twice, the checksum has then   *)
(* seen every byte, and the counts add up to the place in the stream.         *)
THEOREM SessionServed ==
    ASSUME NothingLikeABlock
    PROVE  SessionSpec => []SessionFaithful
  BY SessionInvariant, SessionSafe, PTL
=============================================================================
