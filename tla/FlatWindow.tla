------------------------------ MODULE FlatWindow ------------------------------
(***************************************************************************)
(* The flat output buffer of streaming decodes (decoding/flat_buffer.rs) as  *)
(* the sequence executor sees it (sequence_execution.rs): blocks are written *)
(* one behind the other, what has been handed out stays as match history,    *)
(* and once everything is handed out and one more block would not fit, a new *)
(* generation starts over the bytes of the last.                            *)
(*                                                                         *)
(* A byte is named by its virtual position, its distance from the start of  *)
(* the dictionary before the frame; mem says which byte a place holds.       *)
(***************************************************************************)
EXTENDS Integers

CONSTANTS
    MaxBlockSize, MinWindowSize,
    WildcopySlack,          \* what a copy may write past its end
    Overlength,             \* the 64 of streaming_buffer_cap
    Windows, Pledges, Dicts, MaxProduced, MaxFrames   \* bounds of the exploration

Junk == -1
NoPledge == -1

ASSUME FlatWindowAssumption ==
    /\ MaxBlockSize \in Nat \ {0} /\ MinWindowSize \in Nat \ {0}
    /\ WildcopySlack \in Nat \ {0} /\ Overlength \in Nat \ {0}
    /\ WildcopySlack <= Overlength
    /\ Windows \subseteq Nat \ {0} /\ Pledges \subseteq Nat \cup {NoPledge} /\ Dicts \subseteq Nat
    /\ MaxProduced \in Nat /\ MaxFrames \in Nat

VARIABLES
    window,                                     \* the frame's, for the properties
    origin, prevOrigin, prevPhysBase, segAEnd,  \* the generation chain
    start, end,                                 \* the flush and the decode cursor
    flatCap, blockMax, wrapEnabled,             \* cap, block_max, wrap_enabled
    dictPrefill, dictTotal,
    len, mem,                                   \* buf.len(), and its bytes
    room,                                       \* ensure_block_space said yes
    handed,                                     \* bytes of the frame handed out
    flatFrames

vars == <<window, origin, prevOrigin, prevPhysBase, segAEnd, start, end, flatCap, blockMax,
          wrapEnabled, dictPrefill, dictTotal, len, mem, room, handed, flatFrames>>
chain == <<origin, prevOrigin, prevPhysBase, segAEnd>>
params == <<window, flatCap, blockMax, wrapEnabled, dictTotal, flatFrames>>

Least(a, b) == IF a < b THEN a ELSE b
Most(a, b) == IF a > b THEN a ELSE b

max_block_output(w) == Least(w, MaxBlockSize)

streaming_buffer_cap(w, fcs) ==
    LET needed == Most(w, MinWindowSize) + 2 * max_block_output(w) + Overlength
    IN  IF fcs # NoPledge /\ fcs < needed THEN fcs ELSE needed

produced == origin + end - dictTotal

Init ==
    /\ window = 0 /\ origin = 0 /\ prevOrigin = 0 /\ prevPhysBase = 0 /\ segAEnd = 0
    /\ start = 0 /\ end = 0 /\ flatCap = 0 /\ blockMax = 0 /\ wrapEnabled = TRUE
    /\ dictPrefill = 0 /\ dictTotal = 0
    /\ len = 0 /\ mem = [p \in 0 .. -1 |-> Junk]
    /\ room = FALSE /\ handed = 0 /\ flatFrames = 0

(* reset_with_dict: the buffer keeps its memory, which grows to the          *)
(* dictionary at least.                                                    *)
Reset(w, fcs, d) ==
    /\ flatFrames < MaxFrames
    /\ window' = w
    /\ origin' = 0 /\ prevOrigin' = 0 /\ prevPhysBase' = 0 /\ segAEnd' = 0
    /\ flatCap' = streaming_buffer_cap(w, fcs)
    /\ blockMax' = max_block_output(w)
    /\ wrapEnabled' = (fcs = NoPledge \/ fcs > streaming_buffer_cap(w, fcs))
    /\ dictTotal' = d /\ dictPrefill' = d
    /\ start' = d /\ end' = d
    /\ len' = Most(len, d)
    /\ mem' = [p \in 0 .. Most(len, d) - 1 |-> IF p < d THEN p ELSE Junk]
    /\ room' = FALSE /\ handed' = 0
    /\ flatFrames' = flatFrames + 1

-----------------------------------------------------------------------------
(* ensure_block_space_inner.                                               *)

(* Mutants of Wraps: what is pending may be wrapped over; the dictionary     *)
(* counts against the cap.                                                 *)
WrapsPending == wrapEnabled /\ end + blockMax > flatCap + dictPrefill
WrapsWithDict == start = end /\ wrapEnabled /\ end + blockMax > flatCap

Wraps ==
    /\ start = end /\ wrapEnabled
    /\ end + blockMax > flatCap + dictPrefill

(* The cursors and the prefill after the wrap, if there is one.             *)
WrappedEnd == IF Wraps THEN 0 ELSE end
WrappedPrefill == IF Wraps THEN 0 ELSE dictPrefill
Pending == ~Wraps /\ start # end

Needed == flatCap + WildcopySlack + WrappedPrefill
FitsIn(size) == WrappedEnd + blockMax + WildcopySlack <= size

Grows(force) == ~FitsIn(len) /\ (len < Needed \/ force \/ ~Pending)

(* Mutant of Grown: never past the steady size.                             *)
GrownSteady == Most(len, Needed)

Grown == Most(Most(2 * len, Needed), WrappedPrefill + blockMax + WildcopySlack)

EnsureBlockSpace(force) ==
    /\ flatFrames > 0
    /\ IF Wraps
       THEN /\ origin' = origin + end
            /\ prevOrigin' = origin + dictPrefill
            /\ prevPhysBase' = dictPrefill
            /\ segAEnd' = end - dictPrefill
       ELSE UNCHANGED chain
    /\ dictPrefill' = WrappedPrefill
    /\ end' = WrappedEnd
    /\ start' = IF Wraps THEN 0 ELSE start
    /\ len' = IF Grows(force) THEN Grown ELSE len
    /\ mem' = IF Grows(force)
              THEN [p \in 0 .. Grown - 1 |-> IF p < len THEN mem[p] ELSE Junk]
              ELSE mem
    /\ room' = IF Grows(force) THEN FitsIn(Grown) ELSE FitsIn(len)
    /\ UNCHANGED <<params, handed>>

(* A block writes n bytes at the decode cursor, and its copies run past them *)
(* by up to the slack; advance.                                            *)
Block(n) ==
    /\ room /\ n <= blockMax /\ produced + n <= MaxProduced
    /\ mem' = [p \in 0 .. len - 1 |->
                  IF p < end \/ p >= end + n + WildcopySlack THEN mem[p]
                  ELSE IF p < end + n THEN origin + p ELSE Junk]
    /\ end' = end + n
    /\ room' = FALSE
    /\ UNCHANGED <<params, chain, start, dictPrefill, len, handed>>

(* flush_to, take_pending, flush_to_writer: some or all of what is pending.  *)
Flush(n) ==
    /\ flatFrames > 0
    /\ n > 0 /\ n <= end - start
    /\ start' = start + n /\ handed' = handed + n
    /\ room' = FALSE
    /\ UNCHANGED <<params, chain, end, dictPrefill, len, mem>>

Next ==
    \/ \E w \in Windows, fcs \in Pledges, d \in Dicts : Reset(w, fcs, d)
    \/ \E force \in BOOLEAN : EnsureBlockSpace(force)
    \/ \E n \in {0, 1, MaxBlockSize} : Block(n)
    \/ \E n \in {1, end - start} : Flush(n)

Spec == Init /\ [][Next]_vars

-----------------------------------------------------------------------------
(* Properties.                                                             *)

(* Where the executor reads the byte at virtual position v: the tests of the *)
(* fused loop and the mapping of copy_wrapped_match.                        *)
Place(v) == IF v >= origin THEN v - origin ELSE prevPhysBase + (v - prevOrigin)

(* Whether that byte is there when the block under way has written j bytes   *)
(* and its copies have run past them.                                      *)
Intact(v, j) ==
    IF v >= origin THEN v - origin >= end \/ mem[v - origin] = v
    ELSE /\ v >= prevOrigin
         /\ Place(v) < len /\ Place(v) >= end + j + WildcopySlack
         /\ mem[Place(v)] = v

(* Whatever has wrapped, grown or been handed out, and wherever a block is:   *)
(* a match no farther back than the window, or the dictionary, reads the     *)
(* byte the frame put there.                                               *)
WindowServed ==
    room => \A j \in 0 .. blockMax - 1, offset \in 1 .. window :
        LET v == origin + end + j - offset IN v >= 0 => Intact(v, j)

(* The block's target has the room its unchecked copies count on; no byte is *)
(* lost or handed out twice, and what is pending is intact; and a decoder    *)
(* that has handed everything out can go on: it never waits for a flush of   *)
(* nothing.                                                                *)
NeverStuck ==
    /\ room => end + blockMax + WildcopySlack <= len
    /\ handed = origin + start - dictTotal
    /\ \A p \in start .. end - 1 : mem[p] = origin + p
    /\ start = end /\ flatFrames > 0 => FitsIn(IF Grows(FALSE) THEN Grown ELSE len)
=============================================================================
