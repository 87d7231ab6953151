----------------------------- MODULE FrameSession -----------------------------
(***************************************************************************)
(* One frame through a FrameDecoder (decoding/frame_decoder.rs), whichever  *)
(* way the caller drives it: decode_from_to over slices that may end        *)
(* anywhere, decode_blocks over a reader, collect and read in between, or   *)
(* decode_all in one call.                                                 *)
(*                                                                         *)
(* Bytes are counted: what they are, and that a flat buffer keeps them, is   *)
(* FlatWindow's matter.  Of it this module uses that a block has room        *)
(* whenever nothing is pending (NeverStuck), and nothing else.              *)
(***************************************************************************)
EXTENDS Integers, Sequences

CONSTANTS
    FedFrames,     \* the frames explored: see FrameOK
    Window,     \* what the ring keeps of an unfinished frame
    Targets     \* the room the caller's buffer has

HeaderLen == 3   \* a serialized block header
SumLen == 4      \* the checksum behind the last block

(* A frame: each block's content and output bytes; the block that does not   *)
(* decode (0: none); whether the checksum and the declared size are there    *)
(* and right; what follows the frame; how much of it all the caller has.     *)
FrameOK(f) ==
    /\ f.body \in Seq(Nat) /\ f.outs \in Seq(Nat)
    /\ Len(f.body) = Len(f.outs) /\ Len(f.body) > 0
    /\ f.bad \in 0 .. Len(f.body)
    /\ f.sum \in {"absent", "right", "wrong"} /\ f.size \in {"absent", "right", "wrong"}
    /\ f.trail \in {"none", "magic", "zeros"} /\ f.have \in Nat /\ f.dict \in BOOLEAN

ASSUME FrameSessionAssumption ==
    Window \in Nat /\ Targets \subseteq Nat /\ \A f \in FedFrames : FrameOK(f)

VARIABLES
    stream,      \* the frame
    dec,         \* FrameDecoderState
    at,          \* the caller's place in the stream: the counts it was returned
    verdict,     \* the error a call returned, "none" so far, or "all" after decode_all
    served,      \* the bytes the caller was given
    stalled      \* a decode_from_to with the whole rest to read did nothing

sessionVars == <<stream, dec, at, verdict, served, stalled>>

Lesser(a, b) == IF a < b THEN a ELSE b

Count == Len(stream.body)
BlockNo == 0 .. Count

(* The sum of the first k of s.                                            *)
Sum(s, k) ==
    LET upto[n \in 0 .. Len(s)] == IF n = 0 THEN 0 ELSE upto[n - 1] + s[n]
    IN  upto[k]
PlaceAfter(k) == k * HeaderLen + Sum(stream.body, k)
Content(k) == Sum(stream.outs, k)
Summed == stream.sum # "absent"
FrameEnd == PlaceAfter(Count) + (IF Summed THEN SumLen ELSE 0)

(* new, reset: the header is behind the caller.                             *)
Fresh == [blk |-> 0, made |-> 0, out |-> 0, flat |-> TRUE, fin |-> FALSE, sum |-> FALSE,
          hashed |-> 0, hashing |-> TRUE]

(* is_finished.                                                            *)
Finished(d) == d.fin /\ (Summed => d.sum)

(* The decoder after the blocks up to k: the flat path hashes as it decodes. *)
Decoded(d, k) ==
    [d EXCEPT !.blk = k, !.made = Content(k), !.fin = (k = Count),
              !.hashed = IF d.flat THEN Content(k) ELSE @]

(* Mutant of WithSum: the ring's undelivered bytes are not folded in.        *)
WithSumDelivered(d) == [d EXCEPT !.sum = TRUE, !.hashing = FALSE]

(* The trailer is read, and verify_frame_checksum folds in what the ring     *)
(* has not delivered, and stops the hashing.                                *)
WithSum(d) ==
    [d EXCEPT !.sum = TRUE, !.hashing = FALSE,
              !.hashed = IF d.flat \/ ~d.hashing THEN @ ELSE @ + (d.made - d.out)]

Kept(d) == IF d.made - d.out > Window THEN d.made - d.out - Window ELSE 0

(* What read can give, and what can_collect says: they go by the last block  *)
(* and by is_finished.                                                     *)
Readable(d) == IF d.flat \/ d.fin THEN d.made - d.out ELSE Kept(d)
can_collect(d) == IF d.flat \/ Finished(d) THEN d.made - d.out ELSE Kept(d)

Drained(d, n) ==
    [d EXCEPT !.out = @ + n, !.hashed = IF d.flat \/ ~d.hashing THEN @ ELSE @ + n]

Give(d, n) == dec' = Drained(d, n) /\ served' = served + n

(* Returned: the error of a call, which leaves the caller without a count.   *)
Fail(d, error) ==
    /\ dec' = d /\ verdict' = error
    /\ UNCHANGED <<at, served>>

-----------------------------------------------------------------------------
(* How far a call's block loop gets.                                       *)

(* ensure_block_space may refuse only while something is pending.            *)
MayPause(d, k) == d.flat /\ Content(k) > d.out

(* Within `avail` bytes: a block is decoded when it is whole.                *)
Whole(avail) == {k \in BlockNo : k >= dec.blk /\ PlaceAfter(k) <= at + avail}
Reach(d, limit) ==
    {k \in limit : (\E j \in limit : j > k) => MayPause(d, k)}

Meets(k) == dec.blk < stream.bad /\ stream.bad <= k

(* The frame is over at block k: the size first, then the checksum, if all   *)
(* of it is among the bytes left.                                          *)
Closing(k, left) ==
    IF k < Count THEN "open"
    ELSE IF stream.size = "wrong" THEN "size"
    ELSE IF ~Summed THEN "done"
    ELSE IF left < SumLen THEN "late"
    ELSE IF stream.sum = "wrong" THEN "sum" ELSE "summed"

(* The blocks up to k, and the frame's end when k is the last.               *)
Result(d, k, left) ==
    IF Closing(k, left) \in {"sum", "summed"} THEN WithSum(Decoded(d, k)) ELSE Decoded(d, k)

-----------------------------------------------------------------------------
(* decode_from_to.                                                         *)

(* The read that ends the call.                                            *)
DeliverRead(d, consumed, target, offered) ==
    LET n == Lesser(Readable(d), target)
    IN  /\ Give(d, n)
        /\ at' = at + consumed
        /\ stalled' = (stalled \/ (/\ consumed + n = 0 /\ target > 0 /\ at + offered >= FrameEnd
                                   /\ ~(Finished(dec) /\ dec.out = dec.made)))
        /\ UNCHANGED <<stream, verdict>>

DrainOnly(target, offered) == Finished(dec) /\ DeliverRead(dec, 0, target, offered)

DecodeMore(avail, target) ==
    /\ ~dec.fin
    /\ \E k \in Reach(dec, Whole(avail)) :
          LET left == at + avail - PlaceAfter(k)
              end  == Closing(k, left)
          IN  IF Meets(k) THEN Fail(Decoded(dec, stream.bad - 1), "block") /\ UNCHANGED <<stream, stalled>>
              ELSE IF end \in {"size", "sum"}
              THEN Fail(Result(dec, k, left), end) /\ UNCHANGED <<stream, stalled>>
              ELSE DeliverRead(Result(dec, k, left),
                           PlaceAfter(k) - at + (IF end = "summed" THEN SumLen ELSE 0), target, avail)

(* Only the checksum was missing.  With it read, the block loop runs over    *)
(* what follows it: a frame's magic is no block header; zeros are empty raw  *)
(* blocks.                                                                 *)
LateSum(avail, target) ==
    /\ dec.fin /\ Summed /\ ~dec.sum
    /\ IF avail < SumLen THEN UNCHANGED sessionVars
       ELSE IF stream.sum = "wrong" THEN Fail(WithSum(dec), "sum") /\ UNCHANGED <<stream, stalled>>
       ELSE IF avail - SumLen < HeaderLen THEN DeliverRead(WithSum(dec), SumLen, target, avail)
       ELSE \/ MayPause(dec, Count) /\ DeliverRead(WithSum(dec), SumLen, target, avail)
            \/ stream.trail = "magic" /\ Fail(WithSum(dec), "header") /\ UNCHANGED <<stream, stalled>>
            \/ stream.trail = "zeros" /\ DeliverRead(WithSum(dec), SumLen + HeaderLen, target, avail)

decode_from_to(avail, target) ==
    /\ verdict = "none"
    /\ avail <= stream.have - at
    /\ DrainOnly(target, avail) \/ DecodeMore(avail, target) \/ LateSum(avail, target)

-----------------------------------------------------------------------------
(* decode_blocks over a reader of all there is.                             *)
Strategies == {[upto |-> "all", n |-> 0]} \cup [upto : {"blocks", "bytes"}, n : {1, 2}]

(* The block at which the strategy stops.                                   *)
Suffices(strat, k) ==
    \/ k = Count
    \/ strat.upto = "blocks" /\ k - dec.blk >= strat.n
    \/ strat.upto = "bytes" /\ Content(k) - Content(dec.blk) >= strat.n

(* The last block of the call, if nothing is in its way.                    *)
Upto(strat) ==
    CHOOSE k \in BlockNo : /\ k > dec.blk /\ Suffices(strat, k)
                         /\ \A j \in BlockNo : j > dec.blk /\ Suffices(strat, j) => k <= j

decode_blocks(strat) ==
    LET paused == {k \in BlockNo : dec.blk <= k /\ k < Upto(strat) /\ MayPause(dec, k)}
    IN
    /\ verdict = "none" /\ ~dec.fin
    /\ \E k \in {Upto(strat)} \cup (IF strat.upto = "all" THEN {} ELSE paused) :
          LET left == stream.have - PlaceAfter(k)
              end  == Closing(k, left)
          IN  IF Meets(k) /\ PlaceAfter(stream.bad) <= stream.have
              THEN Fail(Decoded(dec, stream.bad - 1), "block")
              ELSE IF left < 0 \/ end = "late" THEN Fail(dec, "read")
              ELSE IF end \in {"size", "sum"} THEN Fail(Result(dec, k, left), end)
              ELSE /\ dec' = Result(dec, k, left)
                   /\ at' = PlaceAfter(k) + (IF end = "summed" THEN SumLen ELSE 0)
                   /\ UNCHANGED <<verdict, served>>
    /\ UNCHANGED <<stream, stalled>>

(* read, collect, collect_to_writer over a sink that takes a part.          *)
read(target) ==
    /\ verdict = "none" /\ Give(dec, Lesser(Readable(dec), target))
    /\ UNCHANGED <<stream, at, verdict, stalled>>

collect(n) ==
    /\ verdict = "none" /\ n <= can_collect(dec) /\ Give(dec, n)
    /\ UNCHANGED <<stream, at, verdict, stalled>>

(* force_dict before the first block: the ring takes over.                  *)
force_dict ==
    /\ verdict = "none" /\ stream.dict /\ dec = Fresh
    /\ dec' = [dec EXCEPT !.flat = FALSE]
    /\ UNCHANGED <<stream, at, verdict, served, stalled>>

-----------------------------------------------------------------------------
(* decode_all on the frame alone.  Without a dictionary decode_frame_flat    *)
(* writes the target itself and stops at the block that exceeds it; with one *)
(* the whole frame is decoded, and then drained into the target.             *)
Stop(target) ==
    LET here(k) == CASE PlaceAfter(k) > stream.have -> "read"
                     [] PlaceAfter(k) <= stream.have /\ k = stream.bad -> "block"
                     [] PlaceAfter(k) <= stream.have /\ k # stream.bad
                        /\ ~stream.dict /\ Content(k) > target -> "target"
                     [] OTHER -> "none"
        met == {k \in 1 .. Count : here(k) # "none"}
    IN  IF met = {} THEN "none" ELSE here(CHOOSE k \in met : \A j \in met : k <= j)

decode_all(target) ==
    LET end == Closing(Count, stream.have - PlaceAfter(Count))
    IN
    /\ verdict = "none" /\ dec = Fresh /\ stream.trail = "none" /\ stream.have <= FrameEnd
    /\ IF Stop(target) # "none" THEN Fail(dec, Stop(target))
       ELSE IF end \in {"size", "sum"} THEN Fail(dec, end)
       ELSE IF end = "late" THEN Fail(dec, "read")
       ELSE IF Content(Count) > target THEN Fail(dec, "target")
       ELSE /\ dec' = Drained(Result(dec, Count, stream.have - PlaceAfter(Count)), Content(Count))
            /\ at' = stream.have
            /\ verdict' = "all" /\ served' = Content(Count)
    /\ UNCHANGED <<stream, stalled>>

SessionInit ==
    /\ stream \in FedFrames
    /\ dec = Fresh /\ at = 0 /\ verdict = "none" /\ served = 0 /\ stalled = FALSE

SessionNext ==
    \/ \E avail \in 0 .. stream.have, target \in Targets : decode_from_to(avail, target)
    \/ \E strat \in Strategies : decode_blocks(strat)
    \/ \E target \in Targets : read(target) \/ decode_all(target)
    \/ \E n \in {1, can_collect(dec)} : collect(n)
    \/ force_dict

SessionSpec == SessionInit /\ [][SessionNext]_sessionVars

-----------------------------------------------------------------------------
(* Properties.                                                             *)

(* However the calls are cut and mixed: a frame is accepted exactly when it   *)
(* is whole and right, and its checksum has then seen every byte once; an     *)
(* error names what is wrong with it; no output is lost or given twice; the   *)
(* counts returned add up to the place the decoder is at; and a call that is  *)
(* given the rest of the frame and room for output does something            *)
(* (decode_from_to, decode_blocks, decode_all, verify_frame_checksum).       *)
SessionFaithful ==
    LET whole == stream.have >= FrameEnd /\ stream.bad = 0
    IN  /\ verdict \in {"none", "all"} /\ Finished(dec) =>
              whole /\ stream.size # "wrong" /\ stream.sum # "wrong"
        /\ dec.sum => dec.hashed = dec.made
        /\ verdict = "size" => stream.size = "wrong"
        /\ verdict = "sum" => stream.sum = "wrong"
        /\ verdict \in {"block", "read"} => ~whole
        /\ verdict = "target" => \E t \in Targets : t < Content(Count)
        /\ served = dec.out /\ dec.out <= dec.made
        /\ verdict \in {"none", "all"} => at = PlaceAfter(dec.blk) + (IF dec.sum THEN SumLen ELSE 0)
        /\ ~stalled

(* Trailing bytes after a frame's last block belong to the next frame or the *)
(* caller: they are neither consumed nor parsed (the comment of              *)
(* decode_from_to's ring loop, and the test decode_from_to_leaves_trailing_  *)
(* bytes).                                                                 *)
TrailingUntouched == at <= FrameEnd /\ verdict # "header"
=============================================================================
