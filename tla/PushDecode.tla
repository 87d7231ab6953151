------------------------------- MODULE PushDecode ------------------------------
(***************************************************************************)
(* The pushed decoder (stream/write.rs, Decoder): compressed bytes arrive in *)
(* writes that may end anywhere, are staged, and are decoded block by block  *)
(* as soon as a block is whole; the output goes to a sink that takes a part, *)
(* or fails, and is offered the rest by the next call.                      *)
(*                                                                         *)
(* Bytes are counted: a place in the stream is a number, and what the sink   *)
(* got is a count per frame.                                               *)
(***************************************************************************)
EXTENDS Integers, Sequences, SequencesExt

CONSTANTS
    MagicLen,        \* init_frame waits for these
    BlockHeaderLen, TrailerLen,
    Feeds,           \* the streams explored
    Chunks,          \* the sizes of a write
    Sinks            \* what a sink may do: "all", "part", "fail", "zero"

VARIABLES
    feed,            \* the stream
    arrived,         \* the bytes written: input's end, counted from the stream's start
    taken,           \* start, counted likewise
    inited,
    item, blk,       \* the frame, and its blocks decoded
    made, sent,      \* of each item: the bytes decoded, and those the sink has
    pushing,         \* where a call is
    result,          \* what the last call returned
    refused          \* the sink refused what it was offered last

pushVars == <<feed, arrived, taken, inited, item, blk, made, sent, pushing, result, refused>>

(* An item: a data frame, a skippable frame, or what is neither.             *)
BodyLen(i) ==
    FoldLeft(LAMBDA n, size : n + BlockHeaderLen + size, 0, feed[i].body)
    + (IF feed[i].summed THEN TrailerLen ELSE 0)
ItemLen(i) == feed[i].head + BodyLen(i)
StartOf(i) == FoldLeft(LAMBDA n, j : n + ItemLen(j), 0, [j \in 1 .. i - 1 |-> j])
StreamLen == StartOf(Len(feed) + 1)

staged == arrived - taken
Pending == made[item] - sent[item]
Blocks == Len(feed[item].body)

(* is_finished: the trailer is there with the last block.                   *)
Finished == blk = Blocks

Init ==
    /\ feed \in Feeds
    /\ arrived = 0 /\ taken = 0 /\ inited = FALSE
    /\ item = 0 /\ blk = 0
    /\ made = [i \in DOMAIN feed |-> 0] /\ sent = [i \in DOMAIN feed |-> 0]
    /\ pushing = "idle" /\ result = "ok" /\ refused = FALSE

Return(r) == pushing' = "idle" /\ result' = r

-----------------------------------------------------------------------------
(* Calls.  An error of the stream ends the use; one of the sink does not.    *)
Write(n) ==
    /\ pushing = "idle" /\ result # "corrupt"
    /\ arrived + n <= StreamLen
    /\ arrived' = arrived + n
    /\ pushing' = "pump"
    /\ UNCHANGED <<feed, taken, inited, item, blk, made, sent, result, refused>>

flush ==
    /\ pushing = "idle" /\ result # "corrupt"
    /\ pushing' = "pump"
    /\ UNCHANGED <<feed, arrived, taken, inited, item, blk, made, sent, result, refused>>

(* The sink: collect_to_writer, flush_to_writer.  Goes says whether the call *)
(* goes on.                                                                *)
Collect(goes) ==
    \E sink \in Sinks :
        /\ \E n \in IF sink = "all" \/ Pending = 0 THEN {Pending}
                    ELSE IF sink = "zero" THEN {0} ELSE 0 .. Pending - 1 :
              /\ sent' = [sent EXCEPT ![item] = @ + n]
              /\ refused' = (n < Pending)
        /\ IF sink \in {"all", "zero"} \/ Pending = 0
           THEN goes
           ELSE Return("sink") /\ UNCHANGED <<inited, item, blk, taken>>

-----------------------------------------------------------------------------
(* init_frame.                                                             *)
Following == IF taken = StreamLen THEN 0 ELSE CHOOSE i \in DOMAIN feed : StartOf(i) = taken

(* read_frame_header over what is staged is not starved.                    *)
HeadStaged(i) == staged >= MagicLen /\ staged >= feed[i].head

init_frame_starved ==
    /\ pushing = "pump" /\ ~inited
    /\ \/ Following = 0
       \/ ~HeadStaged(Following)
       \/ feed[Following].kind = "skip" /\ staged < ItemLen(Following)
    /\ Return("ok")
    /\ UNCHANGED <<feed, arrived, taken, inited, item, blk, made, sent, refused>>

init_frame ==
    /\ pushing = "pump" /\ ~inited /\ Following # 0 /\ HeadStaged(Following)
    /\ feed[Following].kind = "frame"
    /\ inited' = TRUE /\ item' = Following /\ blk' = 0
    /\ taken' = taken + feed[Following].head
    /\ UNCHANGED <<feed, arrived, made, sent, pushing, result, refused>>

skip_frame ==
    /\ pushing = "pump" /\ ~inited /\ Following # 0 /\ HeadStaged(Following)
    /\ feed[Following].kind = "skip" /\ staged >= ItemLen(Following)
    /\ taken' = taken + ItemLen(Following)
    /\ UNCHANGED <<feed, arrived, inited, item, blk, made, sent, pushing, result, refused>>

no_frame ==
    /\ pushing = "pump" /\ ~inited /\ Following # 0 /\ HeadStaged(Following)
    /\ feed[Following].kind = "junk"
    /\ Return("corrupt")
    /\ UNCHANGED <<feed, arrived, taken, inited, item, blk, made, sent, refused>>

-----------------------------------------------------------------------------
(* pump at a frame's end, and inside a frame.                               *)
boundary ==
    /\ pushing = "pump" /\ inited /\ Finished
    /\ Collect(/\ IF taken = arrived THEN Return("ok") /\ UNCHANGED inited
                  ELSE inited' = FALSE /\ UNCHANGED <<pushing, result>>
               /\ UNCHANGED <<item, blk, taken>>)
    /\ UNCHANGED <<feed, arrived, made>>

(* Mutant of next_block_need: the trailer is not waited for.                *)
NeedWithoutTrailer == BlockHeaderLen + feed[item].body[blk + 1]

next_block_need ==
    BlockHeaderLen + feed[item].body[blk + 1]
    + (IF blk + 1 = Blocks /\ feed[item].summed THEN TrailerLen ELSE 0)

block_starved ==
    /\ pushing = "pump" /\ inited /\ ~Finished
    /\ staged < BlockHeaderLen \/ staged < next_block_need
    /\ Return("ok")
    /\ UNCHANGED <<feed, arrived, taken, inited, item, blk, made, sent, refused>>

(* decode_blocks on one block, which may wait for what is pending first; it   *)
(* fails on a block that is not sound, or not all there.                    *)
Extent ==
    BlockHeaderLen + feed[item].body[blk + 1]
    + (IF blk + 1 = Blocks /\ feed[item].summed THEN TrailerLen ELSE 0)

decode_blocks ==
    /\ pushing = "pump" /\ inited /\ ~Finished
    /\ staged >= BlockHeaderLen /\ staged >= next_block_need
    /\ IF blk + 1 = feed[item].bad \/ staged < Extent
       THEN Return("corrupt") /\ UNCHANGED <<taken, blk, made>>
       ELSE /\ blk' = blk + 1 /\ taken' = taken + Extent
            /\ made' = [made EXCEPT ![item] = @ + feed[item].outs[blk + 1]]
            /\ pushing' = "collect" /\ UNCHANGED result
    /\ UNCHANGED <<feed, arrived, inited, item, sent, refused>>

wait_for_space ==
    /\ pushing = "pump" /\ inited /\ ~Finished /\ Pending > 0
    /\ staged >= BlockHeaderLen /\ staged >= next_block_need
    /\ pushing' = "collect"
    /\ UNCHANGED <<feed, arrived, taken, inited, item, blk, made, sent, result, refused>>

collect ==
    /\ pushing = "collect"
    /\ Collect(pushing' = "pump" /\ UNCHANGED <<inited, item, blk, taken, result>>)
    /\ UNCHANGED <<feed, arrived, made>>

Next ==
    \/ \E n \in Chunks : Write(n)
    \/ flush
    \/ init_frame_starved \/ init_frame \/ skip_frame \/ no_frame
    \/ boundary \/ block_starved \/ decode_blocks \/ wait_for_space \/ collect

Spec == Init /\ [][Next]_pushVars

-----------------------------------------------------------------------------
(* Properties.                                                             *)

(* Of an item, the bytes its blocks give up to the stream's place p: those    *)
(* wholly before p, the trailer with the last.                              *)
Due(i, p) ==
    LET f == feed[i]
        at(k) == StartOf(i) + f.head
                 + FoldLeft(LAMBDA n, size : n + BlockHeaderLen + size, 0, SubSeq(f.body, 1, k))
                 + (IF k = Len(f.body) /\ f.summed THEN TrailerLen ELSE 0)
        whole == {k \in DOMAIN f.body : at(k) <= p /\ \A j \in 1 .. k : j # f.bad}
    IN  IF f.kind # "frame" THEN 0
        ELSE FoldLeft(LAMBDA n, k : IF k \in whole THEN n + f.outs[k] ELSE n, 0,
                      [k \in DOMAIN f.body |-> k])

Sound(i) == feed[i].kind # "junk" /\ feed[i].bad = 0

(* However the stream is cut into writes and whatever the sink refuses: a     *)
(* call that returns Ok has decoded every whole block that has arrived, and   *)
(* handed all of it over but what the sink refused last; nothing is dropped   *)
(* at a frame's end; and an error of the stream is reported where it has one. *)
HandedOver ==
    /\ \A i \in DOMAIN feed : i # item => sent[i] = made[i]
    /\ \A i \in DOMAIN feed : sent[i] <= made[i] /\ made[i] <= Due(i, arrived)
    /\ pushing = "idle" /\ result = "ok" =>
          \A i \in DOMAIN feed :
             /\ made[i] = Due(i, arrived)
             /\ sent[i] = made[i] \/ (i = item /\ refused)
    /\ result = "corrupt" => \E i \in DOMAIN feed :
          ~Sound(i) /\ StartOf(i) < arrived /\ \A j \in 1 .. i - 1 : Sound(j)
=============================================================================
