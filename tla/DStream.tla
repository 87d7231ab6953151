--------------------------------- MODULE DStream ---------------------------------
(***************************************************************************)
(* ZSTD_decompressStream of the C library (zstdx-ffi, dctx.rs): the stage     *)
(* machine that claims the caller's input piece by piece, hands the output    *)
(* over a flush round at a time, and answers with the size of the next piece  *)
(* it wants; and the context's dictionary slot, which every frame consults.   *)
(*                                                                         *)
(* Bytes are counted, from the start of the caller's stream.  What is staged  *)
(* lies between cursor and pos.                                            *)
(***************************************************************************)
EXTENDS Integers, Sequences, SequencesExt

CONSTANTS
    HEADER_PREFIX,        \* a header's size is known from here on
    FRAME_HEADER_MIN, BlockHeaderLen, TrailerLen,
    Worlds,               \* the streams explored, each with the calls between frames
    Inputs, Rooms,        \* what a call may add to the input, and its output's size
    MaxCalls              \* bound: the calls that touch the dictionary

VARIABLES
    feed, mayCall,        \* the stream; the dictionary calls of this behaviour
    inEnd, room,          \* the input's end, the output's room left
    pos, cursor,          \* the caller's position, the machine's
    callStart,            \* staged when the call began: the shortcut's origin
    stage,                \* of DStream
    item, blk, rest,      \* the frame, its block, its body's bytes to come
    frame_open, engine,   \* a real frame is open; the decoder: "open", "done"
    pre_released, pending,
    got,                  \* of each frame: the bytes handed over
    hostage,
    pc, hint,             \* the call: "idle", "advance"; its answer, or Err
    live, armed,          \* a DStream exists; what its decoder is armed with
    slot,                 \* DCtx: dict, dict_use_once, dict_generation
    used, asked, calls    \* of each frame: the dictionary it was decoded with, and
                          \* the one in force by the calls made; the calls so far

dsVars == <<feed, mayCall, inEnd, room, pos, cursor, callStart, stage, item, blk, rest,
            frame_open, engine, pre_released, pending, got, hostage, pc, hint, live, armed,
            slot, used, asked, calls>>
call   == <<feed, mayCall, inEnd, callStart, asked, calls, slot>>
frame  == <<item, blk, rest, frame_open, engine, pre_released>>
dicts  == <<live, armed, used>>

Block(i, k) == feed[i].blocks[k]
Wire(i) == FoldLeft(LAMBDA n, b : n + BlockHeaderLen + b.c, 0, feed[i].blocks)
           + (IF feed[i].summed THEN TrailerLen ELSE 0)
FrameLen(i) == feed[i].head + (IF feed[i].kind = "skip" THEN feed[i].content ELSE Wire(i))
Ends(i) == FoldLeft(LAMBDA n, j : n + FrameLen(j), 0, [j \in 1 .. i |-> j])
StreamLen == Ends(Len(feed))
Content(i) == FoldLeft(LAMBDA n, b : n + b.out, 0, feed[i].blocks)

staged == pos - cursor
remaining == inEnd - pos
Plain == 0
Err == -1
Unused == -1

Init ==
    /\ \E w \in Worlds : feed = w.feed /\ mayCall = w.calls
    /\ inEnd = 0 /\ room = 0 /\ pos = 0 /\ cursor = 0 /\ callStart = 0
    /\ stage = "FrameHeader" /\ item = 1 /\ blk = 0 /\ rest = 0
    /\ frame_open = FALSE /\ engine = "open" /\ pre_released = 0 /\ pending = 0
    /\ got = [i \in DOMAIN feed |-> 0] /\ hostage = FALSE
    /\ pc = "idle" /\ hint = 0
    /\ live = FALSE /\ armed = [dict |-> Plain, once |-> FALSE, gen |-> 0]
    /\ slot = [dict |-> Plain, once |-> FALSE, gen |-> 0]
    /\ used = [i \in DOMAIN feed |-> Unused] /\ asked = <<>> /\ calls = 0

-----------------------------------------------------------------------------
(* The calls that touch the slot, each numbering the dictionary it brings.    *)
at_boundary == stage = "FrameHeader" /\ pending = 0 /\ staged = 0
Failed == hint = Err

set_dict(d, once) == slot' = [dict |-> d, once |-> once, gen |-> slot.gen + 1]

DictCall(kind) ==
    /\ pc = "idle" /\ ~Failed /\ kind \in mayCall /\ calls < MaxCalls
    /\ kind = "initDStream" => at_boundary
    /\ ~live \/ at_boundary          \* or StageWrong: nothing changes
    /\ calls' = calls + 1
    /\ asked' = Append(asked, [kind |-> kind, item |-> item, dict |-> calls + 1])
    /\ IF kind \in {"load", "prefix"} THEN set_dict(calls + 1, kind = "prefix")
       ELSE slot' = [slot EXCEPT !.dict = Plain, !.once = FALSE]
    /\ live' = (live /\ kind # "initDStream")
    /\ UNCHANGED <<feed, mayCall, inEnd, room, pos, cursor, callStart, stage, frame, pending, got,
                   hostage, pc, hint, armed, used>>

-----------------------------------------------------------------------------
(* One call: decompress_stream opens a stream if there is none, with the      *)
(* slot's dictionary.                                                      *)
decompress_stream(n, out) ==
    /\ pc = "idle" /\ ~Failed
    /\ pos + n <= StreamLen /\ n + out > 0
    /\ inEnd' = pos + n /\ room' = out
    /\ callStart' = pos
    /\ pc' = "advance"
    /\ live' = TRUE
    /\ armed' = IF live THEN armed ELSE slot
    /\ UNCHANGED <<feed, mayCall, pos, cursor, stage, frame, pending, got, hostage, hint, slot,
                   used, asked, calls>>

(* Mutant of Settled: the slot clears, but no generation tells the stream.    *)
SettledSilently(s) == IF s.once THEN [dict |-> Plain, once |-> FALSE, gen |-> s.gen] ELSE s

(* settle_use_once: a frame consumed the prefix, and the slot clears.        *)
Settled(s) == IF s.once THEN [dict |-> Plain, once |-> FALSE, gen |-> s.gen + 1] ELSE s

Answer(h) == pc' = "idle" /\ hint' = h

(* A flush round: one that cannot empty the buffer ends the call.            *)
Flush ==
    /\ pc = "advance" /\ pending > 0
    /\ LET take == IF pending < room THEN pending ELSE room
       IN  /\ got' = [got EXCEPT ![item] = @ + take]
           /\ pending' = pending - take /\ room' = room - take
           /\ pc' = IF take < pending THEN "result" ELSE "advance"
    /\ UNCHANGED <<call, pos, cursor, stage, frame, hostage, hint, dicts>>

Runs == pc = "advance" /\ pending = 0

(* A piece that is not all there: what there is is claimed, the call ends.    *)
Starve == pos' = inEnd /\ pc' = "result"

-----------------------------------------------------------------------------
(* Stage::FrameHeader.                                                      *)
Wanted(have) == IF have < HEADER_PREFIX THEN HEADER_PREFIX ELSE feed[item].head
HeadComplete == staged >= HEADER_PREFIX /\ staged >= feed[item].head
Least(x) == IF x < FRAME_HEADER_MIN THEN FRAME_HEADER_MIN ELSE x

load_header ==
    /\ Runs /\ stage = "FrameHeader"
    /\ item <= Len(feed) => ~HeadComplete
    /\ IF remaining = 0 \/ Wanted(staged) - staged > remaining
       THEN /\ pos' = inEnd
            /\ Answer(Least(IF item > Len(feed) THEN HEADER_PREFIX ELSE Wanted(inEnd - cursor))
                        - (inEnd - cursor) + BlockHeaderLen)
       ELSE pos' = pos + Wanted(staged) - staged /\ UNCHANGED <<pc, hint>>
    /\ UNCHANGED <<call, room, cursor, stage, frame, pending, got, hostage, dicts>>

skippable ==
    /\ Runs /\ stage = "FrameHeader" /\ item <= Len(feed) /\ HeadComplete
    /\ feed[item].kind = "skip"
    /\ cursor' = pos /\ stage' = "SkipContent" /\ rest' = feed[item].content
    /\ frame_open' = FALSE
    /\ UNCHANGED <<call, room, pos, item, blk, engine, pre_released, pending, got, hostage, pc,
                   hint, dicts>>

(* The whole frame is in this call's input, and its content fits.            *)
Shortcut ==
    /\ feed[item].sized /\ room >= Content(item)
    /\ callStart = cursor /\ Ends(item) <= inEnd

(* finish_frame: the prefix is consumed by a frame that was open.            *)
finish_frame ==
    /\ stage' = "FrameEnded" /\ frame_open' = FALSE
    /\ armed' = IF frame_open THEN [armed EXCEPT !.once = FALSE] ELSE armed
    /\ slot' = IF frame_open /\ armed.once THEN Settled(slot) ELSE slot

single_pass ==
    /\ Runs /\ stage = "FrameHeader" /\ item <= Len(feed) /\ HeadComplete
    /\ feed[item].kind = "frame" /\ Shortcut
    /\ used' = [used EXCEPT ![item] = slot.dict]
    /\ got' = [got EXCEPT ![item] = Content(item)]
    /\ room' = room - Content(item)
    /\ pos' = Ends(item) /\ cursor' = Ends(item)
    /\ finish_frame
    /\ UNCHANGED <<feed, mayCall, inEnd, callStart, asked, calls, item, blk, rest, engine,
                   pre_released, pending, hostage, pc, hint, live>>

open_frame ==
    /\ Runs /\ stage = "FrameHeader" /\ item <= Len(feed) /\ HeadComplete
    /\ feed[item].kind = "frame" /\ ~Shortcut
    /\ armed' = IF armed.gen # slot.gen THEN slot ELSE armed
    /\ used' = [used EXCEPT ![item] = armed'.dict]
    /\ cursor' = pos /\ blk' = 1 /\ engine' = "open" /\ frame_open' = TRUE
    /\ stage' = "BlockHeader"
    /\ UNCHANGED <<call, room, pos, item, rest, pre_released, pending, got, hostage, pc, hint, live>>

-----------------------------------------------------------------------------
(* Blocks.                                                                 *)
LastBlock == blk = Len(feed[item].blocks)

(* The block at hand is done with.                                          *)
AfterBlock ==
    IF ~LastBlock THEN /\ stage' = "BlockHeader" /\ blk' = blk + 1
                       /\ UNCHANGED <<frame_open, armed, slot>>
    ELSE IF feed[item].summed THEN stage' = "Checksum" /\ UNCHANGED <<blk, frame_open, armed, slot>>
    ELSE finish_frame /\ UNCHANGED blk

block_header ==
    /\ Runs /\ stage = "BlockHeader"
    /\ IF BlockHeaderLen - staged > remaining
       THEN Starve /\ UNCHANGED <<cursor, stage, blk, rest, frame_open, armed, slot>>
       ELSE /\ pos' = cursor + BlockHeaderLen /\ cursor' = cursor + BlockHeaderLen
            /\ UNCHANGED pc
            /\ IF Block(item, blk).c = 0 THEN AfterBlock /\ UNCHANGED rest
               ELSE stage' = "BlockBody" /\ rest' = Block(item, blk).c
                    /\ UNCHANGED <<blk, frame_open, armed, slot>>
    /\ UNCHANGED <<feed, mayCall, inEnd, callStart, asked, calls, room, item, engine, pre_released,
                   pending, got, hostage, hint, live, used>>

(* Mutant of Released: what a raw body gave up on its way is given again.     *)
ReleasedTwice == Block(item, blk).out

(* decode_block: the engine's output, less what went out already.            *)
Released == Block(item, blk).out - pre_released

decode_block(out) ==
    /\ engine' = IF LastBlock THEN "done" ELSE engine
    /\ pre_released' = 0
    /\ pending' = pending + out
    /\ AfterBlock

raw_body ==
    /\ Runs /\ stage = "BlockBody" /\ Block(item, blk).wire = "raw"
    /\ LET piece == IF rest < remaining THEN rest ELSE remaining
       IN  IF remaining = 0
           THEN pc' = "result" /\ UNCHANGED <<pos, cursor, rest, pre_released, pending, stage, blk,
                                             engine, frame_open, armed, slot>>
           ELSE /\ pos' = pos + piece /\ cursor' = cursor + piece /\ rest' = rest - piece
                /\ UNCHANGED pc
                /\ IF piece = rest THEN decode_block(Released)
                   ELSE /\ pre_released' = pre_released + piece /\ pending' = piece
                        /\ UNCHANGED <<stage, blk, engine, frame_open, armed, slot>>
    /\ UNCHANGED <<feed, mayCall, inEnd, callStart, asked, calls, room, item, got, hostage, hint,
                   live, used>>

whole_body ==
    /\ Runs /\ stage = "BlockBody" /\ Block(item, blk).wire # "raw"
    /\ IF rest - staged > remaining
       THEN Starve /\ UNCHANGED <<cursor, rest, pre_released, pending, stage, blk, engine,
                                  frame_open, armed, slot>>
       ELSE /\ pos' = cursor + rest /\ cursor' = cursor + rest
            /\ UNCHANGED <<pc, rest>>
            /\ decode_block(Released)
    /\ UNCHANGED <<feed, mayCall, inEnd, callStart, asked, calls, room, item, got, hostage, hint,
                   live, used>>

(* Stage::Checksum.  A decoder whose frame is not finished, since an empty    *)
(* last block never reached it, takes the four bytes for a block's header:    *)
(* what comes of it depends on their value.                                 *)
checksum ==
    /\ Runs /\ stage = "Checksum"
    /\ IF TrailerLen - staged > remaining
       THEN Starve /\ UNCHANGED <<cursor, stage, frame_open, armed, slot, hint>>
       ELSE \/ /\ pos' = cursor + TrailerLen /\ cursor' = cursor + TrailerLen
               /\ finish_frame /\ UNCHANGED <<pc, hint>>
            \/ /\ engine # "done"
               /\ Answer(Err)
               /\ UNCHANGED <<pos, cursor, stage, frame_open, armed, slot>>
    /\ UNCHANGED <<feed, mayCall, inEnd, callStart, asked, calls, room, item, blk, rest, engine,
                   pre_released, pending, got, hostage, live, used>>

skip_content ==
    /\ Runs /\ stage = "SkipContent"
    /\ LET take == IF rest < remaining THEN rest ELSE remaining
       IN  /\ pos' = pos + take /\ cursor' = cursor + take /\ rest' = rest - take
           /\ IF take = rest THEN finish_frame /\ UNCHANGED pc
              ELSE /\ pc' = IF take = 0 THEN "result" ELSE "advance"
                   /\ UNCHANGED <<stage, frame_open, armed, slot>>
    /\ UNCHANGED <<feed, mayCall, inEnd, callStart, asked, calls, room, item, blk, engine,
                   pre_released, pending, got, hostage, hint, live, used>>

-----------------------------------------------------------------------------
(* The answer.                                                             *)
Piece ==
    CASE stage = "BlockHeader" -> BlockHeaderLen - staged
      [] stage = "BlockBody" -> rest - staged + (IF LastBlock THEN 0 ELSE BlockHeaderLen)
      [] stage = "Checksum" -> TrailerLen - staged
      [] stage = "SkipContent" -> rest

result ==
    /\ pc = "result" /\ stage # "FrameEnded"
    /\ Answer(Piece)
    /\ UNCHANGED <<call, room, pos, cursor, stage, frame, pending, got, hostage, dicts>>

(* Mutant of HeldBack: no byte of the frame is held back.                   *)
HeldBackNone == 0
HeldBack == 1

frame_ended ==
    /\ stage = "FrameEnded" /\ (Runs \/ pc = "result")
    /\ IF pending > 0
       THEN /\ pos' = IF hostage THEN pos ELSE pos - HeldBack
            /\ hostage' = TRUE
            /\ Answer(1)
            /\ UNCHANGED <<stage, item>>
       ELSE IF hostage /\ pos >= inEnd
       THEN Answer(1) /\ UNCHANGED <<pos, hostage, stage, item>>
       ELSE /\ pos' = IF hostage THEN pos + HeldBack ELSE pos
            /\ hostage' = FALSE /\ stage' = "FrameHeader" /\ item' = item + 1
            /\ Answer(0)
    /\ UNCHANGED <<call, room, cursor, blk, rest, frame_open, engine, pre_released, pending, got,
                   dicts>>

Next ==
    \/ \E kind \in {"load", "prefix", "parameters", "initDStream"} : DictCall(kind)
    \/ \E n \in Inputs, out \in Rooms : decompress_stream(n, out)
    \/ Flush
    \/ load_header \/ skippable \/ single_pass \/ open_frame
    \/ block_header \/ raw_body \/ whole_body \/ checksum \/ skip_content
    \/ result \/ frame_ended

Spec == Init /\ [][Next]_dsVars

-----------------------------------------------------------------------------
(* Properties.                                                             *)
Idle == pc = "idle" /\ ~Failed
Real(i) == feed[i].kind = "frame"

(* The answer is 0 exactly when the call has brought a frame to its end: its   *)
(* input is taken to the last byte and its output is all handed over, each    *)
(* byte once.  Any other answer asks for no byte beyond the frame (but for a   *)
(* skippable frame's header), so a caller who reads what is asked for never    *)
(* takes bytes of what follows; and a call ends early only for want of input   *)
(* or of room.                                                             *)
HintKept == Idle =>
    /\ \A i \in DOMAIN feed : i < item /\ Real(i) => got[i] = Content(i)
    /\ hint = 0 => stage = "FrameHeader" /\ pos = Ends(item - 1) /\ staged = 0 /\ pending = 0
    /\ hint # 0 =>
          /\ hint > 0
          /\ item <= Len(feed) /\ (Real(item) \/ stage = "SkipContent") => pos + hint <= Ends(item)
          /\ room = 0 \/ pos = inEnd
    /\ pending > 0 => room = 0

(* Each real frame is decoded with the dictionary in force when it began: the  *)
(* last one loaded, or a prefix if it is the first real frame after the call.  *)
InForce(i) ==
    LET before == {k \in DOMAIN asked : asked[k].item <= i}
        last == CHOOSE k \in before : \A j \in before : j <= k
        c == asked[last]
    IN  IF before = {} \/ c.kind \in {"parameters", "initDStream"} THEN Plain
        ELSE IF c.kind = "prefix" /\ \E j \in c.item .. i - 1 : Real(j) THEN Plain
        ELSE c.dict

DictAsAsked == \A i \in DOMAIN feed : used[i] # Unused => used[i] = InForce(i)

(* A frame that is well formed is never refused.                            *)
WholeFramesDecode == ~Failed
=============================================================================
