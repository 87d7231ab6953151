--------------------------------- MODULE CStream ---------------------------------
(***************************************************************************)
(* ZSTD_compressStream2 of the C library (zstdx-ffi, cctx.rs) and the         *)
(* context's session state around it: level, dictionary slots, pledge, sticky *)
(* error.  The encoder behind it is reduced to the bytes fed to it and an     *)
(* amount of output for each feed; what it does is StreamCore.               *)
(***************************************************************************)
EXTENDS Integers

CONSTANTS
    FeedChunk,          \* the input fed at a time
    CInputs, CRooms,    \* what a call adds to its input, and its output's size
    Yields,             \* what a feed may make the encoder give out
    MaxLeft, CFrames,   \* bounds: a frame's input, the frames opened,
    MaxSets,            \* the calls that set something
    Setters             \* the setters called

VARIABLES
    level, cstream_dict, once, cdict, pledged,  \* CCtx
    open, fed, held, cstream_out,               \* its stream: bytes fed, some of them not given out
                                                \* yet; output not delivered
    frame_closed, finished, cstream_pledge,     \* the open frame's pledge, or -1
    sticky,
    cstream_pc, mode, left, cstream_room,       \* the call: input and room left
    answer,
    opened, last, cstream_asked, sets           \* the frames opened, the last one's terms; what the
                                                \* setters asked for; how many there were

cstreamVars == <<level, cstream_dict, once, cdict, pledged, open, fed, held, cstream_out, frame_closed,
                 finished, cstream_pledge, sticky, cstream_pc, mode, left, cstream_room, answer,
                 opened, last, cstream_asked, sets>>
context == <<level, cstream_dict, once, cdict, pledged>>
streamState == <<open, fed, held, cstream_out, frame_closed, finished, cstream_pledge>>

None == 0
Unknown == -1

CStreamInit ==
    /\ level = 0 /\ cstream_dict = None /\ once = FALSE /\ cdict = None /\ pledged = Unknown
    /\ open = FALSE /\ fed = 0 /\ held = FALSE /\ cstream_out = 0 /\ frame_closed = FALSE /\ finished = FALSE
    /\ cstream_pledge = Unknown /\ sticky = FALSE
    /\ cstream_pc = "idle" /\ mode = "Continue" /\ left = 0 /\ cstream_room = 0 /\ answer = -1
    /\ cstream_asked = [level |-> 0, dict |-> None, kind |-> "none", cdict |-> None]
    /\ opened = 0 /\ last = [level |-> 0, dict |-> None, asked |-> cstream_asked]
    /\ sets = 0

-----------------------------------------------------------------------------
(* The setters: mid-frame they are refused, but for the level.              *)
MidFrame == open /\ ~finished

Sets(kind) ==
    /\ cstream_pc = "idle" /\ sets < MaxSets /\ kind \in Setters
    /\ sets' = sets + 1
    /\ UNCHANGED <<cstream_pc, mode, left, cstream_room, answer, opened, last>>

SetLevel ==
    /\ Sets("level")
    /\ level' = sets + 1
    /\ cstream_asked' = [cstream_asked EXCEPT !.level = sets + 1]
    /\ UNCHANGED <<cstream_dict, once, cdict, pledged, streamState, sticky>>

set_pledged(n) ==
    /\ Sets("pledge") /\ ~MidFrame
    /\ pledged' = n
    /\ UNCHANGED <<level, cstream_dict, once, cdict, streamState, sticky, cstream_asked>>

load_dictionary ==
    /\ Sets("load") /\ ~MidFrame
    /\ cstream_dict' = sets + 1 /\ once' = FALSE /\ cdict' = None
    /\ cstream_asked' = [cstream_asked EXCEPT !.dict = sets + 1, !.kind = "load", !.cdict = None]
    /\ UNCHANGED <<level, pledged, streamState, sticky>>

ref_prefix ==
    /\ Sets("prefix") /\ ~MidFrame
    /\ cstream_dict' = sets + 1 /\ once' = TRUE /\ cdict' = None
    /\ cstream_asked' = [cstream_asked EXCEPT !.dict = sets + 1, !.kind = "prefix", !.cdict = None]
    /\ UNCHANGED <<level, pledged, streamState, sticky>>

ref_cdict ==
    /\ Sets("cdict") /\ ~MidFrame
    /\ cstream_dict' = None /\ once' = FALSE /\ cdict' = sets + 1
    /\ cstream_asked' = [cstream_asked EXCEPT !.dict = None, !.kind = "none", !.cdict = sets + 1]
    /\ UNCHANGED <<level, pledged, streamState, sticky>>

reset_session ==
    /\ Sets("session")
    /\ open' = FALSE /\ sticky' = FALSE /\ pledged' = Unknown
    /\ fed' = 0 /\ held' = FALSE /\ cstream_out' = 0 /\ frame_closed' = FALSE /\ finished' = FALSE
    /\ cstream_pledge' = Unknown
    /\ UNCHANGED <<level, cstream_dict, once, cdict, cstream_asked>>

reset_parameters ==
    /\ Sets("parameters") /\ ~MidFrame
    /\ level' = 0 /\ cstream_dict' = None /\ cdict' = None
    /\ cstream_asked' = [level |-> 0, dict |-> None, kind |-> "none", cdict |-> None]
    /\ UNCHANGED <<once, pledged, streamState, sticky>>

(* initCStream: the loaded dictionary goes, an attached handle stays.        *)
init_stream ==
    /\ Sets("init")
    /\ level' = sets + 1 /\ cstream_dict' = None /\ sticky' = FALSE /\ pledged' = Unknown
    /\ open' = FALSE /\ fed' = 0 /\ held' = FALSE /\ cstream_out' = 0 /\ frame_closed' = FALSE /\ finished' = FALSE
    /\ cstream_pledge' = Unknown
    /\ cstream_asked' = [cstream_asked EXCEPT !.level = sets + 1, !.dict = None, !.kind = "none"]
    /\ UNCHANGED <<once, cdict>>

-----------------------------------------------------------------------------
(* compress_stream2.  A caller that has not had all its input taken offers    *)
(* the rest again.                                                         *)
Call(n, r, m) ==
    /\ cstream_pc = "idle" /\ ~sticky
    /\ fed + left + n <= MaxLeft
    /\ left' = left + n /\ cstream_room' = r /\ mode' = m
    /\ cstream_pc' = "begin"
    /\ UNCHANGED <<context, streamState, sticky, answer, opened, last, cstream_asked, sets>>

Answer(n) == cstream_pc' = "idle" /\ answer' = n

(* A finished frame retires, and its pledge with it.                        *)
Retire ==
    /\ cstream_pc = "begin" /\ open /\ finished
    /\ open' = FALSE /\ pledged' = Unknown
    /\ fed' = 0 /\ held' = FALSE /\ cstream_out' = 0 /\ frame_closed' = FALSE /\ finished' = FALSE
    /\ cstream_pledge' = Unknown
    /\ UNCHANGED <<level, cstream_dict, once, cdict, sticky, cstream_pc, mode, left, cstream_room, answer,
                   opened, last, cstream_asked, sets>>

Poll ==
    /\ cstream_pc = "begin" /\ ~open /\ mode = "Continue" /\ left = 0
    /\ Answer(0)
    /\ UNCHANGED <<context, streamState, sticky, mode, left, cstream_room, opened, last, cstream_asked, sets>>

(* Mutant of frame_opened: the prefix stays for the next frame.              *)
frame_opened_keeps == UNCHANGED <<cstream_dict, once>>

(* The prefix retires with the frame it opens.                              *)
frame_opened == IF once THEN cstream_dict' = None /\ once' = FALSE ELSE UNCHANGED <<cstream_dict, once>>

OpenFrame ==
    /\ cstream_pc = "begin" /\ ~open /\ ~(mode = "Continue" /\ left = 0)
    /\ opened < CFrames
    /\ open' = TRUE
    /\ cstream_pledge' = IF mode = "End" THEN left ELSE pledged
    /\ opened' = opened + 1
    /\ last' = [level |-> IF cdict # None THEN -1 ELSE level,
                dict |-> IF cdict # None THEN cdict ELSE cstream_dict, asked |-> cstream_asked]
    /\ cstream_asked' = IF cstream_asked.kind = "prefix"
                        THEN [cstream_asked EXCEPT !.dict = None, !.kind = "none"] ELSE cstream_asked
    /\ frame_opened
    /\ cstream_pc' = "feed"
    /\ UNCHANGED <<level, cdict, pledged, fed, held, cstream_out, frame_closed, finished, sticky, mode,
                   left, cstream_room, answer, sets>>

Resume ==
    /\ cstream_pc = "begin" /\ open /\ ~finished
    /\ cstream_pc' = "feed"
    /\ UNCHANGED <<context, streamState, sticky, mode, left, cstream_room, answer, opened, last, cstream_asked, sets>>

Smaller(a, b) == IF a < b THEN a ELSE b

Deliver(pending) ==
    LET take == Smaller(pending, cstream_room)
    IN  cstream_out' = pending - take /\ cstream_room' = cstream_room - take

(* The loop ends when the output is full, the input taken, the frame closed.  *)
LoopOver == cstream_room' = 0 \/ left = 0 \/ frame_closed

Feed ==
    /\ cstream_pc = "feed"
    /\ Deliver(cstream_out)
    /\ cstream_pc' = IF LoopOver THEN "close" ELSE "write"
    /\ UNCHANGED <<context, open, fed, held, frame_closed, finished, cstream_pledge, sticky, mode, left,
                   answer, opened, last, cstream_asked, sets>>

(* The encoder takes a chunk; more than was pledged is refused.              *)
Take == Smaller(left, FeedChunk)

Write ==
    /\ cstream_pc = "write"
    /\ IF cstream_pledge # Unknown /\ fed + Take > cstream_pledge
       THEN /\ sticky' = TRUE /\ Answer(-1)
            /\ UNCHANGED <<fed, held, left, cstream_out>>
       ELSE /\ fed' = fed + Take /\ left' = left - Take
            /\ \E y \in Yields : cstream_out' = cstream_out + y
            /\ held' = TRUE
            /\ cstream_pc' = "feed" /\ UNCHANGED <<sticky, answer>>
    /\ UNCHANGED <<context, open, frame_closed, finished, cstream_pledge, mode, cstream_room, opened,
                   last, cstream_asked, sets>>

(* Flush gives out what is staged; End closes the frame, which holds the      *)
(* pledge to account.                                                      *)
Close ==
    /\ cstream_pc = "close"
    /\ CASE mode = "Continue" \/ (mode = "End" /\ frame_closed) ->
              /\ UNCHANGED <<held, cstream_out, frame_closed, sticky, answer>> /\ cstream_pc' = "deliver"
         [] mode = "Flush" ->
              /\ cstream_out' = IF held THEN cstream_out + 1 ELSE cstream_out
              /\ held' = FALSE
              /\ UNCHANGED <<frame_closed, sticky, answer>> /\ cstream_pc' = "deliver"
         [] mode = "End" /\ ~frame_closed ->
              IF cstream_pledge # Unknown /\ fed # cstream_pledge
              THEN sticky' = TRUE /\ Answer(-1) /\ UNCHANGED <<held, cstream_out, frame_closed>>
              ELSE /\ frame_closed' = TRUE /\ held' = FALSE
                   /\ cstream_out' = IF held THEN cstream_out + 2 ELSE cstream_out + 1
                   /\ UNCHANGED <<sticky, answer>> /\ cstream_pc' = "deliver"
    /\ UNCHANGED <<context, open, fed, finished, cstream_pledge, mode, left, cstream_room, opened, last,
                   cstream_asked, sets>>

DeliverLast ==
    /\ cstream_pc = "deliver"
    /\ Deliver(cstream_out)
    /\ finished' = (finished \/ (mode = "End" /\ cstream_out' = 0))
    /\ Answer(cstream_out')
    /\ UNCHANGED <<context, open, fed, held, frame_closed, cstream_pledge, sticky, mode, left, opened,
                   last, cstream_asked, sets>>

CStreamNext ==
    \/ SetLevel \/ (\E n \in {1, 2} : set_pledged(n)) \/ load_dictionary \/ ref_prefix \/ ref_cdict
    \/ reset_session \/ reset_parameters \/ init_stream
    \/ \E n \in CInputs, r \in CRooms, m \in {"Continue", "Flush", "End"} : Call(n, r, m)
    \/ Retire \/ Poll \/ OpenFrame \/ Resume \/ Feed \/ Write \/ Close \/ DeliverLast

CStreamSpec == CStreamInit /\ [][CStreamNext]_cstreamVars

-----------------------------------------------------------------------------
(* Properties.                                                             *)

(* Every frame is coded under what was asked of it: the handle attached last    *)
(* with its level, or else the dictionary loaded last and the level; a prefix   *)
(* is for the frame it opens and for no other, whatever was refused, reset or   *)
(* left half flushed in between.  And an End that answers 0 has closed its     *)
(* frame over the pledge's bytes and handed all of it over.                   *)
FrameTerms ==
    /\ IF last.asked.cdict # None THEN last.dict = last.asked.cdict /\ last.level = -1
       ELSE last.dict = last.asked.dict /\ last.level = last.asked.level
    /\ cstream_pc = "idle" /\ mode = "End" /\ answer = 0 /\ open /\ finished =>
          frame_closed /\ cstream_out = 0 /\ cstream_pledge \in {Unknown, fed}

=============================================================================
