------------------------------ MODULE StreamCore ------------------------------
(***************************************************************************)
(* The single-threaded core of the stream encoders (stream/encoder_core.rs) *)
(* under the write and read adapters: writes stage bytes and emit the blocks *)
(* that are complete, flush emits the rest, finish closes the frame, and the *)
(* consumer takes any part of the output in between.  A core is pooled and   *)
(* serves one frame after another.                                          *)
(*                                                                         *)
(* Output is a sequence of cells: the frame header, each block's header and  *)
(* body, the checksum.  Where the pre-split detector cuts a full window is   *)
(* the frame's to say, as the bytes decide it.                              *)
(***************************************************************************)
EXTENDS Integers, Sequences, SequencesExt

CONSTANTS
    BlockSize, HeadSpan,       \* SCREEN_SPAN and PROBE_SPAN
    StreamFrames,              \* the frames explored: see StreamFrameOK
    MaxLen, MaxStreams

NoPledge == -1

(* head: what the head of the frame is examined for, and the verdict.        *)
StreamFrameOK(f) ==
    /\ f.pledged \in Nat \cup {NoPledge}
    /\ f.head \in {"none", "keep", "shrink", "stock", "wide"}
    /\ f.cut \in [0 .. MaxLen -> 1 .. BlockSize]
    /\ f.checksum \in BOOLEAN

StreamCoreAssumption ==
    /\ BlockSize \in Nat \ {0} /\ HeadSpan \in Nat /\ HeadSpan >= BlockSize
    /\ MaxLen \in Nat /\ MaxStreams \in Nat
    /\ \A f \in StreamFrames : StreamFrameOK(f)

VARIABLES
    fr,                      \* the frame's options and bytes
    pos, emitted, feed,      \* bytes fed; in blocks; of the write not staged yet
    tail,                    \* BlockTail
    probe, screen,           \* probe_pending, screen_pending
    arming, reach,           \* the pooled matcher's, which outlive a frame
    output, outRead,         \* cells, and those consumed
    blocks, closed,
    step,                    \* where in a call the core is
    delivered, flushed,      \* the cells consumed; whether there was a flush
    streams

coreVars == <<fr, pos, emitted, feed, tail, probe, screen, arming, reach, output, outRead,
              blocks, closed, step, delivered, flushed, streams>>
frameVars == <<fr, streams>>
headVars == <<probe, screen, arming, reach>>

Less(a, b) == IF a < b THEN a ELSE b

TailNone == [at |-> "none", off |-> 0]
TailOpen(off) == [at |-> "open", off |-> off]
TailClosed == [at |-> "closed", off |-> 0]

Staged == pos - feed - emitted
Limit == IF probe \/ screen THEN HeadSpan ELSE BlockSize

(* next_block_len: only a proven full window is cut.                        *)
NextBlockLen == IF Staged < BlockSize THEN Staged ELSE fr.cut[emitted]

FrameHeaderCell == [cell |-> "frame", arming |-> arming, reach |-> reach]
HeaderCell(from, n, last) == [cell |-> "block", from |-> from, n |-> n, last |-> last]
BodyCell(from, n) == [cell |-> "body", from |-> from, n |-> n]
SumCell == [cell |-> "sum", of |-> emitted]

(* configure, on a pooled core or a new one: the matcher's carried verdicts   *)
(* are declared stock again.                                               *)

(* Mutant of Stock: a pooled core keeps the verdict of its last frame.       *)
StockArmingOnly == arming' = "frame" /\ UNCHANGED reach

Stock == arming' = "frame" /\ reach' = "keep"

Configure(f) ==
    /\ streams < MaxStreams
    /\ step = "idle"
    /\ Stock
    /\ fr' = f
    /\ pos' = 0 /\ emitted' = 0 /\ feed' = 0
    /\ tail' = TailNone
    /\ probe' = (f.head \in {"keep", "shrink"}) /\ screen' = (f.head \in {"stock", "wide"})
    /\ output' = <<>> /\ outRead' = 0 /\ blocks' = 0 /\ closed' = FALSE
    /\ delivered' = <<>> /\ flushed' = FALSE
    /\ streams' = streams + 1
    /\ UNCHANGED step

Init ==
    /\ fr \in StreamFrames
    /\ pos = 0 /\ emitted = 0 /\ feed = 0 /\ tail = TailNone
    /\ probe = (fr.head \in {"keep", "shrink"}) /\ screen = (fr.head \in {"stock", "wide"})
    /\ arming = "frame" /\ reach = "keep"
    /\ output = <<>> /\ outRead = 0 /\ blocks = 0 /\ closed = FALSE
    /\ step = "idle" /\ delivered = <<>> /\ flushed = FALSE /\ streams = 1

-----------------------------------------------------------------------------
(* encode_block.                                                           *)
EncodeBlock(last) ==
    LET n == NextBlockLen
        front == IF blocks = 0 THEN Append(output, FrameHeaderCell) ELSE output
    IN  /\ output' = front \o <<HeaderCell(emitted, n, last), BodyCell(emitted, n)>>
        /\ tail' = TailOpen(Len(front) + 1)
        /\ emitted' = emitted + n
        /\ blocks' = blocks + 1

NoBlock == UNCHANGED <<output, tail, emitted, blocks>>

-----------------------------------------------------------------------------
(* write: refused at the first overrun of the pledge, before anything is     *)
(* staged.                                                                 *)
Write(n) ==
    /\ step = "idle" /\ ~closed
    /\ pos + n <= MaxLen
    /\ fr.pledged = NoPledge \/ pos + n <= fr.pledged
    /\ pos' = pos + n /\ feed' = n /\ step' = "stage"
    /\ UNCHANGED <<frameVars, headVars, emitted, tail, output, outRead, blocks, closed,
                   delivered, flushed>>

PledgeMet == fr.pledged = pos

(* One staging round: up to the limit, where the head is examined and the    *)
(* full blocks drain, unless the closing pass is to own them.                *)
Stage ==
    LET n == Less(Limit - Staged, feed)
        full == Staged + n = Limit
    IN
    /\ step = "stage" /\ feed > 0
    /\ feed' = feed - n
    /\ IF full
       THEN /\ probe' = FALSE /\ screen' = FALSE
            /\ reach' = IF probe THEN fr.head ELSE reach
            /\ arming' = IF screen /\ fr.head = "wide" THEN "screened" ELSE arming
       ELSE UNCHANGED headVars
    /\ step' = IF full /\ ~(feed' = 0 /\ PledgeMet) THEN "drain" ELSE "close"
    /\ NoBlock
    /\ UNCHANGED <<frameVars, pos, outRead, closed, delivered, flushed>>

(* drain_full_blocks.                                                      *)
DrainFull ==
    /\ step = "drain"
    /\ IF Staged >= BlockSize THEN EncodeBlock(FALSE) /\ UNCHANGED step
                              ELSE NoBlock /\ step' = "close"
    /\ UNCHANGED <<frameVars, headVars, pos, feed, outRead, closed, delivered, flushed>>

(* The closing pass of a met pledge: the final full block is marked last.    *)
Close ==
    /\ step = "close"
    /\ IF PledgeMet /\ Staged >= BlockSize
       THEN LET last == NextBlockLen >= Staged
            IN  /\ EncodeBlock(last) /\ (last => feed = 0)
                /\ step' = IF last THEN "closing" ELSE "close"
       ELSE NoBlock /\ step' = IF feed > 0 THEN "stage" ELSE "idle"
    /\ UNCHANGED <<frameVars, headVars, pos, feed, outRead, closed, delivered, flushed>>

Closing ==
    /\ step = "closing"
    /\ tail' = TailClosed /\ step' = "idle"
    /\ UNCHANGED <<frameVars, headVars, pos, feed, emitted, output, outRead, blocks, closed,
                   delivered, flushed>>

-----------------------------------------------------------------------------
(* finish: the full blocks, then the closing shape.  A head that was never    *)
(* staged keeps the empty closing block.                                    *)

(* Mutant of Patchable: the header may have left.                           *)
PatchableDelivered == tail.at = "open" /\ Staged = 0 /\ blocks > 0 /\ tail.off <= Len(output)

Patchable ==
    /\ tail.at = "open" /\ Staged = 0 /\ blocks > 0
    /\ tail.off <= Len(output) /\ tail.off > outRead

Finish ==
    /\ step = "idle" /\ ~closed
    /\ fr.pledged \in {NoPledge, pos}
    /\ probe' = FALSE /\ screen' = FALSE
    /\ step' = IF probe \/ screen THEN "finish head" ELSE "finish"
    /\ NoBlock
    /\ UNCHANGED <<frameVars, arming, reach, pos, feed, outRead, closed, delivered, flushed>>

FinishBlocks ==
    /\ step \in {"finish", "finish head"}
    /\ IF Staged >= BlockSize THEN EncodeBlock(FALSE) /\ UNCHANGED <<step, closed>>
       ELSE /\ IF tail.at = "closed" THEN NoBlock
               ELSE IF Patchable /\ step = "finish"
               THEN /\ output' = [output EXCEPT ![tail.off].last = TRUE]
                    /\ UNCHANGED <<tail, emitted, blocks>>
               ELSE EncodeBlock(TRUE)
            /\ step' = "sum" /\ UNCHANGED closed
    /\ UNCHANGED <<frameVars, headVars, pos, feed, outRead, delivered, flushed>>

Checksum ==
    /\ step = "sum"
    /\ output' = IF fr.checksum THEN Append(output, SumCell) ELSE output
    /\ closed' = TRUE /\ step' = "idle"
    /\ UNCHANGED <<frameVars, headVars, pos, feed, emitted, tail, blocks, outRead, delivered, flushed>>

(* flush_block: the staged bytes leave as blocks that are not the last.      *)
Flush ==
    /\ step = "idle" /\ ~closed
    /\ probe' = FALSE /\ screen' = FALSE
    /\ step' = "flush" /\ flushed' = TRUE
    /\ NoBlock
    /\ UNCHANGED <<frameVars, arming, reach, pos, feed, outRead, closed, delivered>>

FlushBlocks ==
    /\ step = "flush"
    /\ IF Staged > 0 THEN EncodeBlock(FALSE) /\ UNCHANGED step
                     ELSE NoBlock /\ step' = "idle"
    /\ UNCHANGED <<frameVars, headVars, pos, feed, outRead, closed, delivered, flushed>>

(* split_output, write_output_to over a writer that may fail part way: what   *)
(* was taken is gone, the rest stays.                                       *)
Consume(n) ==
    /\ step = "idle" /\ n > 0 /\ n <= Len(output) - outRead
    /\ delivered' = delivered \o SubSeq(output, outRead + 1, outRead + n)
    /\ IF outRead + n = Len(output) THEN output' = <<>> /\ outRead' = 0
                                    ELSE outRead' = outRead + n /\ UNCHANGED output
    /\ UNCHANGED <<frameVars, headVars, pos, emitted, feed, tail, blocks, closed, step, flushed>>

Next ==
    \/ \E f \in StreamFrames : Configure(f)
    \/ \E n \in 1 .. MaxLen : Write(n)
    \/ Stage \/ DrainFull \/ Close \/ Closing
    \/ Finish \/ FinishBlocks \/ Checksum \/ Flush \/ FlushBlocks
    \/ \E n \in {1, Len(output) - outRead} : Consume(n)

Spec == Init /\ [][Next]_coreVars

-----------------------------------------------------------------------------
(* Properties.                                                             *)
Made == delivered \o SubSeq(output, outRead + 1, Len(output))
BlocksMade == SelectSeq(Made, LAMBDA c : c.cell = "block")

(* Where the grid of this frame's blocks ends: a full window is cut where     *)
(* the bytes say, and what is left is the last block.                        *)
OnGrid(from, n) == IF pos - from < BlockSize THEN n = pos - from ELSE n = fr.cut[from]

(* The frame is whole whatever the writes, the flushes and the consumer's     *)
(* pace: one header, then blocks that cover the input in order, the last one   *)
(* and no other marked as the last once the frame is finished, also when the   *)
(* mark was set in place; then the checksum of it all.                       *)
FrameWhole ==
    step = "idle" =>
        LET b == BlocksMade
        IN  /\ Made # <<>> => Made[1].cell = "frame"
            /\ \A i \in DOMAIN b : b[i].from = IF i = 1 THEN 0 ELSE b[i - 1].from + b[i - 1].n
            /\ \A i \in DOMAIN b : b[i].last => i = Len(b) /\ emitted = pos
            /\ closed => /\ b # <<>> /\ b[Len(b)].last /\ b[Len(b)].from + b[Len(b)].n = pos
                         /\ fr.checksum => Made[Len(Made)] = [cell |-> "sum", of |-> pos]

(* Without a flush the blocks are those of the bytes alone, however they came *)
(* in; a pledged frame ends with a block of its input, whatever the consumer  *)
(* has taken; so does any other whose output stayed; and what the header says *)
(* is this frame's, not what the pooled core did before.                     *)
ShapeOfBytes ==
    step = "idle" /\ closed /\ ~flushed =>
        LET b == BlocksMade
            n == Len(b)
        IN  /\ \A i \in 1 .. n - 1 : OnGrid(b[i].from, b[i].n)
            /\ b[n].n = 0 \/ OnGrid(b[n].from, b[n].n)
            /\ fr.pledged = pos /\ pos > 0 => b[n].n > 0
            /\ delivered = <<>> /\ pos > 0 /\ (fr.head = "none" \/ pos >= HeadSpan) => b[n].n > 0
            /\ Made[1] = [cell   |-> "frame",
                          arming |-> IF fr.head = "wide" /\ pos >= HeadSpan THEN "screened" ELSE "frame",
                          reach  |-> IF fr.head = "shrink" /\ pos >= HeadSpan THEN "shrink" ELSE "keep"]
=============================================================================
