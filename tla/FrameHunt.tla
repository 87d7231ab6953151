------------------------------- MODULE FrameHunt -------------------------------
(***************************************************************************)
(* The search for the next frame of a stream (decoding/frame_source.rs)     *)
(* under the two reading decoders (decoding/streaming_decoder.rs,           *)
(* stream/read.rs): peek a magic number, skip skippable frames, parse the    *)
(* header, over a source that gives any part of what is asked for, fails     *)
(* now and then, and ends anywhere.  A hunt that failed is tried again by    *)
(* the next read, from the bytes it staged.                                 *)
(*                                                                         *)
(* A byte is its position in the stream.                                   *)
(***************************************************************************)
EXTENDS Integers, Sequences, SequencesExt

CONSTANTS
    MagicLen, SkipSizeLen, MaxHeaderLen,
    Trash,        \* the piece discard_skippable reads at a time
    Streams       \* the streams explored: see StreamOK

(* An item is a data frame, a skippable frame or what is neither; its fields *)
(* are the lengths its parser asks for after the magic, its body follows.    *)
Items == [kind : {"frame", "skip", "junk"}, fields : Seq(Nat \ {0}), body : Nat]
HeadLen(item) == MagicLen + FoldLeft(+, 0, item.fields)
StreamOK(s) ==
    /\ s.items \in Seq(Items)
    /\ \A i \in DOMAIN s.items :
          /\ s.items[i].kind = "skip" => s.items[i].fields = <<SkipSizeLen>>
          /\ HeadLen(s.items[i]) <= MaxHeaderLen
    /\ s.have \in Nat /\ s.single \in BOOLEAN

FrameHuntAssumption ==
    /\ {MagicLen, SkipSizeLen, MaxHeaderLen, Trash} \subseteq Nat \ {0}
    /\ \A s \in Streams : StreamOK(s)

VARIABLES
    bytes,       \* the stream
    src,         \* the bytes the source has given
    staging,     \* NextFrameStaging
    pc,          \* where the hunt is, or who has the turn
    position,    \* StreamPosition
    skippedAny,
    hserved,     \* staged bytes served to the parser in this attempt
    got,         \* what the parser has read of the header
    headers,     \* the headers parsed
    verdict

huntVars == <<bytes, src, staging, pc, position, skippedAny, hserved, got, headers, verdict>>

StagingIdle == [mode |-> "idle", buf |-> <<>>, remaining |-> 0]
Staged(buf) == [mode |-> "header", buf |-> buf, remaining |-> 0]
SkipContent(n) == [mode |-> "skip", buf |-> <<>>, remaining |-> n]

ItemEnd(i) == FoldLeft(LAMBDA sum, item : sum + HeadLen(item) + item.body, 0, SubSeq(bytes.items, 1, i))
ItemStart(i) == ItemEnd(i - 1)
Positions(from, n) == [i \in 1 .. n |-> from + i - 1]

(* What a parser takes the bytes it has read for.                           *)
ReadAs(buf) ==
    LET at == {i \in DOMAIN bytes.items : buf = Positions(ItemStart(i), Len(buf))}
    IN  IF at = {} THEN [kind |-> "junk", fields |-> <<>>, body |-> 0]
                   ELSE bytes.items[CHOOSE i \in at : TRUE]

AtEnd == src = bytes.have
Given(want) == {n \in 1 .. want : src + n <= bytes.have}

Init ==
    /\ bytes \in Streams
    /\ src = 0 /\ staging = StagingIdle
    /\ pc = "new" /\ position = "start"
    /\ skippedAny = FALSE /\ hserved = 0 /\ got = <<>>
    /\ headers = <<>> /\ verdict = "none"

-----------------------------------------------------------------------------
(* start_frame: an attempt begins, fresh or on what the last one staged.     *)

Resume == IF staging.mode = "skip" THEN "discard" ELSE "peek"

Attempt ==
    /\ skippedAny' = FALSE /\ hserved' = 0 /\ got' = <<>>

init_first_frame ==
    /\ pc = "new"
    /\ staging' = StagingIdle /\ pc' = "peek"
    /\ Attempt
    /\ UNCHANGED <<bytes, src, position, headers, verdict>>

init_next_frame ==
    /\ pc = "boundary" /\ ~bytes.single
    /\ pc' = Resume
    /\ Attempt
    /\ UNCHANGED <<bytes, src, staging, position, headers, verdict>>

(* single_frame: the boundary is the end.                                   *)
StopAtFirst ==
    /\ pc = "boundary" /\ bytes.single
    /\ pc' = "over" /\ verdict' = "end"
    /\ UNCHANGED <<bytes, src, staging, position, skippedAny, hserved, got, headers>>

(* An error leaves the hunt; the reader's next call tries again, but a       *)
(* decoder that is still being built is gone.                               *)
Leave(error) ==
    /\ verdict' = error
    /\ pc' = IF position = "start" \/ error # "none" THEN "over" ELSE "boundary"
    /\ UNCHANGED <<bytes, src, staging, position, skippedAny, hserved, got, headers>>

(* The source fails: WouldBlock, say.                                       *)
Transient ==
    /\ pc \in {"peek", "size", "discard", "header"}
    /\ IF position = "start" THEN Leave("failed") ELSE Leave("none")

-----------------------------------------------------------------------------
(* peek_magic: the source gives some of the magic that is missing.           *)
Peek ==
    /\ pc = "peek" /\ Len(staging.buf) < MagicLen /\ ~AtEnd
    /\ \E n \in Given(MagicLen - Len(staging.buf)) :
          /\ staging' = Staged(staging.buf \o Positions(src, n))
          /\ src' = src + n
    /\ UNCHANGED <<bytes, pc, position, skippedAny, hserved, got, headers, verdict>>

PeekEnd ==
    /\ pc = "peek" /\ Len(staging.buf) < MagicLen /\ AtEnd
    /\ IF staging.buf # <<>> THEN Leave("truncated")
       ELSE /\ staging' = StagingIdle
            /\ pc' = "over"
            /\ verdict' = IF position = "start" /\ ~skippedAny THEN "empty" ELSE "end"
            /\ UNCHANGED <<bytes, src, position, skippedAny, hserved, got, headers>>

(* The magic decides: skip_skippable, or the header parser from the first    *)
(* staged byte.                                                            *)
Peeked ==
    /\ pc = "peek" /\ Len(staging.buf) >= MagicLen
    /\ IF ReadAs(SubSeq(staging.buf, 1, MagicLen)).kind = "skip"
       THEN pc' = "size" /\ hserved' = MagicLen
       ELSE pc' = "header" /\ UNCHANGED hserved
    /\ UNCHANGED <<bytes, src, staging, position, skippedAny, got, headers, verdict>>

(* PrefixedReader::read of up to `want` bytes: the staged ones first, and     *)
(* what the source gives is staged.  New is what the parser receives.        *)

(* Mutant of Pull: what is read past the magic is not staged.               *)
PullUnstaged(want, new) ==
    IF hserved < Len(staging.buf)
    THEN /\ new = SubSeq(staging.buf, hserved + 1, hserved + Len(new))
         /\ hserved' = hserved + Len(new)
         /\ UNCHANGED <<staging, src>>
    ELSE /\ Len(new) \in Given(want) /\ new = Positions(src, Len(new))
         /\ src' = src + Len(new)
         /\ hserved' = hserved + Len(new)
         /\ UNCHANGED staging

Pull(want, new) ==
    IF hserved < Len(staging.buf)
    THEN /\ new = SubSeq(staging.buf, hserved + 1, hserved + Len(new))
         /\ hserved' = hserved + Len(new)
         /\ UNCHANGED <<staging, src>>
    ELSE /\ Len(new) \in Given(want) /\ new = Positions(src, Len(new))
         /\ staging' = Staged(staging.buf \o new)
         /\ src' = src + Len(new)
         /\ hserved' = hserved + Len(new)

Pulled(want) ==
    IF hserved < Len(staging.buf)
    THEN {SubSeq(staging.buf, hserved + 1, hserved + n) :
             n \in {CHOOSE m \in {want, Len(staging.buf) - hserved} :
                       m <= want /\ m <= Len(staging.buf) - hserved}}
    ELSE {Positions(src, n) : n \in Given(want)}

(* The size field of a skippable frame, then its content.                    *)
Size ==
    LET have == hserved - MagicLen
    IN
    /\ pc = "size" /\ have < SkipSizeLen
    /\ \E new \in Pulled(SkipSizeLen - have) : Pull(SkipSizeLen - have, new)
    /\ UNCHANGED <<bytes, pc, position, skippedAny, got, headers, verdict>>

Sized ==
    /\ pc = "size" /\ hserved - MagicLen = SkipSizeLen
    /\ staging' = SkipContent(ReadAs(staging.buf).body)
    /\ pc' = "discard" /\ skippedAny' = TRUE
    /\ UNCHANGED <<bytes, src, position, hserved, got, headers, verdict>>

(* discard_skippable.                                                      *)
Discard ==
    /\ pc = "discard" /\ staging.remaining > 0
    /\ \E n \in Given(IF staging.remaining < Trash THEN staging.remaining ELSE Trash) :
          /\ src' = src + n
          /\ staging' = SkipContent(staging.remaining - n)
    /\ UNCHANGED <<bytes, pc, position, skippedAny, hserved, got, headers, verdict>>

Discarded ==
    /\ pc = "discard" /\ staging.remaining = 0
    /\ staging' = StagingIdle
    /\ pc' = "peek" /\ hserved' = 0
    /\ UNCHANGED <<bytes, src, position, skippedAny, got, headers, verdict>>

(* read_frame_header through the staging: the magic, then field by field,    *)
(* never past the one it is at.                                            *)
FieldEnds(item) == {MagicLen + FoldLeft(+, 0, SubSeq(item.fields, 1, k)) : k \in 0 .. Len(item.fields)}
Asked == LET ends == {e \in FieldEnds(ReadAs(got)) : e > Len(got)}
         IN  (CHOOSE e \in ends : \A d \in ends : e <= d) - Len(got)

Parses == Len(got) < MagicLen \/ (ReadAs(got).kind = "frame" /\ Len(got) < HeadLen(ReadAs(got)))
Wanted == IF Len(got) < MagicLen THEN MagicLen - Len(got) ELSE Asked

Header ==
    /\ pc = "header" /\ Parses
    /\ \E new \in Pulled(Wanted) : Pull(Wanted, new) /\ got' = got \o new
    /\ UNCHANGED <<bytes, pc, position, skippedAny, headers, verdict>>

(* The source ends inside a field.                                          *)
Short ==
    /\ \/ pc = "size" /\ hserved - MagicLen < SkipSizeLen /\ hserved >= Len(staging.buf)
       \/ pc = "discard" /\ staging.remaining > 0
       \/ pc = "header" /\ Parses /\ hserved >= Len(staging.buf)
    /\ AtEnd
    /\ Leave("truncated")

(* The decoder is reset onto the frame, and decodes its blocks; or rejects.  *)
Parsed ==
    /\ pc = "header" /\ ~Parses
    /\ IF ReadAs(got).kind # "frame" THEN Leave("bad")
       ELSE /\ headers' = Append(headers, got)
            /\ staging' = StagingIdle
            /\ IF src + ReadAs(got).body <= bytes.have
               THEN src' = src + ReadAs(got).body /\ pc' = "boundary" /\ UNCHANGED verdict
               ELSE src' = bytes.have /\ pc' = "over" /\ verdict' = "truncated"
            /\ position' = "after"
            /\ UNCHANGED <<bytes, skippedAny, hserved, got>>

Next ==
    \/ init_first_frame \/ init_next_frame \/ StopAtFirst \/ Transient
    \/ Peek \/ PeekEnd \/ Peeked \/ Size \/ Sized \/ Discard \/ Discarded
    \/ Header \/ Short \/ Parsed

Spec == Init /\ [][Next]_huntVars

-----------------------------------------------------------------------------
(* Properties.                                                             *)

Frames == {i \in DOMAIN bytes.items : bytes.items[i].kind = "frame"}
Junk == {i \in DOMAIN bytes.items : bytes.items[i].kind = "junk"}
StreamEnd == ItemEnd(Len(bytes.items))

(* However the source cuts its reads and wherever it fails: the headers       *)
(* parsed are those of the stream's data frames, in order and byte for byte;  *)
(* a hunt that left off stands inside one item, with every byte it took of    *)
(* its header staged or the rest of its content counted; the end is reported  *)
(* between items only, and an error only where the stream has one.         *)
HuntFaithful ==
    /\ \A k \in DOMAIN headers :
          \E i \in Frames : /\ headers[k] = Positions(ItemStart(i), HeadLen(bytes.items[i]))
                            /\ k = Len(SelectSeq(SubSeq(bytes.items, 1, i),
                                                 LAMBDA item : item.kind = "frame"))
    /\ pc = "boundary" =>
          \E i \in 0 .. Len(bytes.items) :
             \/ staging.mode # "skip" /\ src = ItemEnd(i) + Len(staging.buf)
                /\ staging.buf = Positions(ItemEnd(i), Len(staging.buf))
             \/ staging.mode = "skip" /\ i > 0 /\ src + staging.remaining = ItemEnd(i)
    /\ verdict = "end" => \E i \in 0 .. Len(bytes.items) :
          src = ItemEnd(i) /\ (bytes.single \/ src = bytes.have)
    /\ verdict = "empty" => bytes.have = 0
    /\ verdict = "truncated" => bytes.have < StreamEnd
    /\ verdict = "bad" => Junk # {}
=============================================================================
