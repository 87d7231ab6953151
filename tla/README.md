# Verification of zstdx

TLA+ models of zstdx (`src/crates`), TLC runs on small instances and TLAPS
proofs for all instances. Paths below are relative to `crates/zstdx/src`
unless they say otherwise.

## 1. Inventory

zstdx is a compressor and decompressor for Zstandard: the library (`zstdx`),
a command line (`zstdx-cli`) and a C API (`zstdx-ffi`). Half of its logic
spreads a (de)compression over threads while it hands out raw pointers into
the caller's buffers; the other half are long-lived sequential machines
(sessions, streams, pooled matchers) whose errors show after many legal calls.

| component | source | state | operations | meets |
|---|---|---|---|---|
| two-stage decode pipeline | `decoding/mt.rs` | `StageAJob`: claim counter, slots, consumed counters, abort flag, poison, one condvar | worker: claim, back-pressure sleep, stage, fill, notify; caller: take in order, execute, abort, join | pool (leases), frame lanes |
| frame lanes | `decoding/mt_frames.rs` | `LaneJob` per lane, published sizes, outcomes | base from sizes, take, execute, record; collect, resolve | pipeline, pool, lane budget |
| lane budget | `decoding/lane_budget.rs` | none | walk over lane counts, consecutive and LPT packing | frame lanes |
| decoder thread pool | `decoding/mt_pool.rs` | slots; per slot state, condvar, thread | lease, assign, leave, repark, idle retirement, spawn failure, death | every parallel decode |
| checksum sidecar | `encoding/async_checksum.rs` | SPSC ring, park mutex, per-frame hash states | post, finish, drain; worker loop | slice encoder |
| segment planner | `decoding/mt.rs` | none | scan headers, restart points, cut segments | pipeline |
| piece executor | `decoding/mt_pieces.rs` | staged prefix, grids, validations, executed prefix | stage, validate, settle, execute behind a watermark, absorb | - |
| streaming MT encoder | `stream/encoder_mt.rs` | buffer, job grid, queue, pending jobs, poison | write, read, own, post, assemble, flush, finish, drop | encoder pool |
| bulk MT encoder | `encoding/mt.rs` | job claims, LDM feed, prefix snapshots | claim, build, adopt, assemble | - |
| window buffers | `decoding/ringbuffer.rs`, `flat_buffer.rs` | head, tail, generations | extend, copy, drain, wrap | sequential decoder |
| sequential decoder | `decoding/frame_decoder.rs` | frame, block and checksum state | decode by strategy, collect, hunt for the next frame | windows, adapters |
| entropy coding | `fse`, `huff0`, `bit_io`, `blocks` | tables carried from block to block | normalise, describe, code, decode | block encoder |
| match finders | `encoding/match_generator` | pooled tables in moving coordinates, repeated offsets | reset, fill, scan, emit, raw fallback | block encoder |
| adapters | `stream`, `encoding/streaming_encoder.rs` | staged input, open block, sink position | write, read, flush, finish, retry | sessions |
| C API | `zstdx-ffi/src` | contexts, dictionaries, stream stages | `ZSTD_decompressStream`, `ZSTD_compressStream2`, setters | engine |
| command line | `zstdx-cli/src/main.rs` | the file system | names, consent, partial output, `--rm` | library |

What is hard, and what makes each correct:

* **Pipeline, lanes, pieces.** Workers run ahead of, or out of, stream order
  over borrowed memory. The outcome must be the sequential decoder's, every
  byte must land where that decoder puts it, staging is bounded, no wakeup is
  lost with a panic anywhere, no worker outlives the call.
* **Pool.** Slots are recycled while earlier callers may still look at them;
  threads time out, are refused, die. A lease lands only on a live thread that
  nobody else has; waiting for a slot is a join.
* **Checksum sidecar.** Posting races with parking, nested frames share a ring.
  The sum is the inline one; a frame's bytes outlive its tasks.
* **Encoders.** Frozen views of a buffer that wraps and grows; shared snapshots
  with a builder that may fail. The frame must not depend on the schedule or on
  how the input is chunked; a worker's panic must surface.
* **Windows, sessions, streams.** Index arithmetic at a wrap; a checksum that
  arrives late; a sink that takes less than offered; a dictionary set between
  two frames. What is served is the decoded bytes, once and in order.
* **Codecs, finders, planner.** Both sides must keep the same tables and
  offsets across raw fallbacks, resets and epoch rolls.
* **Command line.** No input is removed before its output is complete.

`PROJECT.json` lists the hazards, each at its line.

## 2. Modules

| module | models |
|---|---|
| `StageA` | `StageAJob` and `serve_stagea`, shared by the next three |
| `SeqDecode` | abstract: decode the segments one after another |
| `MtDecode` | `decode_parallel` and `LeaseOut`; implements `SeqDecode` |
| `MtFrames` | `mt_frames.rs` |
| `LanePacking`, `LaneBudget` | the packings as operators, `plan` as a walk |
| `DecPool` | `mt_pool.rs` |
| `AsyncChecksum` | `async_checksum.rs` |
| `Pieces` | `mt_pieces.rs` |
| `SegmentPlan` | `scan` as a function of the parsed headers |
| `StreamGrid`, `StreamMt` | `stream/encoder_mt.rs`: the job grid, the encoder |
| `BulkGrid`, `BulkMt` | `encoding/mt.rs`: the layout of a frame, the executor |
| `RingWindow`, `FlatWindow` | the two decode windows |
| `FrameSession`, `FrameHunt` | a decoder over one frame after another; finding the next frame |
| `BlockCommit`, `BitStream`, `FseCodec`, `HuffCodec`, `LiteralsCodec` | tables and repcodes after every block; bit I/O; the entropy coders, both ways |
| `MatchFinder` | the fast and the chain row over a pooled matcher |
| `StreamCore`, `PushDecode` | the streaming encoder's core, the push decoder |
| `DStream`, `CStream` | the C API's two streaming calls |
| `CliFiles` | the fate of files over a command |
| `ParallelInputs`, `MC*` | inputs, constants and the composed runs |
| `*Proofs`, `NaturalLemmas` | theorems |

### How state and actions correspond to the code

**StageA / MtDecode.** A worker's `wpc` follows one iteration of
`serve_stagea`: `CheckStop`, `Claim` (the `fetch_add`), `Gate` (the
back-pressure loop; its sleep is timed, so being woken or not makes no
difference and the loop is one guarded step), `Stage` (`decode_segment` under
`catch_unwind`, then publication of size or poison), `Fill`, `Notify`. What
staging and execution do is a function of the input: `staging[s]` and `exec[s]`
are chosen in `Init` among ok, error and panic. The caller's `WaitStaged` holds
the slot's mutex from check to sleep and a fill takes the same mutex, so the
two are one step. `DropGuard` and `Join` are `LeaseOut::drop`.

**MtFrames.** The same workers, with sizes published (`LaneMode`). Lane 0 is
the calling thread. `AddPredecessor` reads one published size; `FindUnstaged`
and `Sleep` are two steps, because poison and abort are not written under the
slot's mutex that the lane holds between them. `Pos[s]` is the summed size of
the segments before `s`. In `Deferred` mode (a growing `Vec`) lanes start when
every size is published.

**DecPool.** One action per critical section. A slot identity may be reused
when no thread, pool entry or decode refers to it. `MachineryPanics` may happen
while serving. The leased job is opaque here.

**AsyncChecksum.** `Claim`, `Store`, `Publish`, `Notify` are the parts of
`post`; `Publish` needs the wake mutex, which the worker holds from `TakeWake`
to `Wait`. The worker may park whenever it finds nothing (the spin budget). A
hash state is the sequence of the blocks it has absorbed. `posted` and `sum`
record history.

**Pieces.** One mutex guards the whole state: an action is a critical section.
What is a function of the frame (block table, each piece's standalone walk) is
laid out once by `Laid`. `StageDone` and `ValidateDone` are the second halves
of `run_stage` and `run_validate`, after the lock is taken again; `Settle` is
`try_settle`; the gate of `run_exec` compares the watermark with the piece's
measured top.

**BulkMt.** Threads claim jobs from a counter; `history` is what the wait for a
snapshot or for the feed returned; one condition variable serves every wait,
each under its own mutex, so a check of poison and the sleep after it are two
steps (`holdShare`, `holdSlot`). A job's bytes are a function of the frame and
of the history it was given. `Layout` of `BulkGrid` is `compress_slice_mt` up
to the scope.

**StreamMt.** The caller is one thread that makes a sequence of calls; `op` is
the call, `pc` the place in it. A step ends where the code reads or writes
something a worker shares. `ret` is where a nested call returns to. The queue
is the jobs after `claimed`, `pending` those after `assembled`. `moves` counts
how often the buffer's bytes have moved or been given back; a job remembers the
count at its post. The pool is reduced to its leases.

**RingWindow, FlatWindow.** A byte is its absolute stream position; cursors,
growth, wrap thresholds, overshoot and dictionary prefill are the code's.
`MCParts` extends these two, `CStream` and `FrameSession`, so that its run checks the very
definitions `SerialProofs` proves; it instances the others.

**FrameSession, FrameHunt, PushDecode, StreamCore.** Blocks are sizes with an
outcome; calls come in any order with any small buffer. What is served, staged
and pending is kept as counts of positions.

**BlockCommit and the codecs.** `BlockCommit` keeps which table and repeated
offsets each side holds. `BitStream`, `FseCodec`, `HuffCodec` and
`LiteralsCodec` are functions, translated with their widths scaled, checked
against each other: what one side writes the other reads.

**MatchFinder.** Histories of bytes, tables of positions in moving
coordinates, `Inserted` for entries whose key the model does not track; prices
are a free choice. Every emitted match is compared with the bytes it covers.

**DStream, CStream.** One call is one pass through the stages of the C
function; contexts keep their dictionaries, pledges and hints between calls.

**CliFiles.** The directory and contents of files over one command, with a
crash possible after every step.

## 3. Runs

Components that share no state share a run: a variable (`form`, `part`) says
which of them a behaviour is about, the others stand still in one state. The
state spaces add up instead of multiplying, and each property is guarded by the
part it is about.

| run | instance | shows |
|---|---|---|
| `FrameLanes` | `MtDecode`: 2 workers, 4 segments, window 2, at most 2 bad stagings and 1 bad execution. `MtFrames`, slice and growing: 1 worker, 4 segments in 3 frames, 2 consecutive lanes, at most 2 things wrong | refinement of `SeqDecode`, bounded staging, joins; output in place, serial precedence, nothing beyond the placed bound; calls return |
| `StreamMt` | 2 workers; a pledge of 3 or none; up to 11 units by writes of 3 and 8, by reads, or owned sources of 4 or 11; one panic or refused thread | no byte moves under a job, jobs independent of chunking, whole frames, flush visibility, calls return |
| `Threads` | pool: 2 decodes wanting 2 and 1 workers, 2 slots, depth 1. Sidecar: 2 frames, ring of 2, 2 blocks each. `BulkMt`: 2 workers, 17 frames, one of each long-distance class. `Pieces`: 2 workers, 10 frames of 3 segments, two grids | no stolen wakeup, join, exact sums, no dangling task, frames independent of the schedule, reads only of final bytes, verdict of the round form, serial outcome, calls return, idle threads retire |
| `Parts` | the sequential components, inputs in `MCParts` | windows serve the decoded bytes, sessions and streams are faithful, coded blocks decode, matches reproduce, files survive, layouts and plans are sound |
| `LptOverlap`, `LaneFailureHang`, `DrainPanicHang`, `BulkBuildHang`, `TrailingBytes`, `EmptyLastBlock`, `SeedShift`, `RawGate` | see Findings | the violations |

Bounds and why they are enough. Pipeline: with a window of 2 the fourth segment
is beyond the window of the first, so the back-pressure sleep happens, and two
workers can claim, overtake and panic against each other. Lanes: a lane with two
frames, a lane that waits for two predecessors, as many segments as needed to
exceed the window. Pool: depth 1 makes the pool both empty and full; two slots
allow recycling between decodes and a refused spawn. Sidecar: a ring of two is
full with two posts, its indices wrap three times. `StreamMt`: jobs of 2 and
then 3 units, so that 11 units are two epochs and a tail, the buffer wraps, grows
and reaches its cap, and a write may end in the middle of an epoch; after a panic
the user only finishes or drops, as `AutoFinishEncoder` does. `BulkMt`: four to
six jobs, the snapshot before, at and behind each boundary, each kind of panic.
`Pieces`: 12 units pledged give grids of four and two pieces; the frames make
either win, or neither, and put a failure in every phase. Flat and ring windows:
every wrap and growth threshold is crossed by at most 16 bytes. The other bounds
(`MaxCalls`, `MaxFrames`, `MaxSets`, `MaxJobs`, `MaxWrong`, `MaxFaults`, ...) are
named where they are declared. `CHECK_DEADLOCK FALSE` where the system ends.

Fairness. Every thread that can step does (`WF` per worker, lane and caller):
threads are scheduled and a timed sleep ends. Nobody has to begin a call, and no
run counts on a spurious wakeup. In `AsyncChecksum` the producer's steps are
strongly fair: a mutex that is free again and again is acquired. In `DecPool` and
`StreamMt` a job ends. In `Pieces` staging or walking a piece ends
(`[]<>(pc[t] \notin {"stage", "validate"})`): the second half of each is one step
that is enabled as long as it has not been taken. `CallsReturn` and
`EveryCallReturns` except exactly the states of the findings (`MayStall`,
`Abandoned`, `LostWake`).

## 4. Proofs

Every theorem holds for all values of the constants, under the named
assumptions on them only, which TLC evaluates on every run. Each inductive
invariant was model-checked on the instance of its run before it was proved.

**`MtDecodeProofs`** (every set of workers, number of segments, window): types,
`BorrowsOutlived`, `StagedWindow`, `SentinelHidden`, `StagedOnce`, and that
`MtDecode` implements `SeqDecode` (safety). The invariant adds to the properties
what they do not say: everything before the consumer is claimed and executed
(`Order`); an active worker's segment is claimed, unconsumed, unfilled and no one
else's (`Claims`); what a filled slot says is what the segment does (`Filled`);
poison is set before the sentinel is visible (`Payload`); the pending result
describes the segment the consumer stopped at (`Outcome`). Without `Order` and
`Claims` neither the window nor single staging is inductive: both depend on
claims being handed out in order. Every step then maps to `Execute`, `Fail`,
`Complete`, `Unwind` or a stutter.

**`MtFramesProofs`** (every number of segments, frames, lanes and workers, in
place or deferred): output in place, serial outcome, joins, no sentinel returned,
nothing beyond the placed bound. The hypothesis `ConsecutiveLanes` says that a
lane's frames follow one another and lanes are in stream order. It is what
`group_consecutive` produces (theorem `ConsecutivePacking`) and what `group_lpt`
breaks: without it the theorem is false, which is the first finding. `LanesInv`
relates a lane's position to the summed published sizes (`Counted`, `Placed`), a
recorded outcome to the first of the lane's segments that goes wrong (`Told`,
`Settled`), and the call's phase to who is still running (`Control`, `Running`).
`MtDecodeProofs` carries the theorems over to the three forms of `MCFrameLanes`.

**`ThreadsProofs`** (the pool; every set of slots and decodes, every depth): `AssignsParked`,
`WakeNotStolen`, `LeaseOutlived`, `NoOrphan`. Pooled slots and slots in a decode's
hand are parked with a live thread (`PoolInv`, `HandInv`), the place of a thread
determines its slot's state (`ThreadInv`), a lease is held by a decode that still
has the slot to wait for (`LeaseInv`), a sleeping caller is served or about to be
notified (`SleepInv`).

**`BulkMtProofs`** (every set of workers, frame and layout constant):
`ScheduleFree`. Part one is about the layout: `CeilDivCovers` makes the jobs cover
the input with none empty, and a plan of shared history is never armed beside the
feed or the deep band (`LayoutCovers`). Part two is `BulkInv`. `ScheduleFree` speaks
of what has been appended, so the invariant follows the bytes back: the appended
slots (`Appended`) to the filled ones (`Filled`), these to the job's one worker
(`Claimed`: two workers never have the same job, nothing above the counter is
filled) and to the history it encodes behind (`Started`), whichever of the three
waits it came from (`HistoryObtained`: the feed's span is final once the feed has
passed the job, the newest snapshot at or below a start never reaches beyond it,
the whole build has one boundary). `Donated` keeps job zero's span for job zero, and
`Poison` says that whoever gives up has seen a poison, without which an empty slot
could be returned. `ThreadsProofs` carries the theorem over to `MCThreads`, whose
encoder is the instance of `BulkMtProofs`.

**`ThreadsProofs`** (the sidecar; every set of frames, ring size and number of blocks):
`SumIsInline`, `BlocksOutlived`. A task is known by its place in `posted`: the
ring holds the stretch the worker has not completed (`InRing`), a frame's tasks
are posted reset, blocks, finish (`Ordered`, `Posting`), and a hash state is what
the tasks before the worker left (`Absorbed`). That no pointer dangles follows
from `Finishing` and `Upto`: a handle goes only when nothing of it is pending.

**`PiecesProofs`** (every set of workers, frame, job formula, lag and slack):
`ReadsFinal`, `VerdictIsRound`, `OutcomeIsSerial`. A first part is about the input:
the pieces of a grid tile the pledge (`PieceAt`, `InsideIs`), and a standalone walk
that passes resolves every match as in-order execution does (`ReadsAre`), because
whatever it takes from the sentinel history lies beyond any position; hence a frame
whose staged output fills the pledge and whose pieces all walk and execute executes
serially (`FrameFacts`). `PiecesInv` then has: a segment is staged when it is claimed
and nobody is busy with it (`StagingInv`); no two threads have the same segment or
piece (`Alone`); a living grid is cut to the contiguous prefix and its walked pieces
are recorded, a dead one is unusable, or the staged output is not the pledge, or a
segment failed (`GridInv`); a winner has all its pieces recorded and no living grid
below it (`WinnerInv`). `GridInv` is what makes the fused verdict equal the round
form's: a grid dies only for a reason the round form would find too. `VerdictInv`
keeps the winner from the moment everything is staged (before that it may still be
withdrawn), `ExecInv` keeps the executed prefix at or above what each running piece
reads, and `FaultInv` and `OutcomeInv` give every result its cause. `ThreadsProofs`
carries the theorems over to `MCThreads`, whose executor is the instance of
`PiecesProofs`.

**`StreamMtProofs`** (every size, overlap, pledge, chunking, source and number of
workers): `BufferServes`, `FrameWhole`, `ChunkingIndependent` and the action property
`FlushVisible`.
`StreamInv` has the buffer's arithmetic (`Buffer`, `Planned`), the call stack
(`Control`), the pool and what each worker serves (`Pool`, `Serving`), the count
of incomplete jobs as the jobs not yet counted off (`Counting`), the views of the
posted jobs (`Viewed`), panics (`Poison`), and the jobs as a chain of adjacent
ranges that ends in exactly one last job (`Chain`, `Closed`, `Marked`).
`ChunkingIndependent` needs one part more, `Gridded`: the ends of the posted jobs are
the points of the grid up to the start of the open job while the stream is open, and
the cuts of the whole input once it is closed. A write that fills a job cuts at the
next point of the grid, whatever was written before (`WholeCut`, `AtGrid`, `NextCut`);
`finish` cuts what is left (`RestCut`); every other step leaves the ends alone
(`Unmoved`). The grid's
recursive functions (epochs, walk) are proved about through `NaturalLemmas`: the
iterates of a step on the naturals exist, are unique and satisfy the recursion,
and induction is over a set, not an operator.

**`SerialProofs`** (four components that run on one thread).
The flat window, for every window, block and dictionary size: `WindowServed`,
`NeverStuck`. `FlatInv` has the bytes of the generation in the buffer (`Filled`) and how
the generation before ends where this one begins, intact above what this one's
unchecked copies have reached (`Chained`).
The ring, for every window, dictionary, copy width and slack: `ServesOutput`,
`CursorsInBounds`. `Holds` says that the checksum has
absorbed the first bytes of the output and that the i-th byte behind the head is the
i-th after them; each ring operation has a lemma that says what it keeps (`Reserve`,
`Extend`, `Copy` with its overshoot into free bytes, `DropFirst`). A repeat that
overlaps itself is copied in chunks that double, and `ServesOutput` is not inductive
between two of them: the invariant `RingInv` adds that what is still to come repeats
what lies one chunk behind (`Periodic`), that the source begins in the data and that
the room for the rest was reserved (`Copying`).
The C API's compression context, for every feed, room and order of setters:
`FrameTerms`. `CStreamInv` adds that the slots are what was asked for last and that
a prefix is marked to serve once (`SlotsAsAsked`), and that only a frame whose input
met the pledge is closed, and only a closed one whose output is gone is finished
(`ClosedWhole`).
A decoder's session over one frame, for every frame, window and target:
`SessionFaithful`. `SessionInv` has the decoder's counters in order whatever failed
(`Carries`: what was made is the content of the decoded blocks, the hash has seen
what was made or what was delivered), ties the caller's place to the decoded blocks
(`Sound`) and an error to its cause (`Caused`). The hypothesis `NothingLikeABlock`
says that no frame with a checksum is followed by what reads as an empty raw block:
`LateSum` parses what follows a late checksum, which is the finding of
`TrailingBytes`, and over such bytes the place no longer is the frame's.

Only model-checked: liveness and everything about `ENABLED`;
the sequential components other than the flat window, the ring, the session and the
compression context: run `Parts` checks them on the instances above. Functions over data (the
codecs, the planner, the layouts) are checked against a reference for every input of
the run: induction over data is out of the prover's reach where the definition does
not iterate over the naturals, and the invariants of the components that carry such
data along (the hunt for frames, the core frame encoder, the push decoder, the match
finder, the C API's decompression context) rest on those functions.

## 5. Findings

Each is a run that TLC must find violated; `PROJECT.json` has the lines it
contradicts.

* **`LptOverlap`** (`decoding/mt_frames.rs:256`). A lane writes its frames one
  behind the other from the base of its first, which is right only if they are
  consecutive in the stream; `group_lpt` does not keep that. Weights 4, 10, 3 on
  two lanes give {0, 2} and {1}: frame 2 is written over frame 1's range,
  concurrently. If the overlap happens not to matter, the lengths recorded from
  the starts still fail `verify_frame_content_sizes` on a valid stream.
* **`LaneFailureHang`** (`decoding/mt_frames.rs:278`). A lane that fails stops
  executing without aborting the job; staging stalls behind the executed count
  and the other lanes wait for ever.
* **`DrainPanicHang`** (`stream/encoder_mt.rs:3417`). A worker panics while jobs
  are queued. The others claim nothing more, `drain_all` and `finish_step` wait
  for the queued jobs, and `wait_progress` returns at once because the payload is
  there: a flush or finish spins for ever. `resolve_probe` waits in the same way.
* **`BulkBuildHang`** (`encoding/mt.rs:1858`). A shared prefix build that finds no
  freeze publishes nothing, and the jobs that would adopt it never stop waiting.
* **`TrailingBytes`** (`decoding/frame_decoder.rs:894`). After a checksum that
  arrives in a later call, the bytes behind the frame are parsed as a block.
* **`EmptyLastBlock`** (`zstdx-ffi/src/dctx.rs:645`). A frame whose last block is
  empty and which has a checksum cannot be decoded through the C API.
* **`SeedShift`** (`match_generator/parse_chain.rs:265`). A repeated offset found
  one byte ahead and a longer seed match emit bytes that were never compared.
* **`RawGate`** (`match_generator/mod.rs:3602`). A block that is stored raw after
  three literal offsets leaves the gate on repeated offsets lowered.

Smaller observations met while modelling, without a run:

* Lanes: poison is not written under the mutex of the slot a lane waits on
  (`mt_frames.rs:320`), so its `notify_all` can fall between a lane's check (150)
  and its untimed sleep (153); `MayStall` excepts it. `BulkMt` has the same shape
  (`LostWake`): one condvar, several mutexes.
* Lane budget: the guard `lanes > 2` of the walk is redundant with its price tests
  on every instance; a dominant payload whose final layout is consecutive may be
  slower than the LPT packing the walk priced.
* Sidecar: `running` is never cleared, so every thread that compressed keeps a
  parked worker.
* Pieces: a block straddling a pledge that is too small makes `validate_piece`'s
  `debug_assert` panic on a corrupt frame in debug builds; a stage error in any
  segment wins over an execution error in an earlier one on this path.
* Errors: the serial pipeline reports a pledge mismatch before a checksum mismatch,
  the lanes the other way round.
* Stream encoder: after a panic has surfaced in a write, the finish in
  `AutoFinishEncoder`'s drop finds the payload gone and panics again; a reader that
  pulls on after `PledgedSizeMismatch` keeps buffering; `post_donation` says (1987)
  that a donation counts in `n_incomplete`, which 471 and 835 deny.
* Segment plan: the "within 1.5x of the target" snap uses `next_target / 2`, which
  grows with the absolute position; a restart that is itself the nearest boundary
  stays pending.
* Sessions: with a checksum pending and fewer than 4 bytes, a call returns `(0, 0)`
  without draining; `force_dict` after decoded flat blocks drops them;
  `DictNotProvided` in mid-hunt leaves the decoder reset onto the new frame.
* Blocks: `reinit` and the seed cache's `restore_into` keep
  `scratch.literals_gate_hold`, which `frame_compressor.rs:227-231` denies;
  `flush_block`'s "no-op when nothing is staged" cancels a pending probe.
* Match finder: the window-grid roll restarts the origin at 0 and not at "the
  fill's floor" (`mod.rs` 2571-2583); the epoch clears also drop the newest entries
  behind `pos`. Both cost ratio only.
* Push decoder: a sink that takes 0 at a frame boundary drops output; after a sink
  error a later flush returns Ok without offering what is pending; with a full flat
  buffer it spins; a retryable error surfaces after the input is staged, so
  `write_all` duplicates it.
* C API: the single-pass shortcut does not consume a use-once prefix;
  `reset_parameters` clears the slot without a new `dict_generation`; a window limit
  set on a live stream is not re-armed; `ZSTD_e_end` with untaken input and a full
  output closes the frame and a later call returns 0 (`cctx.rs:680`); a pledge set
  between frames is wiped.
* Command line: with `-f`, an alias of the input path is truncated
  (contradicts `main.rs:1411`); `--output-dir-flat` with `--rm -f` and equal
  basenames loses the first payload; existence is tested before creation.
* Codecs: the flat fallback of the normalisation was not reached by any histogram
  tried (it is checked directly).

## 6. Not modelled

Memory orderings (the models are sequentially consistent; flags read `Relaxed` are
re-read in loops or under mutexes), allocation failure, `cfg(test)` injections.
Staging buffer pool, encoder thread pool (a twin of the decoder's), dictionary
training, fuzz and bench crates. In the partly modelled components:
`StreamMt` leaves out what decides a frame's reach before its first post (probe and
donations, captures, LDM feed, prefix fill); `BulkMt` what a job encodes, pooled
kits, the incremental feed, a panic of the builder on the calling thread;
`MatchFinder` the dfast, row, binary-tree and optimal rows, long-distance segments,
the ramp gate, dictionary rows, price formulas; the codecs the sequences section's
coding and the vector and assembly kernels; `DStream` the no-progress guard and
junk; `CStream` parameter tables and one-shot calls; `CliFiles` option parsing,
listing, benchmarking.

## 7. Plan

The plan is carried out. What is left to a run alone, and why, is said at the end of
section 4; the parts of the code no module covers are in section 6.
