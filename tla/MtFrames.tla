------------------------------ MODULE MtFrames ------------------------------
(***************************************************************************)
(* The frame-lane executor of a multi-frame decode (decoding/mt_frames.rs).*)
(*                                                                         *)
(* Stage A runs on its workers as in MtDecode.  The frames are packed into *)
(* lanes; lane 0 runs on the calling thread, the others on leased threads. *)
(* A lane sums the published sizes of every segment before its first one - *)
(* that is where its output begins -, then takes and executes its own      *)
(* segments in order and records one outcome.  The caller collects the     *)
(* outcomes, aborts, and waits for every lane and worker to leave.         *)
(***************************************************************************)
EXTENDS StageA

CONSTANTS
    Frames,     \* n_frames
    FrameOf,    \* FrameOf[s]: the frame of segment s, in scan order
    Lanes,      \* k_lanes
    LaneFrames, \* LaneFrames[l]: the frames the budget packs into lane l
    Pos,        \* Pos[s]: the summed output sizes of the segments before s
    Deferred    \* the output grows: staging completes before lanes start

Frame == 0 .. Frames - 1
Lane == 0 .. Lanes - 1

MtFramesAssumption ==
    /\ LaneMode = TRUE
    /\ Deferred \in BOOLEAN
    /\ Frames \in Nat \ {0, 1}
    /\ Lanes \in Nat \ {0, 1}
    /\ FrameOf \in [Seg -> Frame]
    /\ \A f \in Frame : \E s \in Seg : FrameOf[s] = f
    /\ \A s, t \in Seg : s <= t => FrameOf[s] <= FrameOf[t]
    /\ LaneFrames \in [Lane -> SUBSET Frame]
    /\ \A f \in Frame : \E l \in Lane : f \in LaneFrames[l]
    /\ \A k, l \in Lane : LaneFrames[k] \intersect LaneFrames[l] # {} => k = l
    /\ Pos \in [0 .. N -> Nat]
    /\ Pos[0] = 0
    /\ \A s \in Seg : Pos[s] <= Pos[s + 1]

(* group_consecutive's packing: a lane misses no frame between two of its  *)
(* own.                                                                    *)
ConsecutiveLanes ==
    \A l \in Lane : \A f, g \in LaneFrames[l] : \A h \in Frame :
        f <= h /\ h <= g => h \in LaneFrames[l]

Size(s) == Pos[s + 1] - Pos[s]
LaneSegs(l) == {s \in Seg : FrameOf[s] \in LaneFrames[l]}

(* The first segment of frame f, or N behind the last frame.               *)
FrameStart(f) ==
    CHOOSE s \in 0 .. N : /\ s < N => FrameOf[s] >= f
                          /\ \A t \in Seg : t < s <=> FrameOf[t] < f

(* segs.first().unwrap_or(0): a lane without frames starts at 0.           *)
First(l) ==
    IF LaneSegs(l) = {} THEN 0
    ELSE CHOOSE s \in LaneSegs(l) : \A t \in LaneSegs(l) : s <= t

Exec == {"ok", "err", "panic"}

VARIABLES
    exec,       \* exec[s]: what execute_segment does on segment s
    csumOk,     \* csumOk[f]: the checksum of frame f matches
    pledgeOk,   \* every pledged Frame_Content_Size is the frame's size
    lpc,        \* where each lane is in run_lane
    probe,      \* the predecessor whose published size the lane reads next
    next,       \* the lane has executed its segments below this one
    end,        \* the lane's base, then the end of what it has written
    wroteAt,    \* where each segment's output was written, or -1
    outcome,    \* each lane's result slot
    cpc,        \* where the calling thread is, lane 0 aside
    result      \* what the call returns

laneVars == <<lpc, probe, next, end, wroteAt, outcome>>
input == <<exec, csumOk, pledgeOk>>
vars == <<stageVars, input, laneVars, cpc, result>>

(* LaneOutcome; at is the failing segment, or the first frame of a finished*)
(* lane whose checksum mismatches (Frames: none).                          *)
Outcome == [kind : {"none", "done", "stage", "exec", "sentinel", "aborted"}, at : Nat]
NoOutcome == [kind |-> "none", at |-> 0]
Result == [kind : {"none", "ok", "stage", "exec", "checksum", "size", "sentinel", "panic"},
           at : Nat]

TypeOK ==
    /\ StageTypeOK
    /\ waiting \subseteq Lane
    /\ exec \in [Seg -> Exec]
    /\ csumOk \in [Frame -> BOOLEAN]
    /\ pledgeOk \in BOOLEAN
    /\ lpc \in [Lane -> {"unleased", "base", "take", "unstaged", "exec", "finish",
                         "poisoned", "recorded", "unwound", "left"}]
    /\ probe \in [Lane -> 0 .. N]
    /\ next \in [Lane -> 0 .. N]
    /\ end \in [Lane -> Nat]
    /\ wroteAt \in [Seg -> Nat \union {-1}]
    /\ outcome \in [Lane -> Outcome]
    /\ cpc \in {"resolve", "run", "drop", "joinLanes", "join", "done"}
    /\ result \in Result

Init ==
    /\ StageInit
    /\ exec \in [Seg -> Exec]
    /\ csumOk \in [Frame -> BOOLEAN]
    /\ pledgeOk \in BOOLEAN
    /\ lpc = [l \in Lane |-> "unleased"]
    /\ probe = [l \in Lane |-> 0]
    /\ next = [l \in Lane |-> 0]
    /\ end = [l \in Lane |-> 0]
    /\ wroteAt = [s \in Seg |-> -1]
    /\ outcome = [l \in Lane |-> NoOutcome]
    /\ cpc = "resolve"
    /\ result = [kind |-> "none", at |-> 0]

LaneGoto(l, p) == lpc' = [lpc EXCEPT ![l] = p]

(* record, the last thing a lane does unless it panicked.                  *)
Record(l, kind, at) ==
    /\ outcome' = [outcome EXCEPT ![l] = [kind |-> kind, at |-> at]]
    /\ LaneGoto(l, "left")

Remaining(l) == {s \in LaneSegs(l) : s >= next[l]}
Cur(l) == CHOOSE s \in Remaining(l) : \A t \in Remaining(l) : s <= t

-----------------------------------------------------------------------------
(* run_lane: the output base.                                              *)

(* Mutant of AddPredecessor: a lane adds up its predecessors' sizes while  *)
(* some are still unpublished.                                             *)
AddUnpublished(l) ==
    /\ lpc[l] = "base"
    /\ probe[l] < First(l)
    /\ published[probe[l]] # "err"
    /\ end' = [end EXCEPT ![l] = @ + IF published[probe[l]] = "size" THEN Size(probe[l]) ELSE 0]
    /\ probe' = [probe EXCEPT ![l] = @ + 1]
    /\ UNCHANGED <<stageVars, input, lpc, next, wroteAt, outcome, cpc, result>>

(* Mutant of AddPredecessor: a predecessor that failed staging is taken    *)
(* for an empty one.                                                       *)
AddFailed(l) ==
    /\ lpc[l] = "base"
    /\ probe[l] < First(l)
    /\ published[probe[l]] # "none"
    /\ end' = [end EXCEPT ![l] = @ + IF published[probe[l]] = "size" THEN Size(probe[l]) ELSE 0]
    /\ probe' = [probe EXCEPT ![l] = @ + 1]
    /\ UNCHANGED <<stageVars, input, lpc, next, wroteAt, outcome, cpc, result>>

AddPredecessor(l) ==
    /\ lpc[l] = "base"
    /\ probe[l] < First(l)
    /\ published[probe[l]] = "size"
    /\ end' = [end EXCEPT ![l] = @ + Size(probe[l])]
    /\ probe' = [probe EXCEPT ![l] = @ + 1]
    /\ UNCHANGED <<stageVars, input, lpc, next, wroteAt, outcome, cpc, result>>

(* A predecessor failed staging, or the decode stops.  The wait for an     *)
(* unpublished size is timed, so the lane polls.                           *)
BaseAborts(l) ==
    /\ lpc[l] = "base"
    /\ probe[l] < First(l)
    /\ \/ published[probe[l]] = "err"
       \/ published[probe[l]] = "none" /\ Stop
    /\ Record(l, "aborted", 0)
    /\ UNCHANGED <<stageVars, input, probe, next, end, wroteAt, cpc, result>>

BaseKnown(l) ==
    /\ lpc[l] = "base"
    /\ probe[l] = First(l)
    /\ LaneGoto(l, IF LaneSegs(l) = {} THEN "finish" ELSE "take")
    /\ UNCHANGED <<stageVars, input, probe, next, end, wroteAt, outcome, cpc, result>>

-----------------------------------------------------------------------------
(* run_lane: take_staged and execute.                                      *)

TakeStaged(l) ==
    /\ lpc[l] = "take"
    /\ l \notin waiting
    /\ slots[Cur(l)] # "none"
    /\ slots' = [slots EXCEPT ![Cur(l)] = "none"]
    /\ CASE slots[Cur(l)] = "ok" -> LaneGoto(l, "exec") /\ UNCHANGED outcome
         [] slots[Cur(l)] = "err" -> Record(l, "stage", Cur(l))
         [] slots[Cur(l)] = "sentinel" -> Record(l, "sentinel", Cur(l))
    /\ UNCHANGED <<staging, nextJob, executed, abort, poison, published, waiting, wpc, job,
                   input, probe, next, end, wroteAt, cpc, result>>

(* Nothing staged: poison and abort are read under the slot's mutex, which *)
(* the lane keeps ...                                                      *)
FindUnstaged(l) ==
    /\ lpc[l] = "take"
    /\ l \notin waiting
    /\ slots[Cur(l)] = "none"
    /\ IF Stop THEN Record(l, "aborted", 0) ELSE LaneGoto(l, "unstaged") /\ UNCHANGED outcome
    /\ UNCHANGED <<stageVars, input, probe, next, end, wroteAt, cpc, result>>

(* ... until it waits, without a timeout.                                  *)
Sleep(l) ==
    /\ lpc[l] = "unstaged"
    /\ waiting' = waiting \union {l}
    /\ LaneGoto(l, "take")
    /\ UNCHANGED <<staging, nextJob, executed, abort, poison, slots, published, wpc, job,
                   input, probe, next, end, wroteAt, outcome, cpc, result>>

(* The frame's base is the lane's end, so a segment lands there.           *)
ExecuteSegment(l) ==
    /\ lpc[l] = "exec"
    /\ exec[Cur(l)] = "ok"
    /\ wroteAt' = [wroteAt EXCEPT ![Cur(l)] = end[l]]
    /\ end' = [end EXCEPT ![l] = @ + Size(Cur(l))]
    /\ next' = [next EXCEPT ![l] = Cur(l) + 1]
    /\ executed' = executed + 1
    /\ waiting' = {}
    /\ LaneGoto(l, IF Remaining(l) = {Cur(l)} THEN "finish" ELSE "take")
    /\ UNCHANGED <<staging, nextJob, abort, poison, slots, published, wpc, job,
                   input, probe, outcome, cpc, result>>

ExecuteFails(l) ==
    /\ lpc[l] = "exec"
    /\ exec[Cur(l)] = "err"
    /\ Record(l, "exec", Cur(l))
    /\ UNCHANGED <<stageVars, input, probe, next, end, wroteAt, cpc, result>>

(* A panic on a pool lane poisons the job (serve_frame_lane); on the       *)
(* caller's lane it unwinds the caller.                                    *)
ExecutePanics(l) ==
    /\ lpc[l] = "exec"
    /\ exec[Cur(l)] = "panic"
    /\ IF l = 0
         THEN UNCHANGED poison /\ LaneGoto(l, "unwound")
         ELSE poison' = TRUE /\ LaneGoto(l, "poisoned")
    /\ UNCHANGED <<staging, nextJob, executed, abort, slots, published, waiting, wpc, job,
                   input, probe, next, end, wroteAt, outcome, cpc, result>>

RecordPanic(l) ==
    /\ lpc[l] = "poisoned"
    /\ outcome' = [outcome EXCEPT ![l] = [kind |-> "aborted", at |-> 0]]
    /\ LaneGoto(l, "recorded")
    /\ UNCHANGED <<stageVars, input, probe, next, end, wroteAt, cpc, result>>

NotifyPanic(l) ==
    /\ lpc[l] = "recorded"
    /\ waiting' = {}
    /\ LaneGoto(l, "left")
    /\ UNCHANGED <<staging, nextJob, executed, abort, poison, slots, published, wpc, job,
                   input, probe, next, end, wroteAt, outcome, cpc, result>>

(* The lane's first checksum mismatch, in frame order.                     *)
LaneChecksum(l) ==
    LET bad == {f \in LaneFrames[l] : ~csumOk[f]}
    IN IF bad = {} THEN Frames ELSE CHOOSE f \in bad : \A g \in bad : f <= g

FinishLane(l) ==
    /\ lpc[l] = "finish"
    /\ Record(l, "done", LaneChecksum(l))
    /\ UNCHANGED <<stageVars, input, probe, next, end, wroteAt, cpc, result>>

LaneStep(l) ==
    \/ AddPredecessor(l) \/ BaseAborts(l) \/ BaseKnown(l)
    \/ TakeStaged(l) \/ FindUnstaged(l) \/ Sleep(l)
    \/ ExecuteSegment(l) \/ ExecuteFails(l) \/ ExecutePanics(l)
    \/ RecordPanic(l) \/ NotifyPanic(l) \/ FinishLane(l)

-----------------------------------------------------------------------------
(* The calling thread: resolve, run, and the two guards.                   *)

(* A growing output is placed once every size is known, then the lanes are *)
(* leased.                                                                 *)
LeaseLanes ==
    /\ cpc = "resolve"
    /\ Deferred => \A s \in Seg : published[s] # "none"
    /\ lpc' = [l \in Lane |-> "base"]
    /\ cpc' = "run"
    /\ UNCHANGED <<stageVars, input, probe, next, end, wroteAt, outcome, result>>

ResolveStops ==
    /\ cpc = "resolve"
    /\ Deferred
    /\ Stop
    /\ \E s \in Seg : published[s] = "none"
    /\ result' = [kind |-> "sentinel", at |-> 0]
    /\ cpc' = "joinLanes"
    /\ UNCHANGED <<stageVars, input, laneVars>>

Failed == {l \in Lane : outcome[l].kind \in {"stage", "exec", "sentinel"}}

Written == CHOOSE e \in {end[l] : l \in Lane} : \A k \in Lane : end[k] <= e

(* verify_frame_content_sizes: a frame's output is the gap between its     *)
(* recorded start and the next frame's, or the end of all lanes.           *)
Verified ==
    /\ pledgeOk
    /\ \A f \in Frame :
           LET stop == IF f + 1 < Frames THEN wroteAt[FrameStart(f + 1)] ELSE Written
           IN stop - wroteAt[FrameStart(f)] = Pos[FrameStart(f + 1)] - Pos[FrameStart(f)]

(* Mutant of Collected: every failing lane overwrites the recorded failure.*)
CollectedLast ==
    IF Failed # {}
      THEN outcome[CHOOSE l \in Failed : \A k \in Failed : k <= l]
    ELSE IF \E l \in Lane : outcome[l].kind = "done" /\ outcome[l].at < Frames
      THEN [kind |-> "checksum",
            at |-> CHOOSE f \in Frame : ~csumOk[f] /\ \A g \in Frame : ~csumOk[g] => f <= g]
    ELSE IF \E l \in Lane : outcome[l].kind = "aborted"
      THEN [kind |-> "sentinel", at |-> 0]
    ELSE [kind |-> IF Verified THEN "ok" ELSE "size", at |-> 0]

(* What the recorded outcomes add up to: the failure of the first segment, *)
(* else the checksum mismatch of the first frame, else the sentinel of an  *)
(* aborted lane, else the verification of the lengths.                     *)
Collected ==
    LET Mismatched == {outcome[l].at : l \in {k \in Lane : outcome[k].kind = "done"}} \ {Frames}
    IN
    IF Failed # {}
      THEN outcome[CHOOSE l \in Failed : \A k \in Failed : outcome[l].at <= outcome[k].at]
    ELSE IF Mismatched # {}
      THEN [kind |-> "checksum", at |-> CHOOSE f \in Mismatched : \A g \in Mismatched : f <= g]
    ELSE IF \E l \in Lane : outcome[l].kind = "aborted"
      THEN [kind |-> "sentinel", at |-> 0]
    ELSE [kind |-> IF Verified THEN "ok" ELSE "size", at |-> 0]

(* The caller waits for every lane to record.                              *)
Collect ==
    /\ cpc = "run"
    /\ \A l \in Lane : outcome[l].kind # "none"
    /\ result' = Collected
    /\ cpc' = "drop"
    /\ UNCHANGED <<stageVars, input, laneVars>>

Unwind ==
    /\ cpc = "run"
    /\ lpc[0] = "unwound"
    /\ result' = [kind |-> "panic", at |-> 0]
    /\ cpc' = "drop"
    /\ UNCHANGED <<stageVars, input, laneVars>>

(* The lanes' guard: abort, notify_all ...                                 *)
DropLanes ==
    /\ cpc = "drop"
    /\ abort' = TRUE
    /\ waiting' = {}
    /\ cpc' = "joinLanes"
    /\ UNCHANGED <<staging, nextJob, executed, poison, slots, published, wpc, job,
                   input, laneVars, result>>

(* ... and wait for every leased lane; then the same for the workers.      *)
JoinLanes ==
    /\ cpc = "joinLanes"
    /\ \A l \in Lane \ {0} : lpc[l] \in {"unleased", "left"}
    /\ abort' = TRUE
    /\ waiting' = {}
    /\ cpc' = "join"
    /\ UNCHANGED <<staging, nextJob, executed, poison, slots, published, wpc, job,
                   input, laneVars, result>>

(* A poisoned job's panic replaces the result.                             *)
Join ==
    /\ cpc = "join"
    /\ \A w \in Worker : wpc[w] = "left"
    /\ cpc' = "done"
    /\ result' = IF poison THEN [kind |-> "panic", at |-> 0] ELSE result
    /\ UNCHANGED <<stageVars, input, laneVars>>

CallerStep ==
    \/ LeaseLanes \/ ResolveStops \/ Collect \/ Unwind \/ DropLanes \/ JoinLanes \/ Join

(* A slot is filled under its mutex, which a lane about to wait holds.     *)
ServeStageA(w) ==
    /\ WorkerStep(w)
    /\ ~ \E l \in Lane : lpc[l] = "unstaged" /\ wpc[w] = "fill" /\ Cur(l) = job[w]
    /\ UNCHANGED <<input, laneVars, cpc, result>>

Next ==
    \/ CallerStep
    \/ \E l \in Lane : LaneStep(l)
    \/ \E w \in Worker : ServeStageA(w)

Spec == Init /\ [][Next]_vars

(* Threads are scheduled; the timed polls end.                             *)
Fairness ==
    /\ WF_vars(CallerStep)
    /\ \A l \in Lane : WF_vars(LaneStep(l))
    /\ \A w \in Worker : WF_vars(ServeStageA(w))

FairSpec == Spec /\ Fairness

-----------------------------------------------------------------------------
Executed(s) == wroteAt[s] # -1

(* "writing disjoint output ranges": no two lanes write the same bytes.    *)
DisjointRanges ==
    \A s, t \in Seg : s # t /\ Executed(s) /\ Executed(t) =>
        \/ Size(s) = 0 \/ Size(t) = 0
        \/ wroteAt[s] + Size(s) <= wroteAt[t]
        \/ wroteAt[t] + Size(t) <= wroteAt[s]

(* Output is byte-identical to the serial executor's: every segment lands  *)
(* behind the output of all earlier segments.                              *)
InPlace == \A s \in Seg : Executed(s) => wroteAt[s] = Pos[s]

(* A growing output is placed for the segments before the first one that   *)
(* fails staging (resolve), and nothing beyond that bound is ever written. *)
WithinPlaced ==
    Deferred =>
        \A s, t \in Seg : Executed(s) =>
            /\ published[t] # "none"
            /\ published[t] = "err" => wroteAt[s] + Size(s) <= Pos[t]

(* No panic anywhere in the input.                                         *)
Calm == \A s \in Seg : staging[s] # "panic" /\ exec[s] # "panic"

(* Errors keep the serial executor's precedence: the failure of the first  *)
(* segment in input order, then the checksum mismatch of the first frame.  *)
SerialOutcome ==
    cpc = "done" /\ Calm =>
        LET Bad == {s \in Seg : staging[s] = "err" \/ exec[s] = "err"}
            Mismatched == {f \in Frame : ~csumOk[f]}
        IN
        \/ \E s \in Bad :
               /\ \A t \in Bad : s <= t
               /\ result = [kind |-> IF staging[s] = "err" THEN "stage" ELSE "exec", at |-> s]
        \/ /\ Bad = {}
           /\ \E f \in Mismatched :
                  /\ \A g \in Mismatched : f <= g
                  /\ result = [kind |-> "checksum", at |-> f]
        \/ /\ Bad = {} /\ Mismatched = {}
           /\ result = [kind |-> IF pledgeOk THEN "ok" ELSE "size", at |-> 0]

(* The sentinel of an aborted lane or of a panicked worker is never what   *)
(* the call returns.                                                       *)
SentinelHidden == cpc = "done" => result.kind # "sentinel"

(* Once the call has returned no worker and no lane is inside the job.     *)
LanesOutlived ==
    cpc = "done" =>
        /\ \A w \in Worker : wpc[w] = "left"
        /\ \A l \in Lane \ {0} : lpc[l] \in {"unleased", "left"}

(* A segment that fails to execute fails the decode: the decode returns.   *)
FailureReturns == Calm => <>(cpc = "done")

=============================================================================
