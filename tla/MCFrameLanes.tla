---------------------------- MODULE MCFrameLanes ----------------------------
(***************************************************************************)
(* The three forms a parallel decode of four segments takes: the           *)
(* single-frame pipeline of MtDecode on two workers, whose last segment is *)
(* beyond the window of the first, so that the backpressure sleep happens; *)
(* frame lanes writing a caller's slice, where lanes start at once; and    *)
(* frame lanes under an output that grows, where staging ends first and    *)
(* its window is the whole input.  A behaviour is one of the three (form), *)
(* and what belongs to the others stands still.                            *)
(***************************************************************************)
EXTENDS MtDecode, ParallelInputs

CONSTANTS
    LaneWorkers,                            \* the workers of the frame lanes,
    Frames, FrameOf, Lanes, LaneFrames, Pos \* and the frames they decode

VARIABLES
    form,    \* "single", "slice" or "growing"
    lstaging, lnextJob, lexecuted, labort, lpoison, lslots, lpublished, lwaiting, lwpc, ljob,
    lexec, csumOk, pledgeOk, lpc, probe, next, end, wroteAt, outcome, lcpc, lresult

lanesVars == <<lstaging, lnextJob, lexecuted, labort, lpoison, lslots, lpublished, lwaiting, lwpc,
               ljob, lexec, csumOk, pledgeOk, lpc, probe, next, end, wroteAt, outcome, lcpc, lresult>>
allVars == <<form, vars, lanesVars>>

Slice == INSTANCE MtFrames WITH
    Worker <- LaneWorkers, LaneMode <- TRUE, Deferred <- FALSE, staging <- lstaging, nextJob <- lnextJob,
    executed <- lexecuted, abort <- labort, poison <- lpoison, slots <- lslots,
    published <- lpublished, waiting <- lwaiting, wpc <- lwpc, job <- ljob, exec <- lexec,
    cpc <- lcpc, result <- lresult

Growing == INSTANCE MtFrames WITH
    Worker <- LaneWorkers, LaneMode <- TRUE, Deferred <- TRUE, Window <- N, staging <- lstaging,
    nextJob <- lnextJob, executed <- lexecuted, abort <- labort, poison <- lpoison, slots <- lslots,
    published <- lpublished, waiting <- lwaiting, wpc <- lwpc, job <- ljob, exec <- lexec,
    cpc <- lcpc, result <- lresult

ASSUME LanesAssumption ==
    /\ LaneWorkers # {} /\ IsFiniteSet(LaneWorkers)
    /\ Slice!MtFramesAssumption /\ Growing!MtFramesAssumption
    /\ Slice!ConsecutiveLanes

-----------------------------------------------------------------------------
NoLanes ==
    /\ lstaging = 0 /\ lnextJob = 0 /\ lexecuted = 0 /\ labort = 0 /\ lpoison = 0 /\ lslots = 0
    /\ lpublished = 0 /\ lwaiting = 0 /\ lwpc = 0 /\ ljob = 0 /\ lexec = 0 /\ csumOk = 0
    /\ pledgeOk = 0 /\ lpc = 0 /\ probe = 0 /\ next = 0 /\ end = 0 /\ wroteAt = 0 /\ outcome = 0
    /\ lcpc = 0 /\ lresult = 0

(* The pipeline is explored on inputs with at most two segments whose      *)
(* staging fails or panics and at most one whose execution does.           *)
SingleInit ==
    /\ Init
    /\ Cardinality({s \in Seg : staging[s] # "ok"}) <= 2
    /\ Cardinality({s \in Seg : exec[s] # "ok"}) <= 1
    /\ NoLanes

LanesInit ==
    /\ WrongThings(lstaging, lexec, csumOk, pledgeOk) <= MaxWrong
    /\ Init /\ \A s \in Seg : staging[s] = "ok" /\ exec[s] = "ok"
    /\ sizeOk

FormsInit ==
    \/ form = "single" /\ SingleInit
    \/ form = "slice" /\ Slice!Init /\ LanesInit
    \/ form = "growing" /\ Growing!Init /\ LanesInit

Single == form = "single" /\ UNCHANGED <<form, lanesVars>>
ServeSingle(w) == Single /\ ServeStageA(w)
ServeLanes(l) ==
    \/ form = "slice" /\ Slice!LaneStep(l) /\ UNCHANGED <<form, vars>>
    \/ form = "growing" /\ Growing!LaneStep(l) /\ UNCHANGED <<form, vars>>
ServeSlice(w) == form = "slice" /\ Slice!ServeStageA(w) /\ UNCHANGED <<form, vars>>
ServeGrowing(w) == form = "growing" /\ Growing!ServeStageA(w) /\ UNCHANGED <<form, vars>>
Call ==
    \/ Single /\ CallerStep
    \/ form = "slice" /\ Slice!CallerStep /\ UNCHANGED <<form, vars>>
    \/ form = "growing" /\ Growing!CallerStep /\ UNCHANGED <<form, vars>>

FormsNext ==
    \/ Call
    \/ \E w \in Worker : ServeSingle(w)
    \/ \E l \in Slice!Lane : ServeLanes(l)
    \/ \E w \in LaneWorkers : ServeSlice(w) \/ ServeGrowing(w)

FormsSpec ==
    /\ FormsInit /\ [][FormsNext]_allVars
    /\ WF_allVars(Call)
    /\ \A w \in Worker : WF_allVars(ServeSingle(w))
    /\ \A l \in Slice!Lane : WF_allVars(ServeLanes(l))
    /\ \A w \in LaneWorkers : WF_allVars(ServeSlice(w) \/ ServeGrowing(w))

-----------------------------------------------------------------------------
(* Every segment a lane executes lands where the serial executor puts it   *)
(* (run_lane, Place::resolve).                                             *)
LandsInPlace == form # "single" => Slice!InPlace

(* The lanes' outcome is the serial executor's, and when it is returned no *)
(* worker and no lane is left inside the job (decode_frames, LeaseOut).    *)
SerialLanes == form # "single" => Slice!SerialOutcome /\ Slice!LanesOutlived

(* A growing output is placed for the segments before the first one that   *)
(* fails staging (resolve), and nothing beyond that bound is ever written. *)
GrownWithinPlaced == form = "growing" => Growing!WithinPlaced

(* Where a lane's failure or a panic may leave the lanes waiting.           *)
MayStall ==
    form # "single" /\ (~Slice!Calm \/ (form = "slice" /\ \E s \in Seg : lexec[s] = "err"))

(* A decode into a slice in which nothing panics and every segment executes *)
(* returns, and into a growing output every decode in which nothing panics: *)
(* the lanes there find everything staged.  The pipeline always returns.    *)
CallsReturn == <>(MayStall \/ IF form = "single" THEN cpc = "done" ELSE lcpc = "done")
=============================================================================
