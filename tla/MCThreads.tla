----------------------------- MODULE MCThreads -----------------------------
(***************************************************************************)
(* Four components whose threads meet only inside one call, checked side   *)
(* by side: a behaviour is one of DecPool, AsyncChecksum, BulkMt or Pieces *)
(* (part says which), and the other components stand still.  DecPool and   *)
(* AsyncChecksum are extended, and BulkMt and Pieces are the instances of   *)
(* their proofs' modules, so that what is proved of them is what is         *)
(* checked; the former two stand still in an initial state of theirs.       *)
(***************************************************************************)
EXTENDS DecPool, AsyncChecksum, ParallelInputs, TLC

CONSTANTS
    c1, c2, s1, s2, f1, f2, w1, w2, feeder, caller, \* model values
    Worker, Feeder, Caller,                        \* the encoder's and the executor's threads
    EncoderFrames, ExecutorFrames,                 \* the frames each of them is given
    BlockSize, MinMtInput, MinJobSize, MaxJobSize, CaptureJobCap, ProbeSpan, ProbeMinFrame,
    KeepReach, ShrinkReach, LdmMidsizeWindow, LdmFullWindow, SpfMinPrefix, SpfSeg, \* BulkMt's
    JobFloor, FormulaWorkers, RaisedSizes, MinJob, Slack, LagNum, LagDen           \* Pieces'

(* Two decodes that lease two workers and one, again and again, from two   *)
(* slots and a pool one slot deep: slots are popped, spawned, refused,     *)
(* recycled from one decode to the other and turned away from a full pool. *)
WantOf == (c1 :> 2) @@ (c2 :> 1)

VARIABLES
    part,
    frame, layout, nextJob, bslots, poison, donation, share, publishes, chainDone, bupto, nextPub,
    gate, waiting, pc, bjob, history, asm, output, res,
    pframe, staging, placeOk, sumOk, pphase, aborting, ppoison, staged, stagedCount, nextStage,
    stageErrors, contig, grids, winner, allDead, stageFailed, pieces, nextPiece, done,
    watermarkPiece, absorbNext, execErr, onCv, parked, piecePc, pieceJob, pieceRes

poolVars == vars
bulkVars == <<frame, layout, nextJob, bslots, poison, donation, share, publishes, chainDone, bupto,
              nextPub, gate, waiting, pc, bjob, history, asm, output, res>>
pieceVars == <<pframe, staging, placeOk, sumOk, pphase, aborting, ppoison, staged, stagedCount,
               nextStage, stageErrors, contig, grids, winner, allDead, stageFailed, pieces,
               nextPiece, done, watermarkPiece, absorbNext, execErr, onCv, parked, piecePc,
               pieceJob, pieceRes>>

Encoder == INSTANCE BulkMtProofs WITH
    Frames <- EncoderFrames, slots <- bslots, upto <- bupto, job <- bjob

Executor == INSTANCE PiecesProofs WITH
    Frames <- ExecutorFrames, frame <- pframe, phase <- pphase, poison <- ppoison,
    slots <- staged, pc <- piecePc, job <- pieceJob, res <- pieceRes

ASSUME Assumptions == Encoder!BulkMtAssumption /\ Executor!PiecesAssumption

-----------------------------------------------------------------------------
NoEncoder ==
    /\ frame = 0 /\ layout = 0 /\ nextJob = 0 /\ bslots = 0 /\ poison = 0 /\ donation = 0
    /\ share = 0 /\ publishes = 0 /\ chainDone = 0 /\ bupto = 0 /\ nextPub = 0 /\ gate = 0
    /\ waiting = 0 /\ pc = 0 /\ bjob = 0 /\ history = 0 /\ asm = 0 /\ output = 0 /\ res = 0

NoExecutor ==
    /\ pframe = 0 /\ staging = 0 /\ placeOk = 0 /\ sumOk = 0 /\ pphase = 0 /\ aborting = 0
    /\ ppoison = 0 /\ staged = 0 /\ stagedCount = 0 /\ nextStage = 0 /\ stageErrors = 0
    /\ contig = 0 /\ grids = 0 /\ winner = 0 /\ allDead = 0 /\ stageFailed = 0 /\ pieces = 0
    /\ nextPiece = 0 /\ done = 0 /\ watermarkPiece = 0 /\ absorbNext = 0 /\ execErr = 0
    /\ onCv = 0 /\ parked = 0 /\ piecePc = 0 /\ pieceJob = 0 /\ pieceRes = 0

(* In the inputs of Pieces explored at most one of staging, the output and  *)
(* the checksum goes wrong.                                                 *)
OneFault ==
    Cardinality({s \in Executor!Seg : staging[s] # "ok"})
        + (IF placeOk THEN 0 ELSE 1) + (IF sumOk THEN 0 ELSE 1) <= 1

ThreadsInit ==
    /\ Init
    /\ part \in {"pool", "sidecar", "encoder", "executor"}
    /\ SidecarInit
    /\ part # "sidecar" => task.frame = f1
    /\ IF part = "encoder" THEN Encoder!Init ELSE NoEncoder
    /\ IF part = "executor" THEN Executor!Init /\ OneFault ELSE NoExecutor

ThreadsNext ==
    \/ part = "pool" /\ Next /\ UNCHANGED <<part, sidecarVars, bulkVars, pieceVars>>
    \/ part = "sidecar" /\ SidecarNext /\ UNCHANGED <<part, poolVars, bulkVars, pieceVars>>
    \/ part = "encoder" /\ Encoder!Next /\ UNCHANGED <<part, poolVars, sidecarVars, pieceVars>>
    \/ part = "executor" /\ Executor!Next /\ UNCHANGED <<part, poolVars, sidecarVars, bulkVars>>

threadsVars == <<part, poolVars, sidecarVars, bulkVars, pieceVars>>

(* Each component's fairness, as its module states it.                      *)
PoolFairness ==
    /\ \A c \in Call : WF_poolVars(part = "pool" /\ CallStep(c) /\ ~Begin(c))
    /\ \A s \in Slot : WF_poolVars(part = "pool" /\ ThreadStep(s))

EncoderFairness ==
    /\ WF_bulkVars(part = "encoder" /\ Encoder!CallerStep)
    /\ WF_bulkVars(part = "encoder" /\ Encoder!FeedStep)
    /\ \A w \in Worker : WF_bulkVars(part = "encoder" /\ Encoder!WorkerStep(w))

ExecutorFairness ==
    /\ WF_pieceVars(part = "executor" /\ Executor!CallerStep)
    /\ \A t \in Worker \cup {Caller} :
        /\ WF_pieceVars(part = "executor" /\ Executor!QuickStep(t))
        /\ []<>(part # "executor" \/ piecePc[t] \notin {"stage", "validate"})

ThreadsSpec ==
    /\ ThreadsInit /\ [][ThreadsNext]_threadsVars
    /\ PoolFairness /\ SidecarFairness /\ EncoderFairness /\ ExecutorFairness

-----------------------------------------------------------------------------
(* The properties of the instanced components, by the names they have there.*)
ScheduleFree == part = "encoder" => Encoder!ScheduleFree
ReadsFinal == part = "executor" => Executor!ReadsFinal
VerdictIsRound == part = "executor" => Executor!VerdictIsRound
OutcomeIsSerial == part = "executor" => Executor!OutcomeIsSerial

(* A caller is inside a call of the component that runs.                    *)
InCall(c) ==
    \/ part = "pool" /\ cpc[c] # "idle"
    \/ part = "sidecar" /\ ppc # "idle"
    \/ part = "encoder" /\ pc[Caller] # "returned" /\ ~Encoder!LostWake
    \/ part = "executor" /\ piecePc[Caller] # "returned"

(* Every call of the pool, the sidecar, the bulk encoder and the piece      *)
(* executor returns: no wakeup, handoff or stopped thread leaves a caller   *)
(* waiting (LostWake of BulkMt aside).                                      *)
EveryCallReturns == \A c \in Call : []<>~InCall(c)

(* The bulk encoder by itself.                                              *)
EncoderSpec == part = "encoder" /\ ThreadsSpec

(* build_prefix_snapshot, mt.rs:1797: when no freeze lands before the        *)
(* boundary, "the tail jobs keep their stock whole-prefix fills".            *)
BuildlessReturns == <>(pc[Caller] = "returned")
=============================================================================
