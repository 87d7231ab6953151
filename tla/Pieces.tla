-------------------------------- MODULE Pieces --------------------------------
(***************************************************************************)
(* The piece executor (decoding/mt_pieces.rs): a frame is staged segment by *)
(* segment; every candidate job size is a grid, cut into pieces as the      *)
(* contiguous staged prefix grows, and each piece is walked standalone to   *)
(* measure how far below its start it reads.  The first grid (ascending)    *)
(* whose pieces all pass executes in parallel, a piece starting once the    *)
(* executed prefix has reached what it reads; if none passes, the frame is  *)
(* executed serially.                                                       *)
(*                                                                         *)
(* One mutex guards the whole state, so an action is a critical section,   *)
(* with the notification that follows it.                                  *)
(***************************************************************************)
EXTENDS Integers, Sequences, FiniteSets, FiniteSetsExt

CONSTANTS
    Worker,       \* the threads of the scope
    Caller,       \* the calling thread, which stages and executes along
    Frames,       \* the frames explored: see FrameOK
    JobFloor,     \* the job formula's 1 MiB
    FormulaWorkers, \* the worker counts the formula is evaluated for (2..=32)
    RaisedSizes,  \* the overlap-raised job sizes
    MinJob,       \* MIN_PIECE_JOB
    Slack,        \* bytes a wildcopy may read beyond a match (16)
    LagNum, LagDen

Rep == -1         \* a match that repeats the last offset
Unset == 1000000  \* the sentinel history: beyond any position

(* A frame is its table of blocks in output order: a block of segment seg   *)
(* starts where the one before ended (advance_prefix) and grows the output  *)
(* by out; off is 0 (no match), an offset, or Rep; exec is what executing   *)
(* it does, which is nothing for a block without output.  The pledge is     *)
(* below MAX_PIECE_FRAME, far below the sentinel.                           *)
FrameOK(f) ==
    LET Block == [seg : 1 .. f.nSeg, start : Nat, out : Nat, off : Nat \cup {Rep},
                  exec : {"ok", "err", "panic"}]
    IN  /\ f.fcs \in Nat \ {0} /\ f.fcs < Unset
        /\ f.nSeg \in Nat \ {0}
        /\ f.table \in Seq(Block)
        /\ f.table # <<>> => f.table[1].start = 0
        /\ \A i \in 1 .. Len(f.table) - 1 :
            /\ f.table[i + 1].start = f.table[i].start + f.table[i].out
            /\ f.table[i].seg <= f.table[i + 1].seg
        /\ \A i \in 1 .. Len(f.table) :
            f.table[i].out = 0 => f.table[i].off = 0 /\ f.table[i].exec = "ok"

PiecesAssumption ==
    /\ Worker # {} /\ IsFiniteSet(Worker) /\ Caller \notin Worker
    /\ JobFloor \in Nat \ {0} /\ MinJob \in Nat /\ Slack \in Nat
    /\ FormulaWorkers \subseteq Nat \ {0} /\ RaisedSizes \subseteq Nat \ {0}
    /\ LagNum \in Nat /\ LagDen \in Nat \ {0}
    /\ \A f \in Frames : FrameOK(f)

VARIABLES
    frame, staging, placeOk, sumOk, \* the input: frame, staging outcomes, place(), checksum
    phase, aborting, poison,
    slots,        \* staged[s]
    stagedCount, nextStage, stageErrors,
    contig,       \* contig_next: segments of the contiguous staged prefix
    grids, winner, allDead, stageFailed,
    pieces,       \* the job size whose pieces execute, or 0
    nextPiece, done, watermarkPiece, absorbNext, execErr,
    onCv,         \* threads in cv.wait
    parked,       \* the caller is in cv_caller.wait
    pc, job, res

inputVars == <<frame, staging, placeOk, sumOk>>
stageVars == <<slots, stagedCount, nextStage, stageErrors, contig>>
gridVars == <<grids, winner, allDead, stageFailed>>
execVars == <<pieces, nextPiece, done, watermarkPiece, absorbNext, execErr>>
vars == <<inputVars, stageVars, gridVars, execVars, phase, aborting, poison,
          onCv, parked, pc, job, res>>

Thread == Worker \cup {Caller}
Low(a, b) == IF a < b THEN a ELSE b
High(a, b) == IF a < b THEN b ELSE a
DivCeil(a, b) == (a + b - 1) \div b

-----------------------------------------------------------------------------
(* The frame.  Everything here is a function of the input, so a frame       *)
(* carries it along: fields laid out by Laid.                              *)

JobsOf(fcs) ==
    LET formula == {High(DivCeil(fcs, 2 * w), JobFloor) : w \in FormulaWorkers}
    IN  {j \in formula \cup RaisedSizes : j >= MinJob /\ 2 * j <= fcs}

(* The offset that block i resolves to in a walk over the blocks of blks    *)
(* which starts from the history hist, and where its match reads from.      *)
Offset(table, blks, hist, i) ==
    LET known == {x \in blks : x <= i /\ table[x].off \notin {0, Rep}}
    IN  IF known = {} THEN hist ELSE table[Max(known)].off

Source(table, blks, hist, i) == table[i].start - Offset(table, blks, hist, i)

(* Walking the blocks of a piece from its start: whether every offset stays *)
(* inside the output, the deepest external read with its slack, and what is *)
(* read below the start.  The history is the sentinel unless the piece      *)
(* begins the frame.                                                        *)
Walk(table, blks, start) ==
    LET src(i)  == Source(table, blks, IF start = 0 THEN 1 ELSE Unset, i)
        matches == {i \in blks : table[i].off # 0}
        crosses == {i \in matches : src(i) < start}
    IN  [ok    |-> \A i \in matches : src(i) >= 0,
         top   |-> Max({0} \cup {Low(src(i) + table[i].out + Slack, start) : i \in crosses}),
         reads |-> UNION {{x \in src(i) .. src(i) + table[i].out - 1 : x < start} : i \in crosses}]

(* Executing blocks in order: the first that fails decides.                *)
FirstBad(table, blks) ==
    LET bad == {i \in blks : table[i].exec # "ok"}
    IN  IF bad = {} THEN "ok" ELSE table[Min(bad)].exec

Serially(table) ==
    LET past == {i \in DOMAIN table : table[i].off # 0 /\ Source(table, DOMAIN table, 1, i) < 0}
        bad  == past \cup {i \in DOMAIN table : table[i].exec # "ok"}
    IN  IF bad = {} THEN "ok" ELSE IF Min(bad) \in past THEN "err" ELSE table[Min(bad)].exec

Pieces(fcs, j) == 0 .. DivCeil(fcs, j) - 1

(* The blocks of piece k of a grid, its standalone walk and its execution. *)
BlocksOf(table, fcs, j, k) ==
    {i \in DOMAIN table : table[i].start >= k * j /\ table[i].start < Low((k + 1) * j, fcs)}

PieceOf(table, fcs, j, k) ==
    LET blks == BlocksOf(table, fcs, j, k)
    IN  [walk |-> Walk(table, blks, k * j), exec |-> FirstBad(table, blks)]

(* Where the output of the first n segments ends.                           *)
EndOf(table, n) ==
    Max({0} \cup {table[i].start + table[i].out : i \in {x \in DOMAIN table : table[x].seg <= n}})

Laid(f) ==
    [fcs    |-> f.fcs,
     nSeg   |-> f.nSeg,
     table  |-> f.table,
     ends   |-> [n \in 0 .. f.nSeg |-> EndOf(f.table, n)],
     piece  |-> [j \in JobsOf(f.fcs) |-> [k \in Pieces(f.fcs, j) |-> PieceOf(f.table, f.fcs, j, k)]],
     serial |-> Serially(f.table)]

Fcs == frame.fcs
NSeg == frame.nSeg
Seg == 1 .. NSeg

(* candidate_jobs: the job formula over plausible worker counts, and the   *)
(* raised sizes.                                                           *)
Candidates == DOMAIN frame.piece

NPieces(j) == DivCeil(Fcs, j)
Start(j, k) == k * j
End(j, k) == Low((k + 1) * j, Fcs)

(* staged_pos for a contiguous prefix of n segments, and its block starts. *)
StagedPos(n) == frame.ends[n]
StagedStarts(n) == {frame.table[i].start : i \in {x \in DOMAIN frame.table : frame.table[x].seg <= n}}

(* validate_piece: the measured top, or the grid is unusable.              *)
ValidatePiece(j, k) == frame.piece[j][k].walk

LagDeep(j, k, top) == High(Start(j, k) - top, 0) >= (j * LagNum) \div LagDen

-----------------------------------------------------------------------------
(* The grids.                                                              *)

NewGrid == [alive |-> TRUE, cut |-> 0, nextValidate |-> 0, validated |-> 0, tops |-> <<>>]

FullyWalked(g, j) == g.cut = NPieces(j) /\ g.validated >= g.cut

(* refresh_grids for one grid: a grid multiple that is no block start kills *)
(* the grid (decided once a block beyond it is staged, or all are); pieces  *)
(* inside the prefix are cut.                                              *)
Refresh(g, j, n, complete) ==
    LET pos     == StagedPos(n)
        starts  == StagedStarts(n)
        decided == {k \in 1 .. NPieces(j) - 1 : complete \/ Start(j, k) < pos}
        alive   == g.alive /\ \A k \in decided : Start(j, k) \in starts
        cut     == IF alive THEN Cardinality({k \in 0 .. NPieces(j) - 1 : End(j, k) <= pos})
                            ELSE g.cut
    IN  [g EXCEPT !.alive = alive, !.cut = cut,
                  !.tops = [k \in 0 .. cut - 1 |-> IF k < g.cut THEN g.tops[k] ELSE 0]]

(* Mutant of Withdraw: the winner is kept when the staged output turns out  *)
(* to differ from the pledge.                                              *)
KeepWinner(w) == w

(* What becomes of a settled winner on a corrupt pledge.                    *)
Withdraw(w) == 0

(* try_settle: grids in ascending order; one that passes wins, one that is  *)
(* fully walked and too shallow dies, one that is incomplete ends the scan. *)
Settle(gs, win) ==
    LET Alive     == {j \in DOMAIN gs : gs[j].alive}
        Reached   == {j \in Alive : \A i \in Alive : i <= j => FullyWalked(gs[i], i)}
        Deep      == {j \in Reached : \A k \in 1 .. gs[j].cut - 1 : LagDeep(j, k, gs[j].tops[k])}
        wins(j)   == \A i \in Deep : j <= i
        Shallow   == {j \in Reached \ Deep : \A i \in Deep : j < i}
    IN  IF win # 0 THEN [grids |-> gs, winner |-> win, allDead |-> allDead]
        ELSE IF Deep # {}
             THEN [grids  |-> [j \in DOMAIN gs |-> IF j \in Shallow THEN [gs[j] EXCEPT !.alive = FALSE]
                                                                    ELSE gs[j]],
                   winner |-> CHOOSE j \in Deep : wins(j),
                   allDead |-> allDead]
             ELSE [grids  |-> [j \in DOMAIN gs |-> IF j \in Shallow THEN [gs[j] EXCEPT !.alive = FALSE]
                                                                    ELSE gs[j]],
                   winner |-> 0,
                   allDead |-> Alive = Shallow]

Kill(gs) == [j \in DOMAIN gs |-> [gs[j] EXCEPT !.alive = FALSE]]

SetGrids(s) == grids' = s.grids /\ winner' = s.winner /\ allDead' = s.allDead

WakeWorkers(yes) == onCv' = IF yes THEN {} ELSE onCv
WakeCaller(yes) == parked' = (parked /\ ~yes)

-----------------------------------------------------------------------------
Init ==
    /\ \E f \in Frames : frame = Laid(f)
    /\ staging \in [Seg -> {"ok", "err", "panic"}]
    /\ placeOk \in BOOLEAN /\ sumOk \in BOOLEAN
    /\ phase = "staging" /\ aborting = FALSE /\ poison = FALSE
    /\ slots = [s \in Seg |-> "pending"]
    /\ stagedCount = 0 /\ nextStage = 1 /\ stageErrors = {} /\ contig = 0
    /\ grids = [j \in Candidates |-> NewGrid]
    /\ winner = 0 /\ allDead = FALSE /\ stageFailed = FALSE
    /\ pieces = 0 /\ nextPiece = 0 /\ done = {} /\ watermarkPiece = 0
    /\ absorbNext = 0 /\ execErr = FALSE
    /\ onCv = {} /\ parked = FALSE
    /\ pc = [t \in Thread |-> IF t = Caller THEN "top" ELSE "claim"]
    /\ job = [t \in Thread |-> [grid |-> 0, id |-> 0]]
    /\ res = "none"

Goto(t, label) == pc' = [pc EXCEPT ![t] = label]
GotoJob(t, label, g, i) == Goto(t, label) /\ job' = [job EXCEPT ![t] = [grid |-> g, id |-> i]]
AfterJob(t) == IF t = Caller /\ phase = "staging" THEN "top" ELSE "claim"

(* Pool::claim, one critical section: quit, claim work of the phase, or    *)
(* wait for a notification.                                                *)
Claiming(t) == pc[t] = "claim" /\ t \notin onCv

Executed == Cardinality(done)
MayQuit ==
    \/ aborting
    \/ phase = "execute" /\ nextPiece >= NPieces(pieces) /\ Executed >= NPieces(pieces)
    \/ phase = "serial"

Quit(t) ==
    /\ Claiming(t) /\ MayQuit
    /\ Goto(t, IF t = Caller THEN "verdict" ELSE "left")
    /\ UNCHANGED <<inputVars, stageVars, gridVars, execVars, phase, aborting, poison, onCv,
                   parked, job, res>>

(* A segment to stage: workers in claim, the caller in its staging loop.   *)
ClaimStage(t) ==
    /\ \/ Claiming(t) /\ ~aborting
       \/ pc[t] = "top" /\ ~parked /\ ~aborting
    /\ phase = "staging"
    /\ nextStage <= NSeg
    /\ nextStage' = nextStage + 1
    /\ GotoJob(t, "stage", 0, nextStage)
    /\ UNCHANGED <<inputVars, slots, stagedCount, stageErrors, contig, gridVars, execVars, phase,
                   aborting, poison, onCv, parked, res>>

(* claim_validation: the first alive grid with an unclaimed cut piece.     *)
Walkable == IF winner # 0 \/ allDead \/ stageFailed THEN {}
            ELSE {j \in DOMAIN grids : grids[j].alive /\ grids[j].nextValidate < grids[j].cut}

ClaimValidate(t) ==
    /\ Claiming(t) /\ ~aborting /\ phase = "staging" /\ nextStage > NSeg
    /\ \E j \in Walkable :
        /\ \A i \in Walkable : j <= i
        /\ grids' = [grids EXCEPT ![j].nextValidate = @ + 1]
        /\ GotoJob(t, "validate", j, grids[j].nextValidate)
    /\ UNCHANGED <<inputVars, stageVars, winner, allDead, stageFailed, execVars, phase, aborting,
                   poison, onCv, parked, res>>

(* Pieces are claimed in order: what a piece waits for is then always      *)
(* claimed before it.                                                      *)
ClaimExec(t) ==
    /\ Claiming(t) /\ ~aborting /\ phase = "execute"
    /\ nextPiece < NPieces(pieces)
    /\ nextPiece' = nextPiece + 1
    /\ GotoJob(t, "gate", pieces, nextPiece)
    /\ UNCHANGED <<inputVars, stageVars, gridVars, pieces, done, watermarkPiece, absorbNext,
                   execErr, phase, aborting, poison, onCv, parked, res>>

ClaimWait(t) ==
    /\ Claiming(t) /\ ~MayQuit
    /\ \/ phase = "staging" /\ nextStage > NSeg /\ Walkable = {}
       \/ phase = "execute" /\ nextPiece >= NPieces(pieces)
    /\ onCv' = onCv \cup {t}
    /\ UNCHANGED <<inputVars, stageVars, gridVars, execVars, phase, aborting, poison, parked,
                   pc, job, res>>

-----------------------------------------------------------------------------
(* run_stage: the second half, under the lock, once decode_segment is done. *)
(* Completing the first unstaged segment extends the contiguous prefix over *)
(* everything staged behind it, refreshes the grids and tries to settle.    *)
StageDone(t) ==
    LET s        == job[t].id
        out      == staging[s]
        newSlots == [slots EXCEPT ![s] = IF out = "ok" THEN "ok" ELSE IF out = "err" THEN "failed" ELSE @]
        count    == stagedCount + 1
        aborts   == aborting \/ out = "panic"
        failed   == stageFailed \/ out = "err"
        advances == ~aborts /\ ~failed /\ s = contig + 1
        reach    == CHOOSE n \in 0 .. NSeg :
                        /\ \A i \in 1 .. n : newSlots[i] = "ok"
                        /\ n < NSeg => newSlots[n + 1] # "ok"
        complete == count = NSeg
        corrupt  == complete /\ StagedPos(reach) # Fcs
        fresh    == IF corrupt THEN Kill(grids)
                    ELSE [j \in DOMAIN grids |-> Refresh(grids[j], j, reach, complete)]
        settled  == Settle(fresh, IF corrupt THEN Withdraw(winner) ELSE winner)
        newWork  == ~corrupt /\ \E j \in DOMAIN grids : fresh[j].cut > grids[j].cut
    IN
    /\ pc[t] = "stage"
    /\ slots' = newSlots
    /\ stagedCount' = count
    /\ aborting' = aborts
    /\ poison' = (poison \/ out = "panic")
    /\ stageFailed' = failed
    /\ stageErrors' = IF out = "err" THEN stageErrors \cup {s} ELSE stageErrors
    /\ contig' = IF advances THEN reach ELSE contig
    /\ IF advances THEN SetGrids(settled)
       ELSE /\ grids' = IF out = "err" THEN Kill(grids) ELSE grids
            /\ UNCHANGED <<winner, allDead>>
    /\ WakeWorkers((advances /\ newWork) \/ aborts)
    /\ WakeCaller(winner' # 0 \/ allDead' \/ complete \/ aborts)
    /\ Goto(t, AfterJob(t))
    /\ UNCHANGED <<inputVars, nextStage, execVars, phase, job, res>>

(* run_validate: the piece is snapshotted under the lock, walked without    *)
(* it, and its measurement recorded under it.                              *)
ValidateDone(t) ==
    LET j    == job[t].grid
        k    == job[t].id
        walk == ValidatePiece(j, k)
        recorded == [grids EXCEPT ![j].validated = @ + 1,
                                  ![j].tops = IF walk.ok THEN [@ EXCEPT ![k] = walk.top] ELSE @,
                                  ![j].alive = @ /\ walk.ok]
    IN
    /\ pc[t] = "validate"
    /\ SetGrids(Settle(recorded, winner))
    /\ WakeCaller(winner' # 0 \/ allDead' \/ aborting)
    /\ WakeWorkers(aborting)
    /\ Goto(t, "claim")
    /\ UNCHANGED <<inputVars, stageVars, stageFailed, execVars, phase, aborting, poison, job, res>>

-----------------------------------------------------------------------------
(* run_exec.                                                               *)

Watermark == IF watermarkPiece = NPieces(pieces) THEN Fcs ELSE Start(pieces, watermarkPiece)

(* Mutant of GateOpen: the gate reads the claimed prefix, not the executed  *)
(* one.                                                                    *)
GateOnClaims(k) == Start(pieces, High(nextPiece - 1, 0)) >= grids[pieces].tops[k]

(* The watermark gate: everything the piece reads below its start is final. *)
GateOpen(k) == Watermark >= grids[pieces].tops[k]

PassGate(t) ==
    /\ pc[t] = "gate" /\ t \notin onCv
    /\ IF execErr \/ aborting THEN Goto(t, "claim")
       ELSE GateOpen(job[t].id) /\ Goto(t, "exec")
    /\ UNCHANGED <<inputVars, stageVars, gridVars, execVars, phase, aborting, poison, onCv,
                   parked, job, res>>

GateWait(t) ==
    /\ pc[t] = "gate" /\ t \notin onCv
    /\ ~GateOpen(job[t].id) /\ ~execErr /\ ~aborting
    /\ onCv' = onCv \cup {t}
    /\ UNCHANGED <<inputVars, stageVars, gridVars, execVars, phase, aborting, poison, parked,
                   pc, job, res>>

(* The done prefix after piece k completes; it moves only when k is its     *)
(* first missing piece.                                                     *)
Prefix(d, k) ==
    IF k # watermarkPiece THEN watermarkPiece
    ELSE CHOOSE n \in 0 .. NPieces(pieces) : 0 .. n - 1 \subseteq d /\ n \notin d

(* Absorb into the checksum whatever the done prefix now covers.            *)
ExecDone(t) ==
    LET k   == job[t].id
        out == frame.piece[pieces][k].exec
    IN
    /\ pc[t] = "exec"
    /\ IF out = "ok"
       THEN /\ done' = done \cup {k}
            /\ watermarkPiece' = Prefix(done', k)
            /\ absorbNext' = IF k = watermarkPiece THEN watermarkPiece' ELSE absorbNext
            /\ UNCHANGED <<aborting, poison, execErr>>
       ELSE /\ aborting' = TRUE
            /\ poison' = (poison \/ out = "panic")
            /\ execErr' = (execErr \/ out = "err")
            /\ UNCHANGED <<done, watermarkPiece, absorbNext>>
    /\ WakeWorkers(TRUE)
    /\ WakeCaller(Cardinality(done') = NPieces(pieces) \/ aborting')
    /\ Goto(t, "claim")
    /\ UNCHANGED <<inputVars, stageVars, gridVars, pieces, nextPiece, phase, job, res>>

-----------------------------------------------------------------------------
(* decode_pieces: the calling thread.                                       *)

At(label) == pc[Caller] = label /\ ~parked
GotoC(label) == Goto(Caller, label)

(* Mutant of Settled: the verdict is consumed before staging has ended.     *)
SettledEarly == winner # 0 \/ allDead \/ stageFailed

(* The verdict is consumable only once every segment is staged.             *)
Settled == stagedCount = NSeg /\ (winner # 0 \/ allDead \/ stageFailed)

Park ==
    /\ At("top") /\ ~aborting /\ ~Settled /\ nextStage > NSeg
    /\ parked' = TRUE
    /\ UNCHANGED <<inputVars, stageVars, gridVars, execVars, phase, aborting, poison, onCv,
                   pc, job, res>>

(* Leaving the staging loop: an abort ends the call, the first staging error *)
(* in segment order is returned, otherwise the verdict is taken.            *)
Ready ==
    /\ At("top")
    /\ aborting \/ Settled
    /\ GotoC(IF aborting THEN "join" ELSE "stageError")
    /\ res' = IF aborting THEN "aborted" ELSE res
    /\ UNCHANGED <<inputVars, stageVars, gridVars, execVars, phase, aborting, poison, onCv,
                   parked, job>>

(* abort_pool with an error to return.                                      *)
AbortWith(r) ==
    /\ aborting' = TRUE /\ res' = r
    /\ WakeWorkers(TRUE)
    /\ GotoC("join")

TakeStageError ==
    /\ At("stageError")
    /\ IF stageErrors # {} THEN AbortWith("stage")
       ELSE GotoC("verdictTaken") /\ UNCHANGED <<aborting, onCv, res>>
    /\ UNCHANGED <<inputVars, stageVars, gridVars, execVars, phase, poison, parked, job>>

(* run_serial: the blocks in order, then the declared size, then the sum.   *)
SerialResult ==
    IF ~placeOk THEN "place"
    ELSE IF frame.serial = "err" THEN "exec"
    ELSE IF frame.serial = "panic" THEN "panic"
    ELSE IF StagedPos(NSeg) # Fcs THEN "size"
    ELSE IF ~sumOk THEN "sum" ELSE "ok"

Serial ==
    /\ At("verdictTaken") /\ winner = 0
    /\ phase' = "serial"
    /\ WakeWorkers(TRUE)
    /\ res' = SerialResult
    /\ GotoC("join")
    /\ UNCHANGED <<inputVars, stageVars, gridVars, execVars, aborting, poison, parked, job>>

(* place() over the whole pledge, then the winner's pieces are installed.   *)
Place ==
    /\ At("verdictTaken") /\ winner # 0
    /\ IF placeOk THEN GotoC("install") /\ UNCHANGED <<aborting, onCv, res>>
       ELSE AbortWith("place")
    /\ UNCHANGED <<inputVars, stageVars, gridVars, execVars, phase, poison, parked, job>>

Install ==
    /\ At("install")
    /\ pieces' = winner
    /\ nextPiece' = 0 /\ done' = {} /\ watermarkPiece' = 0 /\ absorbNext' = 0
    /\ phase' = "execute"
    /\ WakeWorkers(TRUE)
    /\ GotoC("claim")
    /\ UNCHANGED <<inputVars, stageVars, gridVars, execErr, aborting, poison, parked, job, res>>

(* After its last claim the caller waits for the pieces still running.      *)
Pieced == Executed = NPieces(pieces)

AwaitPieces ==
    /\ At("verdict") /\ ~Pieced /\ ~execErr /\ ~aborting
    /\ parked' = TRUE
    /\ UNCHANGED <<inputVars, stageVars, gridVars, execVars, phase, aborting, poison, onCv, pc,
                   job, res>>

Verdict ==
    /\ At("verdict")
    /\ Pieced \/ execErr \/ aborting
    /\ LET r == IF execErr THEN "exec" ELSE IF aborting THEN "aborted"
                ELSE IF sumOk THEN "ok" ELSE "sum"
       IN  /\ res' = r
           /\ absorbNext' = IF r \in {"ok", "sum"} THEN NPieces(pieces) ELSE absorbNext
           /\ aborting' = (aborting \/ r # "ok")
           /\ WakeWorkers(r # "ok")
    /\ execErr' = FALSE
    /\ GotoC("join")
    /\ UNCHANGED <<inputVars, stageVars, gridVars, pieces, nextPiece, done, watermarkPiece, phase,
                   poison, parked, job>>

(* The scope joins every worker; a panic payload then resumes.              *)
Return ==
    /\ pc[Caller] = "join"
    /\ \A w \in Worker : pc[w] = "left"
    /\ res' = IF poison THEN "panic" ELSE res
    /\ GotoC("returned")
    /\ UNCHANGED <<inputVars, stageVars, gridVars, execVars, phase, aborting, poison, onCv,
                   parked, job>>

QuickStep(t) ==
    \/ Quit(t) \/ ClaimStage(t) \/ ClaimValidate(t) \/ ClaimExec(t) \/ ClaimWait(t)
    \/ PassGate(t) \/ GateWait(t) \/ ExecDone(t)
ThreadStep(t) == QuickStep(t) \/ StageDone(t) \/ ValidateDone(t)

CallerStep ==
    \/ Park \/ Ready \/ TakeStageError \/ Serial \/ Place \/ Install
    \/ AwaitPieces \/ Verdict \/ Return

Next == CallerStep \/ \E t \in Thread : ThreadStep(t)

(* Threads are scheduled, and staging or walking a piece ends: their second *)
(* halves are enabled for as long as the first has not returned.            *)
Fairness ==
    /\ WF_vars(CallerStep)
    /\ \A t \in Thread : WF_vars(QuickStep(t))
    /\ \A t \in Thread : []<>(pc[t] \notin {"stage", "validate"})

Spec == Init /\ [][Next]_vars
FairSpec == Spec /\ Fairness

-----------------------------------------------------------------------------
(* Properties.                                                             *)

(* What the blocks of piece k read below its start when the frame is        *)
(* executed in order.                                                       *)
SerialReads(k) ==
    LET table  == frame.table
        src(i) == Source(table, DOMAIN table, 1, i)
        mine   == {i \in BlocksOf(table, Fcs, pieces, k) : table[i].off # 0}
    IN  UNION {{x \in src(i) .. src(i) + table[i].out - 1 : x < Start(pieces, k)} : i \in mine}

Final == UNION {Start(pieces, k) .. End(pieces, k) - 1 : k \in done}

(* A piece in flight reads below its start exactly what in-order execution  *)
(* would read, and only what has been executed; the checksum has absorbed   *)
(* only executed pieces, in order.  Parallel pieces are sound by this       *)
(* alone: nothing else orders their reads and writes.                       *)
ReadsFinal ==
    /\ \A t \in Thread : pc[t] = "exec" =>
        /\ SerialReads(job[t].id) = ValidatePiece(pieces, job[t].id).reads
        /\ SerialReads(job[t].id) \subseteq Final
    /\ 0 .. absorbNext - 1 \subseteq done

(* The grid a verdict over the completely staged frame would choose, in a   *)
(* round of its own: the smallest candidate whose multiples are block       *)
(* starts, whose pieces all walk and read deep enough below their starts.   *)
RoundWinner ==
    LET usable(j) ==
            /\ \A k \in 1 .. NPieces(j) - 1 : k * j \in {frame.table[i].start : i \in DOMAIN frame.table}
            /\ \A k \in 0 .. NPieces(j) - 1 : ValidatePiece(j, k).ok
            /\ \A k \in 1 .. NPieces(j) - 1 : LagDeep(j, k, ValidatePiece(j, k).top)
        good == {j \in Candidates : usable(j)}
    IN  IF StagedPos(NSeg) # Fcs \/ good = {} THEN 0
        ELSE CHOOSE j \in good : \A i \in good : j <= i

(* Fusing validation into staging changes when the verdict falls, not the   *)
(* verdict: whatever the interleaving of staging, cutting and walking, the  *)
(* caller finds the round form's winner, each of its pieces measured.       *)
VerdictIsRound ==
    pc[Caller] \in {"verdictTaken", "install"} =>
        /\ winner = RoundWinner
        /\ winner # 0 => \A k \in 0 .. NPieces(winner) - 1 :
                            grids[winner].tops[k] = ValidatePiece(winner, k).top

StagedOk == \A s \in Seg : staging[s] = "ok"
Panics == \/ \E s \in Seg : staging[s] = "panic"
          \/ \E i \in DOMAIN frame.table : frame.table[i].exec = "panic"

(* The call succeeds exactly when the serial decoder does; a size, checksum *)
(* or output error is the serial one; the placeholder error that workers    *)
(* leave behind on an abort is never returned.                              *)
OutcomeIsSerial ==
    pc[Caller] = "returned" =>
        /\ res \in {"ok", "stage", "exec", "place", "size", "sum", "panic"}
        /\ res = "ok" <=> StagedOk /\ SerialResult = "ok"
        /\ res \in {"place", "size", "sum"} => res = SerialResult
        /\ res = "stage" => \E s \in Seg : staging[s] = "err"
        /\ res = "panic" => Panics

(* Every call returns: no wakeup of a worker or of the caller is missed, on *)
(* any path out (a verdict, a fallback, an error, a panic).                 *)
CallReturns == <>(pc[Caller] = "returned")
=============================================================================
