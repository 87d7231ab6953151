----------------------------- MODULE LaneBudget -----------------------------
(***************************************************************************)
(* The plan-time walk of the lane budget (decoding/lane_budget.rs, plan):  *)
(* from min(workers, frames) lanes down, each lane given up becomes a      *)
(* staging worker, until execution would no longer hide under staging.     *)
(*                                                                         *)
(* Volumes are in KiB.  The prices are the code's, rounding included, with *)
(* the factor 100 cancelled from the rates and from 10^6 ns per ms.        *)
(***************************************************************************)
EXTENDS LanePacking

CONSTANTS
    FrameCount,     \* plans.len()
    Outs,           \* pledged output volumes a frame may have
    Stageds,        \* staged volumes a frame may have
    WorkerCounts    \* worker counts

LaneBudgetAssumption ==
    /\ FrameCount \in Nat /\ FrameCount >= 3
    /\ Outs \subseteq Nat
    /\ Stageds \subseteq Nat
    /\ \A w \in WorkerCounts : w \in Nat /\ w >= 2

VARIABLES
    out,        \* out[f]: the pledged output of frame f
    staged,     \* staged[f]: its staged volume
    workers,    \* worker_count
    lanes,      \* the lane count the walk has reached
    budget      \* the decided budget, or NoBudget while walking

vars == <<out, staged, workers, lanes, budget>>

Frame == 0 .. FrameCount - 1
NoBudget == [lanes |-> 0, lpt |-> FALSE, free_window |-> FALSE]
Sum(volume) == MapThenSumSet(LAMBDA f : volume[f], Frame)
Least(a, b) == IF a <= b THEN a ELSE b

FreeWindowMax == 128 * 1024

Stock == Least(workers, FrameCount)

(* staging_ns with the workers that k lanes leave to stage A: their rate   *)
(* saturates.                                                              *)
StageNs(k) == (Sum(staged) * 10000) \div Least((workers - k + 1) * 22, 130)

ExecFrameNs(f) == Max({(staged[f] * 10000) \div 35, (out[f] * 10000) \div 70})

Groups(k, lpt) == IF lpt THEN GroupLpt(out, k) ELSE GroupConsecutive(FrameCount, k)

(* exec_ns: the largest lane's summed frame spans.                         *)
ExecNs(k, lpt) ==
    LET groups == Groups(k, lpt)
    IN Max({MapThenSumSet(ExecFrameNs, groups[l]) : l \in 1 .. k})

Dominant == Max({out[f] : f \in Frame}) * 20 >= 7 * Sum(out)

Init ==
    /\ out \in [Frame -> Outs]
    /\ Sum(out) > 0
    /\ staged \in [Frame -> Stageds]
    /\ workers \in WorkerCounts
    /\ lanes = Stock
    /\ budget = NoBudget

(* Mutant of Cuttable: the walk stops only at the staging cap.             *)
CuttableWhileStagingGains == lanes > 2 /\ StageNs(lanes - 1) < StageNs(lanes)

(* Giving up a lane gains staging, and execution still hides under it.     *)
Cuttable ==
    /\ lanes > 2
    /\ StageNs(lanes - 1) < StageNs(lanes)
    /\ ExecNs(lanes - 1, Dominant) < StageNs(lanes - 1)

Cut ==
    /\ budget = NoBudget
    /\ Cuttable
    /\ lanes' = lanes - 1
    /\ UNCHANGED <<out, staged, workers, budget>>

Decide ==
    /\ budget = NoBudget
    /\ ~Cuttable
    /\ budget' = [lanes |-> lanes,
                  lpt |-> Dominant /\ ExecNs(lanes, Dominant) >= StageNs(lanes),
                  free_window |-> Sum(staged) <= FreeWindowMax]
    /\ UNCHANGED <<out, staged, workers, lanes>>

Next == Cut \/ Decide

Spec == Init /\ [][Next]_vars

-----------------------------------------------------------------------------
(* The predicted end of a decode with k lanes, packed as the walk prices.  *)
Wall(k) == Max({StageNs(k), ExecNs(k, Dominant)})

(* A lane is given up only for a decode predicted to end earlier: cutting  *)
(* never makes the packed execute path the new wall.                       *)
CutsPayOff == [][lanes' # lanes => Wall(lanes)' < Wall(lanes)]_vars

=============================================================================
