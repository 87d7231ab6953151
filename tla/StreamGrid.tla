----------------------------- MODULE StreamGrid -----------------------------
(***************************************************************************)
(* The job grid of the streaming multi-threaded encoder                    *)
(* (stream/encoder_mt.rs): where the jobs of a frame begin and end.  A     *)
(* pledged frame has a fixed grid; an open-ended one a growing grid, whose *)
(* epochs of Burst equal jobs double the job size up to a cap tied to the  *)
(* buffer's.  Offsets are in units of the model.                           *)
(***************************************************************************)
EXTENDS Integers, Sequences

CONSTANTS
    Size,       \* the fixed grid's job size
    MinJob,     \* MIN_JOB_SIZE
    Overlap,    \* overlap: the strip a job borrows from the one before
    Burst,      \* burst_jobs
    BufCapMax   \* BUF_CAP_MAX

ASSUME StreamGridAssumption ==
    /\ Size \in Nat \ {0}
    /\ MinJob \in Nat \ {0}
    /\ Overlap \in Nat
    /\ Burst \in Nat \ {0}
    /\ BufCapMax \in Nat

Least(a, b) == IF a < b THEN a ELSE b
Most(a, b) == IF a > b THEN a ELSE b
DivCeil(a, b) == (a + b - 1) \div b

(* growing_job_cap                                                         *)
GrowingJobCap == Most(Most(BufCapMax - Overlap, 0) \div Burst, MinJob)

(* The loop of growing_epoch: the k-th epoch's job size and start.         *)
EpochSize[k \in Nat] ==
    IF k = 0 THEN Least(Most(MinJob, Overlap), GrowingJobCap)
             ELSE Least(2 * EpochSize[k - 1], GrowingJobCap)

EpochLo[k \in Nat] ==
    IF k = 0 THEN 0 ELSE EpochLo[k - 1] + Burst * EpochSize[k - 1]

(* growing_epoch, growing_epoch_floor, growing_epoch_end                   *)
EpochOf(o) == CHOOSE k \in 0 .. o : EpochLo[k] <= o /\ o < EpochLo[k + 1]
EpochFloor(o) == EpochLo[EpochOf(o)]
EpochEnd(o) == EpochLo[EpochOf(o) + 1]

(* job_end                                                                 *)
JobEnd(grid, o) == o + IF grid = "fixed" THEN Size ELSE EpochSize[EpochOf(o)]

(* The walk of build_bounds: cuts from lo to hi, no job past hi.           *)
Walk(grid, lo, hi) ==
    LET cuts[o \in Nat] ==
            IF o >= hi THEN <<o>> ELSE <<o>> \o cuts[Least(JobEnd(grid, o), hi)]
    IN  cuts[lo]

(* The tail of build_bounds on the growing grid: at most Burst equal jobs  *)
(* of at least MinJob, none larger than the schedule's.                    *)
TailCuts(lo, hi) ==
    LET target == Least(JobEnd("growing", lo) - lo, Most(DivCeil(hi - lo, Burst), MinJob))
        n == DivCeil(hi - lo, target)
    IN  [i \in 1 .. n |-> lo + ((hi - lo) * i) \div n]

(* build_bounds                                                            *)
Bounds(grid, lo, hi) ==
    IF grid = "fixed" THEN Walk(grid, lo, hi)
    ELSE LET walk == Walk(grid, lo, EpochFloor(hi))
             from == walk[Len(walk)]
         IN  IF from < hi THEN walk \o TailCuts(from, hi) ELSE walk

(* Reference: the cuts of a frame of n bytes that is buffered whole before  *)
(* its first job is posted.                                                *)
FrameCuts(grid, n) == Bounds(grid, 0, n)
=============================================================================
