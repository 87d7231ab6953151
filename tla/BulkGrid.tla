------------------------------- MODULE BulkGrid -------------------------------
(***************************************************************************)
(* How the bulk encoder lays out a frame (encoding/mt.rs): the job size     *)
(* formulas, the capture grid of the frames that keep long-distance matches *)
(* across jobs, the plan that shares their history, and the reach gate that *)
(* may encode the head of the frame before any job starts.  All of it is a  *)
(* function of the input; sizes are in any one unit.                        *)
(***************************************************************************)
EXTENDS Integers

CONSTANTS
    MinMtInput, MinJobSize, MaxJobSize, CaptureJobCap,
    ProbeSpan, ProbeMinFrame, KeepReach, ShrinkReach,
    LdmMidsizeWindow, LdmFullWindow, SpfMinPrefix, SpfSeg

BulkGridAssumption ==
    /\ {MinMtInput, MinJobSize, MaxJobSize, CaptureJobCap, ProbeSpan, ProbeMinFrame, KeepReach,
        LdmMidsizeWindow, LdmFullWindow, SpfMinPrefix, SpfSeg} \subseteq Nat \ {0}
    /\ ShrinkReach \in Nat
    /\ MinJobSize <= CaptureJobCap /\ CaptureJobCap <= MaxJobSize

(* What the layout reads of a frame: its length, the level's row with its   *)
(* match window and chain reach, and what the screens say of its head.      *)
Rows == {"fast", "chain", "btlazy", "opt"}
JobChoices == {"keep", "shrink"}
FrameInputs ==
    [len : Nat \ {0}, workers : Nat, row : Rows, window : Nat, reach : Nat \ {0},
     ldm : {"auto", "enable", "disable"}, dict : BOOLEAN,
     parses : BOOLEAN,        \* ldm_head_parses
     far : BOOLEAN,           \* far_screen: the head has far repeats
     wide : BOOLEAN,          \* head_predicts_keep
     probe : JobChoices]

Min2(a, b) == IF a < b THEN a ELSE b
Max2(a, b) == IF a < b THEN b ELSE a
CeilDiv(a, b) == (a + b - 1) \div b
Clamp(x, lo, hi) == Min2(Max2(x, lo), hi)

NJobs(len, job) == CeilDiv(len, job)

(* Twice as many jobs as workers, floored by the overlap each job redoes.   *)
JobSizeFor(len, workers, overlap) ==
    Min2(Max2(CeilDiv(len, 2 * workers), Max2(MinJobSize, overlap)), MaxJobSize)

BtlazyJobSize(overlap) == Clamp(4 * overlap, MinJobSize, MaxJobSize)

JobSizeForLevel(f, overlap) ==
    IF f.row = "btlazy" THEN BtlazyJobSize(overlap) ELSE JobSizeFor(f.len, f.workers, overlap)

CaptureJobSize(len, reach) ==
    Clamp(CeilDiv(len, 8), Min2(Max2(MinJobSize, reach), CaptureJobCap), CaptureJobCap)

StripForChoice(f, choice) ==
    IF choice = "shrink" /\ f.row = "chain" /\ f.reach = KeepReach THEN ShrinkReach ELSE f.reach

(* The last job, of 1 .. n - 1, whose start lies inside the window; 0: none. *)
PrefixLastJob(n, job, window) ==
    IF n > 1 /\ window \div job >= 1 THEN Min2(window \div job, n - 1) ELSE 0

-----------------------------------------------------------------------------
(* Which long-distance class a frame is in.                                *)

(* A row's window when it is wide enough to carry the class; 0: none.       *)
RowWindow(f, row, choice) ==
    IF f.row = row /\ choice = "keep" /\ f.window >= LdmMidsizeWindow THEN f.window ELSE 0

FastWindow(f) ==
    IF f.row = "fast" /\ f.ldm = "auto" /\ f.len >= LdmMidsizeWindow
       /\ (f.len >= LdmFullWindow \/ f.far)
    THEN LdmFullWindow ELSE 0

NoBand == [class |-> "none", window |-> 0]

CaptureBand(f, choice) ==
    LET fast == FastWindow(f)
        window == Max2(RowWindow(f, "chain", choice), fast)
        parses == f.parses \/ (fast # 0 /\ f.len < LdmFullWindow)
    IN  IF f.ldm = "disable" \/ window = 0 \/ ~parses THEN NoBand
        ELSE [class  |-> IF fast # 0 THEN "fast"
                         ELSE IF window >= LdmFullWindow THEN "windowed" ELSE "midsize",
              window |-> window]

DeepBand(f, choice) ==
    IF f.ldm # "disable" /\ f.parses THEN RowWindow(f, "btlazy", choice) ELSE 0

FeedBand(f, choice, n) ==
    IF f.ldm # "disable" /\ f.parses /\ ~f.dict /\ n > 1 THEN RowWindow(f, "opt", choice) ELSE 0

(* The grid is pinned where the class engages; 0: the job formula decides.  *)
CaptureGrid(f, choice) ==
    LET band == CaptureBand(f, choice)
        job  == CaptureJobSize(f.len, StripForChoice(f, choice))
    IN  IF band # NoBand /\ PrefixLastJob(NJobs(f.len, job), job, band.window) # 0 THEN job ELSE 0

NoPlan == [kind |-> "none", med |-> 0, stop |-> 0, cadence |-> 0]

(* Mutant of Median: the boundary is rounded up.                            *)
MedianUp(last, job) == (last \div 2 + 2) * job

Median(last, job) == (last \div 2 + 1) * job

PlanPrefixLdm(f, choice, job) ==
    LET band == CaptureBand(f, choice)
        n    == NJobs(f.len, job)
        last == PrefixLastJob(n, job, band.window)
        med  == Median(last, job)
        stop == (n - 1) * job
    IN  IF band = NoBand \/ last = 0 THEN NoPlan
        ELSE CASE band.class = "fast"     -> [NoPlan EXCEPT !.kind = "selffill", !.med = med]
               [] band.class = "midsize"  -> [NoPlan EXCEPT !.kind = "whole", !.med = med]
               [] band.class = "windowed" ->
                    [kind |-> "windowed", med |-> med, stop |-> stop,
                     cadence |-> Max2((stop - med) \div 12, SpfSeg)]

-----------------------------------------------------------------------------
(* The reach gate: whether the probe runs, as job zero's own first span, and *)
(* what it decides.                                                        *)
Eligible(f) == f.row = "chain" /\ f.reach = KeepReach /\ f.len >= ProbeMinFrame

Grid(f, choice, plain) == IF CaptureGrid(f, choice) # 0 THEN CaptureGrid(f, choice) ELSE plain

Gated(f) ==
    /\ ~f.dict /\ Eligible(f)
    /\ JobSizeFor(f.len, Max2(f.workers, 2), StripForChoice(f, "keep")) >= ProbeSpan

ReachGate(f) ==
    LET keepJob == Grid(f, "keep", JobSizeFor(f.len, Max2(f.workers, 2), StripForChoice(f, "keep")))
        plan    == PlanPrefixLdm(f, "keep", keepJob)
        choice  == IF f.wide THEN "keep" ELSE f.probe
    IN  IF Gated(f)
        THEN [choice |-> choice, donated |-> ~f.wide /\ choice = "keep",
              plan |-> IF choice = "keep" THEN plan ELSE NoPlan, prefix |-> plan # NoPlan]
        ELSE [choice |-> IF ~f.dict /\ Eligible(f) THEN f.probe ELSE "keep",
              donated |-> FALSE, plan |-> NoPlan, prefix |-> FALSE]

(* The layout compress_slice_mt runs behind its gate: its jobs, threads and *)
(* plan, and the far class of the rows that share nothing.                 *)
LaidOut(f, gate, job) ==
    LET n     == NJobs(f.len, job)
        plan  == IF gate.choice # "keep" THEN NoPlan
                 ELSE IF gate.plan # NoPlan THEN gate.plan
                 ELSE PlanPrefixLdm(f, gate.choice, job)
        strip == StripForChoice(f, gate.choice)
        deep  == DeepBand(f, gate.choice)
        feed  == FeedBand(f, gate.choice, n)
        capture == IF plan = NoPlan THEN 0 ELSE CaptureBand(f, gate.choice).window
        wide  == {w \in {deep, capture, feed} : w # 0}
    IN  [job |-> job, n |-> n, threads |-> Min2(f.workers, n), plan |-> plan,
         deep |-> deep # 0, feed |-> feed, strip |-> strip,
         overlap |-> IF wide = {} THEN strip ELSE CHOOSE w \in wide : TRUE,
         donated |-> gate.donated, prefix |-> gate.prefix]

(* A set of one, so that TLC decides the gate and the job size once.        *)
Layout(f) ==
    LET jobOf(gate) ==
            Grid(f, gate.choice, JobSizeForLevel(f, StripForChoice(f, gate.choice)))
    IN  CHOOSE l \in UNION {{LaidOut(f, gate, job) : job \in {jobOf(gate)}} :
                               gate \in {ReachGate(f)}} : TRUE

(* Inputs below the gate take the single-threaded encoder.                  *)
FallsBack(f) == f.workers < 2 \/ f.len < MinMtInput

-----------------------------------------------------------------------------
(* What the rest of the encoder takes for granted of a layout, some of it   *)
(* in debug assertions: the jobs cover the input, each of them with bytes;  *)
(* a donated head lies in job zero; a plan was armed for where job zero     *)
(* parsed, on the grid it was laid out on, with a prefix worth sharing and  *)
(* a job beyond its boundary (stop - med does not underflow); a windowed    *)
(* build publishes 13 snapshots at most; and the grid of a frame that       *)
(* shares history, hence its bytes, is the same for every number of workers. *)
LayoutSound(f) ==
    ~FallsBack(f) => \A l \in {Layout(f)} :
        /\ (l.n - 1) * l.job < f.len /\ f.len <= l.n * l.job
        /\ l.donated => ProbeSpan <= Min2(l.job, f.len)
        /\ l.plan # NoPlan =>
            /\ l.prefix \/ FastWindow(f) # 0 \/ f.dict
            /\ l.job = CaptureGrid(f, "keep")
            /\ PrefixLastJob(l.n, l.job, CaptureBand(f, "keep").window) * l.job >= SpfMinPrefix
            /\ l.plan.med <= (l.n - 1) * l.job
            /\ l.plan.kind = "windowed" => (l.plan.stop - l.plan.med) \div l.plan.cadence <= 13
            /\ \A other \in {Layout(g) : g \in {[f EXCEPT !.workers = w] : w \in {2, 5, 64}}} :
                   other.job = l.job /\ other.plan = l.plan
=============================================================================
