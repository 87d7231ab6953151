------------------------------- MODULE StageA -------------------------------
(***************************************************************************)
(* Stage A of the parallel decoder: the job that the calling thread shares *)
(* with the leased pool workers, and the loop each worker runs on it       *)
(* (decoding/mt.rs, StageAJob and serve_stagea).                           *)
(*                                                                         *)
(* A worker claims segment ids from a shared counter, sleeps while its     *)
(* segment runs too far ahead of the executed ones, decodes the segment    *)
(* into its slot and wakes everyone parked on the job's condition          *)
(* variable.  MtDecode adds the ordered consumer, MtFrames the frame lanes.*)
(***************************************************************************)
EXTENDS Integers, FiniteSets

CONSTANTS
    Worker,     \* the leased pool threads
    N,          \* n_segments
    Window,     \* how far staging may run ahead of execution
    LaneMode    \* the job was built by for_lanes: it publishes segment sizes

ASSUME StageAAssumption ==
    /\ Worker # {}
    /\ IsFiniteSet(Worker)
    /\ N \in Nat \ {0}
    /\ Window \in Nat \ {0}
    /\ LaneMode \in BOOLEAN

Seg == 0 .. N - 1

(* What decode_segment does on a segment: return its staging, return an    *)
(* error, or unwind.  It is a function of the input, so it is fixed.       *)
Staging == {"ok", "err", "panic"}

(* Slot contents: nothing, what decode_segment returned, or the error that *)
(* a panicking worker leaves behind to release the consumer.               *)
SlotValue == {"none", "ok", "err", "sentinel"}

VARIABLES
    staging,    \* staging[s]: what staging segment s does
    nextJob,    \* next_job
    executed,   \* consumed (serial mode) or consumed_count (lane mode)
    abort,      \* abort
    poison,     \* whether poison holds a panic payload
    slots,      \* slots[s]
    published,  \* seg_sizes[s]: "none", "size" or "err"
    waiting,    \* threads in an untimed wait on ready
    wpc,        \* where each worker is in serve_stagea
    job         \* the segment each worker has claimed

stageVars == <<staging, nextJob, executed, abort, poison, slots, published,
               waiting, wpc, job>>

StageTypeOK ==
    /\ staging \in [Seg -> Staging]
    /\ nextJob \in Nat
    /\ executed \in 0 .. N
    /\ abort \in BOOLEAN
    /\ poison \in BOOLEAN
    /\ slots \in [Seg -> SlotValue]
    /\ published \in [Seg -> {"none", "size", "err"}]
    /\ wpc \in [Worker -> {"top", "claim", "gate", "stage", "fill", "notify", "left"}]
    /\ job \in [Worker -> Seg]

StageInit ==
    /\ staging \in [Seg -> Staging]
    /\ nextJob = 0
    /\ executed = 0
    /\ abort = FALSE
    /\ poison = FALSE
    /\ slots = [s \in Seg |-> "none"]
    /\ published = [s \in Seg |-> "none"]
    /\ waiting = {}
    /\ wpc = [w \in Worker |-> "top"]
    /\ job = [w \in Worker |-> 0]

Stop == abort \/ poison

(* Mutant of Ahead: the window is one segment too wide.                    *)
AheadOffByOne(s) == s > executed + Window + 1

(* The predicate of the backpressure sleep.                                *)
Ahead(s) == s > executed + Window

Goto(w, l) == wpc' = [wpc EXCEPT ![w] = l]

-----------------------------------------------------------------------------
(* One round of serve_stagea.  "left" is the state after leave_lease: the  *)
(* thread no longer touches the job.                                       *)

CheckStop(w) ==
    /\ wpc[w] = "top"
    /\ Goto(w, IF Stop THEN "left" ELSE "claim")
    /\ UNCHANGED <<staging, nextJob, executed, abort, poison, slots, published, waiting, job>>

(* The claim is one fetch_add.                                             *)
Claim(w) ==
    /\ wpc[w] = "claim"
    /\ nextJob' = nextJob + 1
    /\ IF nextJob < N
         THEN Goto(w, "gate") /\ job' = [job EXCEPT ![w] = nextJob]
         ELSE Goto(w, "left") /\ UNCHANGED job
    /\ UNCHANGED <<staging, executed, abort, poison, slots, published, waiting>>

(* The sleep is timed, so the worker re-evaluates the predicate whether or *)
(* not it is notified; abort is checked inside the loop and after it.      *)
Gate(w) ==
    /\ wpc[w] = "gate"
    /\ \/ abort /\ Goto(w, "left")
       \/ ~abort /\ ~Ahead(job[w]) /\ Goto(w, "stage")
    /\ UNCHANGED <<staging, nextJob, executed, abort, poison, slots, published, waiting, job>>

(* decode_segment under catch_unwind.  In lane mode an outcome is published*)
(* before the slot is filled; a panic publishes nothing and sets poison.   *)
Stage(w) ==
    /\ wpc[w] = "stage"
    /\ Goto(w, "fill")
    /\ poison' = (poison \/ staging[job[w]] = "panic")
    /\ published' = IF LaneMode /\ staging[job[w]] # "panic"
                      THEN [published EXCEPT ![job[w]] =
                                IF staging[job[w]] = "ok" THEN "size" ELSE "err"]
                      ELSE published
    /\ UNCHANGED <<staging, nextJob, executed, abort, slots, waiting, job>>

(* Mutant of Fill: a panicking worker leaves its slot empty.               *)
FillUnlessPanic(w) ==
    /\ wpc[w] = "fill"
    /\ slots' = [slots EXCEPT ![job[w]] = IF staging[job[w]] = "panic" THEN @ ELSE staging[job[w]]]
    /\ Goto(w, "notify")
    /\ UNCHANGED <<staging, nextJob, executed, abort, poison, published, waiting, job>>

(* Store the outcome under the slot's mutex.                               *)
Fill(w) ==
    /\ wpc[w] = "fill"
    /\ slots' = [slots EXCEPT ![job[w]] =
                    IF staging[job[w]] = "panic" THEN "sentinel" ELSE staging[job[w]]]
    /\ Goto(w, "notify")
    /\ UNCHANGED <<staging, nextJob, executed, abort, poison, published, waiting, job>>

(* notify_all; a thread that has seen an unwind retires.                   *)
Notify(w) ==
    /\ wpc[w] = "notify"
    /\ waiting' = {}
    /\ Goto(w, IF staging[job[w]] = "panic" THEN "left" ELSE "top")
    /\ UNCHANGED <<staging, nextJob, executed, abort, poison, slots, published, job>>

WorkerStep(w) ==
    \/ CheckStop(w) \/ Claim(w) \/ Gate(w) \/ Stage(w) \/ Fill(w) \/ Notify(w)

=============================================================================
