------------------------------ MODULE StreamMt ------------------------------
(***************************************************************************)
(* The streaming multi-threaded encoder (stream/encoder_mt.rs).            *)
(*                                                                         *)
(* The calling thread appends the input to a buffer, cuts it into jobs     *)
(* that hold raw views of the buffer, posts them to a queue that leased    *)
(* worker threads serve, and assembles the finished ones in post order.    *)
(* The buffer may only move when no job is incomplete.  A worker's panic   *)
(* is published to the caller, which resumes it.  A call that panics       *)
(* returns to the user, who may call again: the caller is a sequence of    *)
(* calls on one encoder.                                                   *)
(*                                                                         *)
(* Jobs are numbered in post order: queued are those after claimed,        *)
(* pending those after assembled.                                          *)
(***************************************************************************)
EXTENDS StreamGrid, FiniteSets

CONSTANTS
    Worker,     \* the workers a frame wants
    Step,       \* PUMP_STEP_MAX
    Slack,      \* the 64 KiB of make_space and initial_reserve
    Modes,      \* how the encoder is fed: among "write", "read", "owned"
    Pledges,    \* the pledges to consider; NoPledge for an open-ended frame
    Chunks,     \* the lengths of a write
    Sources,    \* the lengths of an owned source
    MaxPos,     \* bound: the input's length
    MaxFaults,  \* bound: worker panics and refused spawns
    MaxUnwinds  \* bound: panics the user catches before giving up

NoPledge == -1

ASSUME StreamMtAssumption ==
    /\ Worker # {} /\ IsFiniteSet(Worker)
    /\ Step \in Nat \ {0}
    /\ Slack \in Nat
    /\ Modes \subseteq {"write", "read", "owned"}
    /\ Pledges \subseteq Nat \cup {NoPledge}
    /\ Chunks \subseteq Nat \ {0} /\ Sources \subseteq Nat \ {0}
    /\ MaxPos \in Nat /\ MaxFaults \in Nat /\ MaxUnwinds \in Nat

VARIABLES
    mode, pledged,          \* chosen at construction
    pos, jobStart, hashed,  \* offsets fed, posted, absorbed by the checksum
    header, finishing, finished, closeEmpty,
    output, delivered,      \* the frame's parts, and how many the reader took
    flushed,                \* history: a flush has moved the grid
    base, cap, moves,       \* buf_base, capacity; how often the bytes moved
    jobs, claimed, assembled,
    incomplete, completed,  \* n_incomplete, completed
    payload, poisoned,      \* inner.poison is there; the flag
    shutdown,
    pool,                   \* pool_threads
    wpc, wjob,              \* each worker's place and job
    op, pc,                 \* the call the caller is in, and where
    todo,                   \* what is left of a write
    plan,                   \* the jobs about to be posted
    ret,                    \* where a nested call returns to
    before,                 \* the snapshot of completed in wait_progress
    faults, unwinds

frameVars == <<mode, pledged, pos, jobStart, hashed, header, finishing, finished,
               closeEmpty, output, delivered, flushed>>
bufferVars == <<base, cap, moves>>
queueVars == <<jobs, claimed, incomplete, completed, payload, poisoned>>
poolVars == <<shutdown, pool, wpc, wjob>>
callVars == <<op, pc, todo, plan, ret, before>>
vars == <<frameVars, bufferVars, queueVars, assembled, poolVars, callVars, faults, unwinds>>

Grid == IF pledged = NoPledge THEN "growing" ELSE "fixed"
Job == [lo : Nat, hi : Nat, last : BOOLEAN, view : Nat, gen : Nat,
        state : {"posted", "done", "aborted"}]
Part == [lo : Nat, hi : Nat, last : BOOLEAN, hole : BOOLEAN]

TypeOK ==
    /\ mode \in Modes /\ pledged \in Pledges
    /\ hashed \in 0 .. pos /\ jobStart \in 0 .. pos
    /\ {header, finishing, finished, closeEmpty, flushed} \subseteq BOOLEAN
    /\ output \in Seq(Part) /\ delivered \in 0 .. Len(output)
    /\ base \in 0 .. jobStart /\ cap \in Nat /\ moves \in Nat
    /\ jobs \in Seq(Job)
    /\ claimed \in 0 .. Len(jobs) /\ assembled \in 0 .. Len(jobs)
    /\ incomplete \in 0 .. Len(jobs) + 1 /\ completed \in 0 .. Len(jobs)
    /\ {payload, poisoned, shutdown} \subseteq BOOLEAN
    /\ pool \subseteq Worker
    /\ wpc \in [Worker -> {"none", "claim", "asleep", "run", "payload", "flag", "abort",
                           "count", "tick", "left"}]
    /\ wjob \in [Worker -> 0 .. Len(jobs)]
    /\ op \in {"none", "write", "pull", "flush", "finish", "drop"}
    /\ pc \in {"idle", "feed", "space", "full", "ready", "post", "register", "push", "begin",
               "encode", "drain", "pending", "drained", "wait", "parked", "surface",
               "settle", "leave", "gone"}
    /\ todo \in Nat /\ before \in Nat

(* initial_reserve; a pooled buffer may be larger.                         *)
InitialReserve ==
    LET job == IF Grid = "fixed" THEN Size ELSE Most(MinJob, Overlap)
    IN  Least(Most(Cardinality(Worker), 2) * job + Overlap + Slack, BufCapMax)

Init ==
    /\ mode \in Modes /\ pledged \in Pledges
    /\ pos = 0 /\ jobStart = 0 /\ hashed = 0
    /\ header = FALSE /\ finishing = FALSE /\ finished = FALSE /\ closeEmpty = FALSE
    /\ output = <<>> /\ delivered = 0
    /\ flushed = FALSE
    /\ base = 0 /\ moves = 0
    /\ cap \in IF mode = "owned" THEN {0} ELSE {InitialReserve, BufCapMax}
    /\ jobs = <<>> /\ claimed = 0 /\ assembled = 0
    /\ incomplete = 0 /\ completed = 0
    /\ payload = FALSE /\ poisoned = FALSE
    /\ shutdown = FALSE /\ pool = {}
    /\ wpc = [w \in Worker |-> "none"] /\ wjob = [w \in Worker |-> 0]
    /\ op = "none" /\ pc = "idle" /\ todo = 0 /\ plan = <<>> /\ ret = "none" /\ before = 0
    /\ faults = 0 /\ unwinds = 0

Buffered == pos - base      \* buf.len()
Quiescent == incomplete = 0
Strip(o) == Most(o - Overlap, 0)

(* The caller moves on within a call, or is through with it.               *)
Goto(p) == pc' = p /\ UNCHANGED <<op, todo, plan, ret, before>>
Return ==
    /\ op' = "none" /\ pc' = "idle"
    /\ todo' = 0 /\ plan' = <<>> /\ ret' = "none" /\ before' = 0

-----------------------------------------------------------------------------
(* The user's calls.  Once a call has panicked the user finishes, as       *)
(* AutoFinishEncoder does when it is dropped, or drops.                    *)
Callable == pc = "idle" /\ ~finished /\ unwinds = 0

(* write; a write beyond the pledge is refused before anything changes.    *)
Write(n) ==
    /\ Callable /\ mode = "write"
    /\ pos + n <= IF pledged = NoPledge THEN MaxPos ELSE Least(pledged, MaxPos)
    /\ op' = "write" /\ todo' = n /\ pc' = "feed"
    /\ UNCHANGED <<frameVars, bufferVars, queueVars, assembled, poolVars, plan, ret, before,
                   faults, unwinds>>

(* pump_direct: the reader has taken all output when it pulls again.       *)
Pull ==
    /\ Callable /\ mode = "read"
    /\ delivered' = Len(output)
    /\ op' = "pull"
    /\ pc' = IF finishing THEN "drain" ELSE IF Buffered = cap THEN "space" ELSE "feed"
    /\ UNCHANGED <<mode, pledged, pos, jobStart, hashed, header, finishing, finished,
                   closeEmpty, output, flushed, bufferVars, queueVars, assembled, poolVars,
                   todo, plan, ret, before, faults, unwinds>>

(* pump_owned: the whole source, not empty here, is fed at once.           *)
PullOwned(n) ==
    /\ Callable /\ mode = "owned"
    /\ pos \in {0, n}
    /\ delivered' = Len(output)
    /\ op' = "pull"
    /\ IF finishing THEN pc' = "drain" /\ UNCHANGED pos ELSE pc' = "ready" /\ pos' = n
    /\ UNCHANGED <<mode, pledged, jobStart, hashed, header, finishing, finished, closeEmpty,
                   output, flushed, bufferVars, queueVars, assembled, poolVars,
                   todo, plan, ret, before, faults, unwinds>>

(* flush_block                                                             *)
Flush ==
    /\ Callable /\ mode = "write"
    /\ op' = "flush" /\ pc' = "begin"
    /\ UNCHANGED <<frameVars, bufferVars, queueVars, assembled, poolVars,
                   todo, plan, ret, before, faults, unwinds>>

(* finish                                                                  *)
Finish ==
    /\ pc = "idle" /\ ~finished /\ unwinds <= MaxUnwinds
    /\ op' = "finish" /\ pc' = IF finishing THEN "drain" ELSE "begin"
    /\ UNCHANGED <<frameVars, bufferVars, queueVars, assembled, poolVars,
                   todo, plan, ret, before, faults, unwinds>>

(* notify_all on wake: sleeping workers look at the queue again.           *)
Woken == [w \in Worker |-> IF wpc[w] = "asleep" THEN "claim" ELSE wpc[w]]

(* Drop: shutdown and its notify_all ...                                   *)
Drop ==
    /\ pc = "idle"
    /\ op' = "drop" /\ pc' = "leave"
    /\ shutdown' = (pool # {})
    /\ wpc' = Woken
    /\ UNCHANGED <<frameVars, bufferVars, queueVars, assembled, pool, wjob,
                   todo, plan, ret, before, faults, unwinds>>

(* ... wait_leave on every lease; then the buffer goes back to its pool.   *)
WaitLeave ==
    /\ pc = "leave"
    /\ \A w \in pool : wpc[w] = "left"
    /\ moves' = moves + 1
    /\ Goto("gone")
    /\ UNCHANGED <<frameVars, base, cap, queueVars, assembled, poolVars, faults, unwinds>>

-----------------------------------------------------------------------------
(* Feeding the buffer.                                                     *)

(* The loop of write.                                                      *)
FeedWrite ==
    /\ pc = "feed" /\ op = "write"
    /\ CASE todo = 0 -> Return /\ UNCHANGED pos
         [] todo > 0 /\ Buffered = cap -> Goto("space") /\ UNCHANGED pos
         [] OTHER -> LET n == Least(cap - Buffered, todo)
                     IN  /\ pos' = pos + n
                         /\ todo' = todo - n
                         /\ pc' = "ready"
                         /\ UNCHANGED <<op, plan, ret, before>>
    /\ UNCHANGED <<mode, pledged, jobStart, hashed, header, finishing, finished, closeEmpty,
                   output, delivered, flushed, bufferVars, queueVars, assembled, poolVars,
                   faults, unwinds>>

(* The read of pump_direct: nothing is the end of the source; a total past *)
(* the pledge is an error.                                                 *)
FeedRead(n) ==
    /\ pc = "feed" /\ op = "pull"
    /\ n <= Least(Step, cap - Buffered) /\ pos + n <= MaxPos
    /\ pos' = pos + n
    /\ IF n > 0 /\ pledged # NoPledge /\ pos + n > pledged THEN Return
       ELSE Goto(IF n = 0 THEN "begin" ELSE "ready")
    /\ UNCHANGED <<mode, pledged, jobStart, hashed, header, finishing, finished, closeEmpty,
                   output, delivered, flushed, bufferVars, queueVars, assembled, poolVars,
                   faults, unwinds>>

(* make_space: wait for quiescence ...                                     *)
Want == IF op = "write" THEN Least(todo, Step) ELSE 1

MakeSpaceWait ==
    /\ pc = "space" /\ ~Quiescent
    /\ Goto("full")
    /\ UNCHANGED <<frameVars, bufferVars, queueVars, assembled, poolVars, faults, unwinds>>

CheckPoisoned ==
    /\ pc = "full"
    /\ IF poisoned THEN Goto("surface")
       ELSE pc' = "wait" /\ ret' = "space" /\ UNCHANGED <<op, todo, plan, before>>
    /\ UNCHANGED <<frameVars, bufferVars, queueVars, assembled, poolVars, faults, unwinds>>

(* Mutant of MakeSpace: the bytes move under the jobs that read them.      *)
MakeSpaceEager ==
    /\ pc = "space"
    /\ base' = Strip(jobStart)
    /\ cap' = Most(pos - Strip(jobStart) + Want + Slack, Least(2 * cap, BufCapMax))
    /\ moves' = moves + 1
    /\ Goto("feed")
    /\ UNCHANGED <<frameVars, queueVars, assembled, poolVars, faults, unwinds>>

(* ... then drop the dead prefix and grow.                                 *)
MakeSpace ==
    /\ pc = "space" /\ Quiescent
    /\ LET len == pos - Strip(jobStart)
           grows == len + Want > cap \/ cap < BufCapMax
       IN  /\ base' = Strip(jobStart)
           /\ cap' = IF grows THEN Most(len + Want + Slack, Least(2 * cap, BufCapMax)) ELSE cap
           /\ moves' = IF grows \/ base' > base THEN moves + 1 ELSE moves
    /\ Goto("feed")
    /\ UNCHANGED <<frameVars, queueVars, assembled, poolVars, faults, unwinds>>

(* Mutant of PostDue: the growing grid posts whatever job is complete.     *)
PostDueGreedy(end) ==
    IF Grid = "fixed" THEN pos >= end /\ ~(end >= pledged /\ pos <= pledged)
                      ELSE pos >= end

(* post_due                                                                *)
PostDue(end) ==
    IF Grid = "fixed" THEN pos >= end /\ ~(end >= pledged /\ pos <= pledged)
                      ELSE pos >= EpochEnd(jobStart)

(* post_ready                                                              *)
PostReady ==
    /\ pc = "ready"
    /\ LET job == JobEnd(Grid, jobStart)
           end == IF Grid = "growing" THEN Least(job, EpochEnd(jobStart)) ELSE job
       IN  IF PostDue(end)
           THEN /\ plan' = <<jobStart, end>>
                /\ ret' = "ready" /\ pc' = "post"
                /\ UNCHANGED <<op, todo, before>>
           ELSE IF mode = "read" THEN Return
           ELSE Goto(IF op = "write" THEN "feed" ELSE "begin")
    /\ UNCHANGED <<frameVars, bufferVars, queueVars, assembled, poolVars, faults, unwinds>>

-----------------------------------------------------------------------------
(* Posting and assembling.  plan holds the cuts still to be posted.        *)

(* assemble_ready: the finished jobs at the front become output.           *)
Ready == {k \in assembled .. Len(jobs) :
             \A j \in assembled + 1 .. k : jobs[j].state # "posted"}
Assembled == CHOOSE k \in Ready : \A j \in Ready : j <= k
PartOf(j) == [lo |-> jobs[j].lo, hi |-> jobs[j].hi, last |-> jobs[j].last,
              hole |-> jobs[j].state = "aborted"]

AssembleReady ==
    /\ assembled' = Assembled
    /\ output' = output \o [i \in 1 .. Assembled - assembled |-> PartOf(assembled + i)]

(* post_job: surface_poison first ...                                      *)
PostCheck ==
    /\ pc = "post"
    /\ Goto(IF poisoned THEN "surface" ELSE "register")
    /\ UNCHANGED <<frameVars, bufferVars, queueVars, assembled, poolVars, faults, unwinds>>

(* ... then assemble, lease the workers at the first post, count the job   *)
(* as incomplete ...                                                       *)
Register ==
    /\ pc = "register"
    /\ AssembleReady
    /\ header' = TRUE
    /\ pool' = IF pool = {} THEN Worker ELSE pool
    /\ wpc' = [w \in Worker |-> IF pool = {} THEN "claim" ELSE wpc[w]]
    /\ incomplete' = incomplete + 1
    /\ Goto("push")
    /\ UNCHANGED <<mode, pledged, pos, jobStart, hashed, finishing, finished, closeEmpty,
                   delivered, flushed, bufferVars, jobs, claimed, completed, payload,
                   poisoned, shutdown, wjob, faults, unwinds>>

Unwind == Return /\ unwinds' = unwinds + 1

(* A thread is refused: the call panics with the leases secured so far.    *)
SpawnFails(S) ==
    /\ pc = "register" /\ pool = {} /\ faults < MaxFaults
    /\ S # Worker
    /\ AssembleReady
    /\ header' = TRUE
    /\ pool' = S
    /\ wpc' = [w \in Worker |-> IF w \in S THEN "claim" ELSE "none"]
    /\ Unwind
    /\ faults' = faults + 1
    /\ UNCHANGED <<mode, pledged, pos, jobStart, hashed, finishing, finished, closeEmpty,
                   delivered, flushed, bufferVars, queueVars, shutdown, wjob>>

(* Mutant of Push: a flush returns once its jobs are posted.               *)
PushUndrained ==
    /\ pc = "push"
    /\ LET more == Len(plan) > 2
           end == plan[2]
           closes == ret = "encode" /\ op # "flush" /\ ~more
       IN  /\ jobs' = Append(jobs, [lo |-> plan[1], hi |-> end, last |-> closes,
                                    view |-> Strip(plan[1]), gen |-> moves,
                                    state |-> "posted"])
           /\ hashed' = end
           /\ jobStart' = IF more THEN jobStart ELSE end
           /\ finishing' = (finishing \/ closes)
           /\ plan' = IF more THEN Tail(plan) ELSE <<>>
           /\ pc' = IF more THEN "post" ELSE IF ret = "ready" THEN "ready"
                    ELSE IF op = "flush" THEN "idle" ELSE "drain"
    /\ wpc' = Woken
    /\ UNCHANGED <<mode, pledged, pos, header, finished, closeEmpty, output, delivered,
                   flushed, bufferVars, claimed, incomplete, completed, payload, poisoned,
                   assembled, shutdown, pool, wjob, op, todo, ret, before, faults, unwinds>>

(* ... and push it.  The cuts of a flush or finish are posted one after    *)
(* another, job_start follows at the end.                                  *)
Push ==
    /\ pc = "push"
    /\ LET more == Len(plan) > 2
           end == plan[2]
           closes == ret = "encode" /\ op # "flush" /\ ~more
       IN  /\ jobs' = Append(jobs, [lo |-> plan[1], hi |-> end, last |-> closes,
                                    view |-> Strip(plan[1]), gen |-> moves,
                                    state |-> "posted"])
           /\ hashed' = end
           /\ jobStart' = IF more THEN jobStart ELSE end
           /\ finishing' = (finishing \/ closes)
           /\ plan' = IF more THEN Tail(plan) ELSE <<>>
           /\ pc' = IF more THEN "post" ELSE IF ret = "encode" THEN "drain" ELSE "ready"
    /\ wpc' = Woken
    /\ UNCHANGED <<mode, pledged, pos, header, finished, closeEmpty, output, delivered,
                   flushed, bufferVars, claimed, incomplete, completed, payload, poisoned,
                   assembled, shutdown, pool, wjob, op, todo, ret, before, faults, unwinds>>

-----------------------------------------------------------------------------
(* Flushing and finishing.                                                 *)

(* finish_begin and flush_block up to their posts: the pledge gate, a      *)
(* surfaced panic, then the rest of the input or an empty closing block.   *)
Begin ==
    /\ pc = "begin"
    /\ IF op # "flush" /\ pledged \notin {NoPledge, pos} THEN
            Return /\ UNCHANGED <<header, closeEmpty, finishing, flushed>>
       ELSE IF poisoned THEN
            Goto("surface") /\ UNCHANGED <<header, closeEmpty, finishing, flushed>>
       ELSE IF pos > jobStart THEN
            /\ Goto("encode")
            /\ flushed' = (flushed \/ op = "flush")
            /\ UNCHANGED <<header, closeEmpty, finishing>>
       ELSE /\ Goto("drain")
            /\ header' = (header \/ op # "flush")
            /\ closeEmpty' = (closeEmpty \/ op # "flush")
            /\ finishing' = (finishing \/ op # "flush")
            /\ UNCHANGED flushed
    /\ UNCHANGED <<mode, pledged, pos, jobStart, hashed, finished, output, delivered,
                   bufferVars, queueVars, assembled, poolVars, faults, unwinds>>

(* encode_jobs: a single job without a pool runs inline (run_inline_job),  *)
(* the others are posted.                                                  *)
EncodeInline ==
    /\ pc = "encode"
    /\ pool = {} /\ Len(Bounds(Grid, jobStart, pos)) = 2
    /\ header' = TRUE
    /\ output' = Append(output, [lo |-> jobStart, hi |-> pos, last |-> op # "flush",
                                 hole |-> FALSE])
    /\ hashed' = pos /\ jobStart' = pos
    /\ finishing' = (finishing \/ op # "flush")
    /\ IF op = "flush" THEN Return ELSE Goto("drain")
    /\ UNCHANGED <<mode, pledged, pos, finished, closeEmpty, delivered, flushed,
                   bufferVars, queueVars, assembled, poolVars, faults, unwinds>>

EncodeJobs ==
    /\ pc = "encode"
    /\ LET cuts == Bounds(Grid, jobStart, pos)
       IN  /\ ~(pool = {} /\ Len(cuts) = 2)
           /\ plan' = cuts
    /\ header' = TRUE
    /\ ret' = "encode" /\ pc' = "post"
    /\ UNCHANGED <<mode, pledged, pos, jobStart, hashed, finishing, finished, closeEmpty,
                   output, delivered, flushed, bufferVars, queueVars, assembled, poolVars,
                   op, todo, before, faults, unwinds>>

(* drain_all and finish_step: assemble; the read path hands output over    *)
(* before it waits on.                                                     *)
Drain ==
    /\ pc = "drain"
    /\ AssembleReady
    /\ IF Assembled < Len(jobs) /\ op = "pull" /\ Len(output') > delivered THEN Return
       ELSE Goto(IF Assembled = Len(jobs) THEN "drained" ELSE "pending")
    /\ UNCHANGED <<mode, pledged, pos, jobStart, hashed, header, finishing, finished,
                   closeEmpty, delivered, flushed, bufferVars, queueVars, poolVars,
                   faults, unwinds>>

Pending ==
    /\ pc = "pending"
    /\ IF Quiescent
       THEN Goto(IF poisoned THEN "surface" ELSE "drain")
       ELSE pc' = "wait" /\ ret' = "drain" /\ UNCHANGED <<op, todo, plan, before>>
    /\ UNCHANGED <<frameVars, bufferVars, queueVars, assembled, poolVars, faults, unwinds>>

(* Everything is assembled: a panic surfaces, else the call is done;       *)
(* finish_end closes the frame.                                            *)
Drained ==
    /\ pc = "drained"
    /\ IF poisoned THEN Goto("surface") /\ UNCHANGED <<output, finished>>
       ELSE /\ Return
            /\ finished' = (op # "flush")
            /\ output' = IF op # "flush" /\ closeEmpty
                         THEN Append(output, [lo |-> pos, hi |-> pos, last |-> TRUE,
                                              hole |-> FALSE])
                         ELSE output
    /\ UNCHANGED <<mode, pledged, pos, jobStart, hashed, header, finishing, closeEmpty,
                   delivered, flushed, bufferVars, queueVars, assembled, poolVars,
                   faults, unwinds>>

-----------------------------------------------------------------------------
(* Mutant of NothingToAwait: only a panic ends the wait early.             *)
OnlyPanics == payload \/ shutdown

(* wait_progress: its conditions, the snapshot, and the timed wait, which  *)
(* looks at all of them again.                                             *)
Resume == pc' = ret /\ before' = 0 /\ UNCHANGED <<op, todo, plan, ret>>
NothingToAwait == payload \/ shutdown \/ Quiescent

Snapshot ==
    /\ pc = "wait"
    /\ IF NothingToAwait THEN Resume
       ELSE pc' = "parked" /\ before' = completed /\ UNCHANGED <<op, todo, plan, ret>>
    /\ UNCHANGED <<frameVars, bufferVars, queueVars, assembled, poolVars, faults, unwinds>>

Progressed ==
    /\ pc = "parked"
    /\ completed # before \/ NothingToAwait
    /\ Resume
    /\ UNCHANGED <<frameVars, bufferVars, queueVars, assembled, poolVars, faults, unwinds>>

(* surface_poison, the flag being set: take the payload and abort the      *)
(* queue under one lock ...                                                *)
SurfacePoison ==
    /\ pc = "surface" /\ payload
    /\ payload' = FALSE
    /\ jobs' = [j \in DOMAIN jobs |->
                   IF j > claimed THEN [jobs[j] EXCEPT !.state = "aborted"] ELSE jobs[j]]
    /\ claimed' = Len(jobs)
    /\ incomplete' = incomplete - (Len(jobs) - claimed)
    /\ Goto("settle")
    /\ UNCHANGED <<frameVars, bufferVars, completed, poisoned, assembled, poolVars,
                   faults, unwinds>>

(* ... or fail fast when it is gone: an earlier call has resumed it ...    *)
PayloadGone ==
    /\ pc = "surface" /\ ~payload
    /\ Unwind
    /\ UNCHANGED <<frameVars, bufferVars, queueVars, assembled, poolVars, faults>>

(* ... wait the claimed jobs out, assemble and resume the panic.           *)
Settle ==
    /\ pc = "settle"
    /\ IF Quiescent
       THEN AssembleReady /\ Unwind
       ELSE /\ pc' = "wait" /\ ret' = "settle"
            /\ UNCHANGED <<assembled, output, op, todo, plan, before, unwinds>>
    /\ UNCHANGED <<mode, pledged, pos, jobStart, hashed, header, finishing, finished,
                   closeEmpty, delivered, flushed, bufferVars, queueVars, poolVars, faults>>

-----------------------------------------------------------------------------
(* A worker: serve_queue.                                                  *)
Place(w, p) == wpc' = [wpc EXCEPT ![w] = p]

(* Under the lock: poison, then the queue, then shutdown, else sleep.      *)
Claim(w) ==
    /\ wpc[w] = "claim"
    /\ IF payload THEN Place(w, "left") /\ UNCHANGED <<claimed, wjob>>
       ELSE IF claimed < Len(jobs) THEN
            /\ claimed' = claimed + 1
            /\ wjob' = [wjob EXCEPT ![w] = claimed + 1]
            /\ Place(w, "run")
       ELSE Place(w, IF shutdown THEN "left" ELSE "asleep") /\ UNCHANGED <<claimed, wjob>>
    /\ UNCHANGED <<jobs, incomplete, completed, payload, poisoned, shutdown, pool, faults>>

MarkJob(w, state) == jobs' = [jobs EXCEPT ![wjob[w]].state = state]

(* The job succeeds: mark_done.                                            *)
RunJob(w) ==
    /\ wpc[w] = "run"
    /\ MarkJob(w, "done")
    /\ Place(w, "count")
    /\ UNCHANGED <<claimed, incomplete, completed, payload, poisoned, shutdown, pool, wjob,
                   faults>>

JobPanics(w) ==
    /\ wpc[w] = "run" /\ faults < MaxFaults
    /\ faults' = faults + 1
    /\ Place(w, "payload")
    /\ UNCHANGED <<queueVars, shutdown, pool, wjob>>

(* Mutant of PublishPayload: the job is aborted before the flag is set.    *)
PublishAborted(w) ==
    /\ wpc[w] = "payload"
    /\ payload' = TRUE
    /\ MarkJob(w, "aborted")
    /\ Place(w, "flag")
    /\ UNCHANGED <<claimed, incomplete, completed, poisoned, shutdown, pool, wjob, faults>>

(* publish_poison: the payload, then the flag, then the aborted job.       *)
PublishPayload(w) ==
    /\ wpc[w] = "payload"
    /\ payload' = TRUE
    /\ Place(w, "flag")
    /\ UNCHANGED <<jobs, claimed, incomplete, completed, poisoned, shutdown, pool, wjob, faults>>

PublishFlag(w) ==
    /\ wpc[w] = "flag"
    /\ poisoned' = TRUE
    /\ Place(w, "abort")
    /\ UNCHANGED <<jobs, claimed, incomplete, completed, payload, shutdown, pool, wjob, faults>>

Abort(w) ==
    /\ wpc[w] = "abort"
    /\ MarkJob(w, "aborted")
    /\ Place(w, "count")
    /\ UNCHANGED <<claimed, incomplete, completed, payload, poisoned, shutdown, pool, wjob,
                   faults>>

(* The two counters; then the next job, or the end of a worker that        *)
(* panicked.                                                               *)
Count(w) ==
    /\ wpc[w] = "count"
    /\ incomplete' = incomplete - 1
    /\ Place(w, "tick")
    /\ UNCHANGED <<jobs, claimed, completed, payload, poisoned, shutdown, pool, wjob, faults>>

Tick(w) ==
    /\ wpc[w] = "tick"
    /\ completed' = completed + 1
    /\ Place(w, IF jobs[wjob[w]].state = "aborted" THEN "left" ELSE "claim")
    /\ wjob' = [wjob EXCEPT ![w] = 0]
    /\ UNCHANGED <<jobs, claimed, incomplete, payload, poisoned, shutdown, pool, faults>>

ServeQueue(w) ==
    /\ \/ Claim(w) \/ RunJob(w) \/ JobPanics(w) \/ PublishPayload(w) \/ PublishFlag(w)
       \/ Abort(w) \/ Count(w) \/ Tick(w)
    /\ UNCHANGED <<frameVars, bufferVars, assembled, callVars, unwinds>>

-----------------------------------------------------------------------------
(* A call, once made, and the user who may make one.                       *)
InCall ==
    \/ WaitLeave
    \/ FeedWrite \/ (\E n \in 0 .. Step : FeedRead(n))
    \/ MakeSpaceWait \/ CheckPoisoned \/ MakeSpace
    \/ PostReady \/ PostCheck \/ Register \/ (\E S \in SUBSET Worker : SpawnFails(S)) \/ Push
    \/ Begin \/ EncodeInline \/ EncodeJobs \/ Drain \/ Pending \/ Drained
    \/ Snapshot \/ Progressed \/ SurfacePoison \/ PayloadGone \/ Settle

Call ==
    \/ \E n \in Chunks : Write(n)
    \/ Pull
    \/ \E n \in Sources : PullOwned(n)
    \/ Flush \/ Finish \/ Drop

Next == Call \/ InCall \/ \E w \in Worker : ServeQueue(w)

Spec == Init /\ [][Next]_vars

(* Threads are scheduled, a job ends, the timed wait looks again.  Nobody  *)
(* has to make a call.                                                     *)
Fairness ==
    /\ WF_vars(InCall)
    /\ \A w \in Worker : WF_vars(ServeQueue(w))

FairSpec == Spec /\ Fairness

-----------------------------------------------------------------------------
(* A worker reads a job's bytes where they were when the job was posted,   *)
(* and within the buffer: the buffer is neither moved, grown nor given     *)
(* back under it, whatever call or drop the user makes and whatever        *)
(* panicked.  What the checksum has yet to absorb is still there, too.     *)
BufferServes ==
    /\ \A w \in Worker : wpc[w] = "run" =>
           jobs[wjob[w]].gen = moves /\ jobs[wjob[w]].view >= base
    /\ base <= hashed

(* The jobs of a frame that was never flushed, and so its bytes, do not    *)
(* depend on how the input was chunked, on the buffer's size, or on the    *)
(* way it was fed: they end where those of the input posted whole do (and  *)
(* follow one another, as FrameWhole says).                                *)
ChunkingIndependent ==
    finished /\ ~flushed =>
        LET cuts == FrameCuts(Grid, pos)
        IN  {0} \cup {output[i].hi : i \in DOMAIN output} = {cuts[i] : i \in DOMAIN cuts}

(* A finished frame has every byte fed, once and in order, under a header, *)
(* with one last block at its end, and keeps its pledge; a job lost to a   *)
(* panic is never passed off as an empty one, even if the user catches the *)
(* panic and goes on.                                                      *)
FrameWhole ==
    finished =>
        /\ header /\ hashed = pos /\ pledged \in {NoPledge, pos}
        /\ output # <<>> /\ output[1].lo = 0 /\ output[Len(output)].hi = pos
        /\ \A i \in DOMAIN output :
               /\ ~output[i].hole
               /\ output[i].last <=> i = Len(output)
               /\ i > 1 => output[i].lo = output[i - 1].hi

(* When a flush returns, everything written before it is in the output,    *)
(* with nothing missing.                                                   *)
FlushVisible ==
    [][op = "flush" /\ pc # "idle" /\ pc' = "idle" /\ unwinds' = unwinds =>
           /\ assembled' = Len(jobs')
           /\ pos > 0 => output'[Len(output')].hi = pos
           /\ \A i \in DOMAIN output' : ~output'[i].hole]_vars

Busy == pc \notin {"idle", "gone"}

(* drain_all and finish_step, while a panic waits to be surfaced and jobs  *)
(* are queued that no worker will claim.                                   *)
Draining == pc \in {"drain", "pending"} \/ (pc \in {"wait", "parked"} /\ ret = "drain")
Abandoned == payload /\ claimed < Len(jobs) /\ Draining

(* Every call, and the drop, returns or unwinds, whatever panics and       *)
(* whichever thread is refused: no completion that falls between a check   *)
(* and the wait is missed.  The exception is a drain over an abandoned     *)
(* queue (see PanicSurfaces).                                              *)
CallsReturn == Busy ~> (~Busy \/ Abandoned)

(* surface_poison's promise, "Resume a worker panic at the write/finish    *)
(* that observes it": every call returns or unwinds, without exception.    *)
PanicSurfaces == Busy ~> ~Busy
=============================================================================
