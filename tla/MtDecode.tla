------------------------------ MODULE MtDecode ------------------------------
(***************************************************************************)
(* The two-stage pipeline of a single-frame decode (decoding/mt.rs,        *)
(* decode_parallel): stage A on leased workers, stage B on the calling     *)
(* thread, which takes the staged segments in input order, executes them   *)
(* into the output and, on every way out, aborts the workers and waits     *)
(* until each has left its lease (LeaseOut).                               *)
(***************************************************************************)
EXTENDS StageA

Exec == {"ok", "err", "panic"}
Kind == {"none", "ok", "stage", "exec", "size", "sentinel", "panic"}

(* The calling thread, as a member of the condition variable's wait set.   *)
Caller == "caller"

VARIABLES
    exec,       \* exec[s]: what place and execute_segment do on segment s
    sizeOk,     \* verify_frame_content_sizes succeeds on the whole output
    cpc,        \* where the calling thread is
    cur,        \* the segment it consumes
    result      \* its exec_result, then what the call returns

callerVars == <<exec, sizeOk, cpc, cur, result>>
vars == <<stageVars, callerVars>>

TypeOK ==
    /\ StageTypeOK
    /\ waiting \subseteq {Caller}
    /\ exec \in [Seg -> Exec]
    /\ sizeOk \in BOOLEAN
    /\ cpc \in {"take", "exec", "verify", "drop", "join", "done"}
    /\ cur \in 0 .. N
    /\ result \in [kind : Kind, at : 0 .. N]

Init ==
    /\ StageInit
    /\ exec \in [Seg -> Exec]
    /\ sizeOk \in BOOLEAN
    /\ cpc = "take"
    /\ cur = 0
    /\ result = [kind |-> "none", at |-> 0]

Leave(kind) ==
    /\ result' = [kind |-> kind, at |-> cur]
    /\ cpc' = "drop"

(* The readiness wait.  The slot's mutex is held from the check until the  *)
(* wait releases it, and a fill takes the same mutex, so check and wait are*)
(* one step.                                                               *)
WaitStaged ==
    /\ cpc = "take"
    /\ cur < N
    /\ slots[cur] = "none"
    /\ Caller \notin waiting
    /\ waiting' = {Caller}
    /\ UNCHANGED <<staging, nextJob, executed, abort, poison, slots, published, wpc, job,
                   callerVars>>

(* Mutant of TakeStaged: the segment counts as consumed once it is taken.  *)
TakeStagedPublishes ==
    /\ cpc = "take"
    /\ cur < N
    /\ Caller \notin waiting
    /\ slots[cur] # "none"
    /\ slots' = [slots EXCEPT ![cur] = "none"]
    /\ executed' = IF slots[cur] = "ok" THEN cur + 1 ELSE executed
    /\ CASE slots[cur] = "ok" -> cpc' = "exec" /\ UNCHANGED result
         [] slots[cur] = "err" -> Leave("stage")
         [] slots[cur] = "sentinel" -> Leave("sentinel")
    /\ UNCHANGED <<staging, nextJob, abort, poison, published, waiting, wpc, job,
                   exec, sizeOk, cur>>

(* guard.take(), then `staged?`.                                           *)
TakeStaged ==
    /\ cpc = "take"
    /\ cur < N
    /\ Caller \notin waiting
    /\ slots[cur] # "none"
    /\ slots' = [slots EXCEPT ![cur] = "none"]
    /\ CASE slots[cur] = "ok" -> cpc' = "exec" /\ UNCHANGED result
         [] slots[cur] = "err" -> Leave("stage")
         [] slots[cur] = "sentinel" -> Leave("sentinel")
    /\ UNCHANGED <<staging, nextJob, executed, abort, poison, published, waiting, wpc, job,
                   exec, sizeOk, cur>>

(* place, execute_segment, the consumed store and its notify_all.          *)
ExecuteSegment ==
    /\ cpc = "exec"
    /\ exec[cur] = "ok"
    /\ cur' = cur + 1
    /\ executed' = cur + 1
    /\ waiting' = {}
    /\ cpc' = IF cur + 1 = N THEN "verify" ELSE "take"
    /\ UNCHANGED <<staging, nextJob, abort, poison, slots, published, wpc, job,
                   exec, sizeOk, result>>

ExecuteFails ==
    /\ cpc = "exec"
    /\ exec[cur] # "ok"
    /\ Leave(IF exec[cur] = "err" THEN "exec" ELSE "panic")
    /\ UNCHANGED <<stageVars, exec, sizeOk, cur>>

VerifySizes ==
    /\ cpc = "verify"
    /\ Leave(IF sizeOk THEN "ok" ELSE "size")
    /\ UNCHANGED <<stageVars, exec, sizeOk, cur>>

(* LeaseOut::drop: abort, notify_all ...                                   *)
DropGuard ==
    /\ cpc = "drop"
    /\ abort' = TRUE
    /\ waiting' = {}
    /\ cpc' = "join"
    /\ UNCHANGED <<staging, nextJob, executed, poison, slots, published, wpc, job,
                   exec, sizeOk, cur, result>>

(* Mutant of Join: the guard aborts without waiting for the leases.        *)
JoinAtOnce ==
    /\ cpc = "join"
    /\ cpc' = "done"
    /\ result' = IF poison THEN [result EXCEPT !.kind = "panic"] ELSE result
    /\ UNCHANGED <<stageVars, exec, sizeOk, cur>>

(* ... and wait_leave on every lease; then a worker's panic, if there was  *)
(* one, replaces the result.                                               *)
Join ==
    /\ cpc = "join"
    /\ \A w \in Worker : wpc[w] = "left"
    /\ cpc' = "done"
    /\ result' = IF poison THEN [result EXCEPT !.kind = "panic"] ELSE result
    /\ UNCHANGED <<stageVars, exec, sizeOk, cur>>

CallerStep ==
    \/ WaitStaged \/ TakeStaged \/ ExecuteSegment \/ ExecuteFails
    \/ VerifySizes \/ DropGuard \/ Join

ServeStageA(w) == WorkerStep(w) /\ UNCHANGED callerVars

Next == CallerStep \/ \E w \in Worker : ServeStageA(w)

Spec == Init /\ [][Next]_vars

(* Threads are scheduled; a timed sleep ends.                              *)
Fairness ==
    /\ WF_vars(CallerStep)
    /\ \A w \in Worker : WF_vars(ServeStageA(w))

FairSpec == Spec /\ Fairness

-----------------------------------------------------------------------------
(* The frozen input and segment plans are borrows of the caller: once the  *)
(* call has returned, no worker is still inside the job (the contract of   *)
(* StageAJob and LeaseOut).                                                *)
BorrowsOutlived == cpc = "done" => \A w \in Worker : wpc[w] = "left"

(* Staging memory stays proportional to the worker count: a segment that is*)
(* staged or being staged lies at most Window past the executed prefix.    *)
StagedWindow ==
    /\ \A w \in Worker : wpc[w] \in {"stage", "fill"} => job[w] <= executed + Window
    /\ \A s \in Seg : slots[s] # "none" => s \in executed .. executed + Window

(* The error that a panicking worker stores to release the consumer is     *)
(* never what the call returns: the panic replaces it.                     *)
SentinelHidden == cpc = "done" => result.kind # "sentinel"

(* A worker never refills a slot whose segment the consumer has taken, and *)
(* no two workers stage the same segment.                                  *)
StagedOnce ==
    /\ \A w \in Worker : wpc[w] \in {"gate", "stage", "fill"} =>
           job[w] >= cur /\ slots[job[w]] = "none"
    /\ \A v, w \in Worker :
           /\ wpc[v] \in {"gate", "stage", "fill"}
           /\ wpc[w] \in {"gate", "stage", "fill"}
           /\ job[v] = job[w]
           => v = w

(* Decoding in parallel is decoding in order: executed grows segment by    *)
(* segment and the outcome is the one of the first failing segment.        *)
Sequential == INSTANCE SeqDecode WITH
    pos <- executed,
    res <- IF cpc = "done" THEN result ELSE [kind |-> "none", at |-> 0]
ImplementsSeqDecode == Sequential!SeqSpec

=============================================================================
