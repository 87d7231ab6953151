------------------------------ MODULE DecPool ------------------------------
(***************************************************************************)
(* The pool of worker threads that decodes lease (decoding/mt_pool.rs; the *)
(* streaming encoder keeps a twin in stream/mt_pool.rs).                   *)
(*                                                                         *)
(* A slot is one thread with its handoff state.  A decode secures slots -  *)
(* pooled ones first, then fresh threads -, hands each a lease on its job, *)
(* and before it returns waits until each has left the lease.  A thread    *)
(* serves one lease at a time, parks in the pool in between, and retires   *)
(* when it idles, when the pool is full or after a panic.  The pool's mutex*)
(* and a slot's mutex are never held together: each critical section is an *)
(* action.                                                                 *)
(***************************************************************************)
EXTENDS Integers, FiniteSets

CONSTANTS
    Slot,       \* identities of slots, reused once nothing refers to them
    Call,       \* the decodes, each on a thread of its own
    NoCall,     \* the absence of one
    Want,       \* Want[c]: how many workers a decode leases
    Depth       \* THREAD_POOL_DEPTH

ASSUME DecPoolAssumption ==
    /\ IsFiniteSet(Slot)
    /\ NoCall \notin Call
    /\ Want \in [Call -> Nat \ {0}]
    /\ Depth \in Nat

VARIABLES
    pool,       \* THREAD_POOL; its order decides nothing but which slot is popped
    mode,       \* WorkerSlotState of each slot
    lease,      \* the decode whose job a Serving slot holds
    sleepers,   \* callers asleep on the slot's wake in wait_leave
    tpc,        \* where each slot's thread is; "none": no thread
    job,        \* the thread's own clone of the job
    cpc,        \* where each decode is
    held,       \* the slots a decode has secured
    todo        \* the slots its current loop has not reached

threadVars == <<tpc, job>>
callVars == <<cpc, held, todo>>
vars == <<pool, mode, lease, sleepers, threadVars, callVars>>

TypeOK ==
    /\ pool \subseteq Slot
    /\ Cardinality(pool) <= Depth
    /\ mode \in [Slot -> {"parked", "serving", "retiring"}]
    /\ lease \in [Slot -> Call \union {NoCall}]
    /\ sleepers \in [Slot -> SUBSET Call]
    /\ tpc \in [Slot -> {"none", "wait", "idle", "withdrawn", "serve", "left",
                         "repark", "full", "unwind"}]
    /\ job \in [Slot -> Call \union {NoCall}]
    /\ cpc \in [Call -> {"idle", "secure", "spawn", "abandon", "assign", "work", "wait"}]
    /\ held \in [Call -> SUBSET Slot]
    /\ todo \in [Call -> SUBSET Slot]

Init ==
    /\ pool = {}
    /\ mode = [s \in Slot |-> "retiring"]
    /\ lease = [s \in Slot |-> NoCall]
    /\ sleepers = [s \in Slot |-> {}]
    /\ tpc = [s \in Slot |-> "none"]
    /\ job = [s \in Slot |-> NoCall]
    /\ cpc = [c \in Call |-> "idle"]
    /\ held = [c \in Call |-> {}]
    /\ todo = [c \in Call |-> {}]

(* An Arc that nobody holds: a new slot may be allocated there.            *)
Fresh(s) == tpc[s] = "none" /\ s \notin pool /\ \A c \in Call : s \notin held[c]

CallGoto(c, l) == cpc' = [cpc EXCEPT ![c] = l]
ThreadGoto(s, l) == tpc' = [tpc EXCEPT ![s] = l]

(* A state that replaces Serving drops the job it held.                    *)
Leave(s, m) ==
    /\ mode' = [mode EXCEPT ![s] = m]
    /\ lease' = [lease EXCEPT ![s] = NoCall]

-----------------------------------------------------------------------------
(* lease_workers.                                                          *)

Begin(c) ==
    /\ cpc[c] = "idle"
    /\ CallGoto(c, "secure")
    /\ UNCHANGED <<pool, mode, lease, sleepers, threadVars, held, todo>>

(* take_parked_slot pops a slot ...                                        *)
TakeParked(c) ==
    /\ cpc[c] = "secure"
    /\ Cardinality(held[c]) < Want[c]
    /\ \E s \in pool :
           /\ pool' = pool \ {s}
           /\ held' = [held EXCEPT ![c] = @ \union {s}]
    /\ UNCHANGED <<mode, lease, sleepers, threadVars, cpc, todo>>

(* ... or finds the pool empty.                                            *)
NoneParked(c) ==
    /\ cpc[c] = "secure"
    /\ Cardinality(held[c]) < Want[c]
    /\ pool = {}
    /\ CallGoto(c, "spawn")
    /\ UNCHANGED <<pool, mode, lease, sleepers, threadVars, held, todo>>

Spawn(c) ==
    /\ cpc[c] = "spawn"
    /\ \E s \in Slot :
           /\ Fresh(s)
           /\ mode' = [mode EXCEPT ![s] = "parked"]
           /\ ThreadGoto(s, "wait")
           /\ held' = [held EXCEPT ![c] = @ \union {s}]
    /\ CallGoto(c, "secure")
    /\ UNCHANGED <<pool, lease, sleepers, job, todo>>

(* Mutant of SpawnFails: the secured slots are dropped as they are.        *)
SpawnFailsOrphans(c) ==
    /\ cpc[c] = "spawn"
    /\ CallGoto(c, "idle")
    /\ held' = [held EXCEPT ![c] = {}]
    /\ UNCHANGED <<pool, mode, lease, sleepers, threadVars, todo>>

(* The system refuses a thread: the slots already secured are retired one  *)
(* by one and the call panics.                                             *)
SpawnFails(c) ==
    /\ cpc[c] = "spawn"
    /\ CallGoto(c, "abandon")
    /\ todo' = [todo EXCEPT ![c] = held[c]]
    /\ UNCHANGED <<pool, mode, lease, sleepers, threadVars, held>>

Abandon(c) ==
    /\ cpc[c] = "abandon"
    /\ \E s \in todo[c] :
           /\ mode' = [mode EXCEPT ![s] = "retiring"]
           /\ sleepers' = [sleepers EXCEPT ![s] = {}]
           /\ todo' = [todo EXCEPT ![c] = @ \ {s}]
    /\ UNCHANGED <<pool, lease, threadVars, cpc, held>>

Abandoned(c) ==
    /\ cpc[c] = "abandon"
    /\ todo[c] = {}
    /\ CallGoto(c, "idle")
    /\ held' = [held EXCEPT ![c] = {}]
    /\ UNCHANGED <<pool, mode, lease, sleepers, threadVars, todo>>

(* Leases go out once every slot exists.                                   *)
Secured(c) ==
    /\ cpc[c] = "secure"
    /\ Cardinality(held[c]) >= Want[c]
    /\ CallGoto(c, "assign")
    /\ todo' = [todo EXCEPT ![c] = held[c]]
    /\ UNCHANGED <<pool, mode, lease, sleepers, threadVars, held>>

(* assign_lease.                                                           *)
Assign(c) ==
    /\ cpc[c] = "assign"
    /\ \E s \in todo[c] :
           /\ mode' = [mode EXCEPT ![s] = "serving"]
           /\ lease' = [lease EXCEPT ![s] = c]
           /\ todo' = [todo EXCEPT ![c] = @ \ {s}]
    /\ UNCHANGED <<pool, sleepers, threadVars, cpc, held>>

Assigned(c) ==
    /\ cpc[c] = "assign"
    /\ todo[c] = {}
    /\ CallGoto(c, "work")
    /\ UNCHANGED <<pool, mode, lease, sleepers, threadVars, held, todo>>

(* The decode ends, in whatever way, and its guard waits for every slot.   *)
Finish(c) ==
    /\ cpc[c] = "work"
    /\ CallGoto(c, "wait")
    /\ todo' = [todo EXCEPT ![c] = held[c]]
    /\ UNCHANGED <<pool, mode, lease, sleepers, threadVars, held>>

-----------------------------------------------------------------------------
(* wait_leave: sleep while the slot serves this job, for 100 ms at most.   *)

ServesMe(s, c) == mode[s] = "serving" /\ lease[s] = c

WaitLeaveSleep(c) ==
    /\ cpc[c] = "wait"
    /\ \A s \in Slot : c \notin sleepers[s]
    /\ \E s \in todo[c] :
           /\ ServesMe(s, c)
           /\ sleepers' = [sleepers EXCEPT ![s] = @ \union {c}]
    /\ UNCHANGED <<pool, mode, lease, threadVars, callVars>>

WaitLeaveTimeout(c) ==
    /\ \E s \in Slot :
           /\ c \in sleepers[s]
           /\ sleepers' = [sleepers EXCEPT ![s] = @ \ {c}]
    /\ UNCHANGED <<pool, mode, lease, threadVars, callVars>>

(* Mutant of WaitLeave: the caller does not wait for a slot's job to end.  *)
WaitLeaveSkips(c) ==
    /\ cpc[c] = "wait"
    /\ \E s \in todo[c] : todo' = [todo EXCEPT ![c] = @ \ {s}]
    /\ UNCHANGED <<pool, mode, lease, sleepers, threadVars, cpc, held>>

WaitLeave(c) ==
    /\ cpc[c] = "wait"
    /\ \A s \in Slot : c \notin sleepers[s]
    /\ \E s \in todo[c] :
           /\ ~ServesMe(s, c)
           /\ todo' = [todo EXCEPT ![c] = @ \ {s}]
    /\ UNCHANGED <<pool, mode, lease, sleepers, threadVars, cpc, held>>

Return(c) ==
    /\ cpc[c] = "wait"
    /\ todo[c] = {}
    /\ CallGoto(c, "idle")
    /\ held' = [held EXCEPT ![c] = {}]
    /\ UNCHANGED <<pool, mode, lease, sleepers, threadVars, todo>>

-----------------------------------------------------------------------------
(* The thread: wait_lease.                                                 *)

TakeLease(s) ==
    /\ tpc[s] = "wait"
    /\ mode[s] = "serving"
    /\ job' = [job EXCEPT ![s] = lease[s]]
    /\ ThreadGoto(s, "serve")
    /\ UNCHANGED <<pool, mode, lease, sleepers, callVars>>

SeeRetired(s) ==
    /\ tpc[s] = "wait"
    /\ mode[s] = "retiring"
    /\ ThreadGoto(s, "none")
    /\ UNCHANGED <<pool, mode, lease, sleepers, job, callVars>>

(* THREAD_POOL_IDLE has passed and the slot is still parked: its mutex is  *)
(* released ...                                                            *)
IdleTimeout(s) ==
    /\ tpc[s] = "wait"
    /\ mode[s] = "parked"
    /\ ThreadGoto(s, "idle")
    /\ UNCHANGED <<pool, mode, lease, sleepers, job, callVars>>

(* ... the slot is withdrawn from the pool, unless an assigner has it ...  *)
Unpark(s) ==
    /\ tpc[s] = "idle"
    /\ pool' = pool \ {s}
    /\ ThreadGoto(s, IF s \in pool THEN "withdrawn" ELSE "wait")
    /\ UNCHANGED <<mode, lease, sleepers, job, callVars>>

(* ... and the thread retires, unless a lease has arrived meanwhile.       *)
RetireIdle(s) ==
    /\ tpc[s] = "withdrawn"
    /\ IF mode[s] = "parked"
         THEN mode' = [mode EXCEPT ![s] = "retiring"] /\ ThreadGoto(s, "none")
         ELSE UNCHANGED mode /\ ThreadGoto(s, "wait")
    /\ UNCHANGED <<pool, lease, sleepers, job, callVars>>

-----------------------------------------------------------------------------
(* The thread: pool_thread_inner around the job.                           *)

(* The job ends; leave_lease writes the state under the slot's mutex.      *)
LeaveParked(s) ==
    /\ tpc[s] = "serve"
    /\ Leave(s, "parked")
    /\ ThreadGoto(s, "left")
    /\ job' = [job EXCEPT ![s] = NoCall]
    /\ UNCHANGED <<pool, sleepers, callVars>>

(* A job that panicked retires its thread.                                 *)
LeaveRetiring(s) ==
    /\ tpc[s] = "serve"
    /\ Leave(s, "retiring")
    /\ ThreadGoto(s, "left")
    /\ job' = [job EXCEPT ![s] = NoCall]
    /\ UNCHANGED <<pool, sleepers, callVars>>

(* Mutant of LeaveNotify: a thread that leaves a lease wakes nobody.       *)
LeaveSilently(s) ==
    /\ tpc[s] = "left"
    /\ ThreadGoto(s, IF mode[s] = "retiring" THEN "none" ELSE "repark")
    /\ UNCHANGED <<pool, mode, lease, sleepers, job, callVars>>

(* leave_lease's notify_all, after the mutex is released.                  *)
LeaveNotify(s) ==
    /\ tpc[s] = "left"
    /\ sleepers' = [sleepers EXCEPT ![s] = {}]
    /\ ThreadGoto(s, IF mode[s] = "retiring" THEN "none" ELSE "repark")
    /\ UNCHANGED <<pool, mode, lease, job, callVars>>

(* repark_slot.                                                            *)
Repark(s) ==
    /\ tpc[s] = "repark"
    /\ IF Cardinality(pool) < Depth
         THEN pool' = pool \union {s} /\ ThreadGoto(s, "wait")
         ELSE UNCHANGED pool /\ ThreadGoto(s, "full")
    /\ UNCHANGED <<mode, lease, sleepers, job, callVars>>

(* The pool is at depth: leave_lease(slot, true), and exit.                *)
RetireFull(s) ==
    /\ tpc[s] = "full"
    /\ mode' = [mode EXCEPT ![s] = "retiring"]
    /\ sleepers' = [sleepers EXCEPT ![s] = {}]
    /\ ThreadGoto(s, "none")
    /\ UNCHANGED <<pool, lease, job, callVars>>

(* A panic that the job's own catch_unwind does not cover: pool_thread     *)
(* withdraws the slot ...                                                  *)
MachineryPanics(s) ==
    /\ tpc[s] = "serve"
    /\ pool' = pool \ {s}
    /\ ThreadGoto(s, "unwind")
    /\ UNCHANGED <<mode, lease, sleepers, job, callVars>>

(* ... and marks it retiring before the thread dies.                       *)
Unwound(s) ==
    /\ tpc[s] = "unwind"
    /\ Leave(s, "retiring")
    /\ sleepers' = [sleepers EXCEPT ![s] = {}]
    /\ ThreadGoto(s, "none")
    /\ job' = [job EXCEPT ![s] = NoCall]
    /\ UNCHANGED <<pool, callVars>>

CallStep(c) ==
    \/ Begin(c) \/ TakeParked(c) \/ NoneParked(c) \/ Spawn(c) \/ SpawnFails(c)
    \/ Abandon(c) \/ Abandoned(c) \/ Secured(c) \/ Assign(c) \/ Assigned(c)
    \/ Finish(c) \/ WaitLeaveSleep(c) \/ WaitLeaveTimeout(c) \/ WaitLeave(c) \/ Return(c)

ThreadStep(s) ==
    \/ TakeLease(s) \/ SeeRetired(s) \/ IdleTimeout(s) \/ Unpark(s) \/ RetireIdle(s)
    \/ LeaveParked(s) \/ LeaveRetiring(s) \/ LeaveNotify(s) \/ Repark(s) \/ RetireFull(s)
    \/ MachineryPanics(s) \/ Unwound(s)

Next ==
    \/ \E c \in Call : CallStep(c)
    \/ \E s \in Slot : ThreadStep(s)

Spec == Init /\ [][Next]_vars

(* A decode that runs goes on, a job ends (CallsReturn of MCFrameLanes), and *)
(* the timed waits time out; nobody has to begin a decode.                 *)
Fairness ==
    /\ \A c \in Call : WF_vars(CallStep(c) /\ ~Begin(c))
    /\ \A s \in Slot : WF_vars(ThreadStep(s))

FairSpec == Spec /\ Fairness

-----------------------------------------------------------------------------
(* A slot that decode c has secured and not handed its lease yet.          *)
Assignable(c, s) ==
    \/ cpc[c] \in {"secure", "spawn"} /\ s \in held[c]
    \/ cpc[c] = "assign" /\ s \in todo[c]

(* The debug_assert of assign_lease: a lease only ever lands on a parked   *)
(* slot whose thread is alive, that the pool and no other decode has.      *)
AssignsParked ==
    \A c \in Call, s \in Slot : Assignable(c, s) =>
        /\ mode[s] = "parked"
        /\ tpc[s] \in {"wait", "idle"}
        /\ s \notin pool
        /\ \A d \in Call : Assignable(d, s) => d = c

(* wait_lease and wait_leave share a condition variable and assign_lease   *)
(* wakes one waiter: no caller of an earlier lease sleeps there to take the*)
(* wakeup that is meant for the thread.                                    *)
WakeNotStolen ==
    \A c \in Call, s \in Slot : Assignable(c, s) => sleepers[s] = {}

(* wait_leave is a join: while a thread runs a decode's job, that decode   *)
(* has not returned, however often the slot has been recycled.             *)
LeaseOutlived ==
    \A s \in Slot : tpc[s] \in {"serve", "unwind"} =>
        /\ ServesMe(s, job[s])
        /\ cpc[job[s]] \in {"assign", "work", "wait"}
        /\ s \in held[job[s]]

(* No thread parks for ever: a parked slot is in the pool, where it can be *)
(* leased or time out, or a decode is about to lease it or retire it.      *)
NoOrphan ==
    \A s \in Slot : mode[s] = "parked" /\ tpc[s] \in {"wait", "idle"} =>
        \/ s \in pool
        \/ \E c \in Call : Assignable(c, s) \/ (cpc[c] = "abandon" /\ s \in todo[c])

(* lease_workers and wait_leave end: every decode returns.                 *)
CallsReturn == \A c \in Call : cpc[c] # "idle" ~> cpc[c] = "idle"

(* Threads are not pinned: once decodes stop, every thread retires.        *)
IdleThreadsRetire ==
    <>[](\A c \in Call : cpc[c] = "idle") => <>[](\A s \in Slot : tpc[s] = "none")

=============================================================================
