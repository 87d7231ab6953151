---------------------------- MODULE AsyncChecksum ----------------------------
(***************************************************************************)
(* The checksum sidecar of the slice encoder (encoding/async_checksum.rs). *)
(*                                                                         *)
(* A thread that compresses owns a ring of tasks and a worker thread that  *)
(* hashes.  The frames it has open, possibly nested, post into the same    *)
(* ring; a task points at bytes of the caller, which the worker reads      *)
(* later.  The worker spins, then parks on a condition variable; the head  *)
(* of the ring is flipped under its mutex.                                 *)
(***************************************************************************)
EXTENDS Integers, Sequences

CONSTANTS
    Frame,      \* the frames, each with a state id of its own
    Ring,       \* RING
    MaxWrites   \* bound: the blocks posted per frame

ASSUME AsyncChecksumAssumption ==
    /\ Ring \in Nat \ {0}
    /\ MaxWrites \in Nat

Kind == {"reset", "absorb", "finish"}
Task == [kind : Kind, frame : Frame, block : 0 .. MaxWrites]

VARIABLES
    head,       \* the next sequence number to publish
    tail,       \* the next sequence number to complete (done, too)
    slots,      \* the ring
    wpc,        \* where the worker is; "none": not spawned
    states,     \* the blocks each frame's checksum state has absorbed
    ppc,        \* where the producer thread is within a call
    seq,        \* the slot it has claimed
    task,       \* what it is posting
    phase,      \* the life of each frame's handle
    wrote,      \* the blocks written to each frame
    upto,       \* posted_upto
    cell,       \* the FinishCell of each frame: its done flag
    sum,        \* ... and its value
    posted      \* history: every task posted, in order

ringVars == <<head, tail, slots>>
workerVars == <<tail, wpc, states, cell, sum>>
producerVars == <<head, slots, ppc, seq, task, phase, wrote, upto, posted>>
sidecarVars == <<head, tail, slots, wpc, states, ppc, seq, task, phase, wrote, upto, cell, sum, posted>>

Unset == <<0>>

SidecarTypeOK ==
    /\ tail \in Nat
    /\ head \in tail .. tail + Ring
    /\ slots \in [0 .. Ring - 1 -> Task]
    /\ wpc \in {"none", "spin", "locked", "empty", "parked", "process", "reply", "advance"}
    /\ states \in [Frame -> Seq(0 .. MaxWrites)]
    /\ ppc \in {"idle", "claim", "store", "publish", "notify", "reply", "drain"}
    /\ seq \in Nat
    /\ task \in Task
    /\ phase \in [Frame -> {"none", "open", "finished", "dropped", "inline"}]
    /\ wrote \in [Frame -> 0 .. MaxWrites]
    /\ upto \in [Frame -> Nat]
    /\ cell \in [Frame -> BOOLEAN]
    /\ sum \in [Frame -> Seq(0 .. MaxWrites)]

SidecarInit ==
    /\ head = 0
    /\ tail = 0
    /\ task \in [kind : {"absorb"}, frame : Frame, block : {0}]
    /\ slots = [i \in 0 .. Ring - 1 |-> task]
    /\ wpc = "none"
    /\ states = [f \in Frame |-> Unset]
    /\ ppc = "idle"
    /\ seq = 0
    /\ phase = [f \in Frame |-> "none"]
    /\ wrote = [f \in Frame |-> 0]
    /\ upto = [f \in Frame |-> 0]
    /\ cell = [f \in Frame |-> FALSE]
    /\ sum = [f \in Frame |-> Unset]
    /\ posted = <<>>

-----------------------------------------------------------------------------
(* The calls on a frame's handle.                                          *)

Post(f, kind, block) ==
    /\ ppc' = "claim"
    /\ task' = [kind |-> kind, frame |-> f, block |-> block]

(* The first frame of a thread spawns its worker.                          *)
New(f) ==
    /\ ppc = "idle"
    /\ phase[f] = "none"
    /\ phase' = [phase EXCEPT ![f] = "open"]
    /\ wpc' = IF wpc = "none" THEN "spin" ELSE wpc
    /\ Post(f, "reset", 0)
    /\ UNCHANGED <<ringVars, states, seq, wrote, upto, cell, sum, posted>>

(* One usable core, or no thread to be had: the caller hashes inline.      *)
Refused(f) ==
    /\ ppc = "idle"
    /\ phase[f] = "none"
    /\ phase' = [phase EXCEPT ![f] = "inline"]
    /\ UNCHANGED <<ringVars, wpc, states, ppc, seq, task, wrote, upto, cell, sum, posted>>

Write(f) ==
    /\ ppc = "idle"
    /\ phase[f] = "open"
    /\ wrote[f] < MaxWrites
    /\ wrote' = [wrote EXCEPT ![f] = @ + 1]
    /\ Post(f, "absorb", wrote[f] + 1)
    /\ UNCHANGED <<ringVars, wpc, states, seq, phase, upto, cell, sum, posted>>

FinishFrame(f) ==
    /\ ppc = "idle"
    /\ phase[f] = "open"
    /\ Post(f, "finish", 0)
    /\ UNCHANGED <<ringVars, wpc, states, seq, phase, wrote, upto, cell, sum, posted>>

(* The handle is dropped, finished or not (an error, a panic).             *)
DropHandle(f) ==
    /\ ppc = "idle"
    /\ phase[f] \in {"open", "finished"}
    /\ ppc' = "drain"
    /\ task' = [task EXCEPT !.frame = f]
    /\ UNCHANGED <<ringVars, wpc, states, seq, phase, wrote, upto, cell, sum, posted>>

-----------------------------------------------------------------------------
(* post.                                                                   *)

(* Read head, and spin until the slot is free.                             *)
Claim ==
    /\ ppc = "claim"
    /\ head < tail + Ring
    /\ seq' = head
    /\ ppc' = "store"
    /\ UNCHANGED <<ringVars, wpc, states, task, phase, wrote, upto, cell, sum, posted>>

Store ==
    /\ ppc = "store"
    /\ slots' = [slots EXCEPT ![seq % Ring] = task]
    /\ posted' = Append(posted, task)
    /\ ppc' = "publish"
    /\ UNCHANGED <<head, tail, wpc, states, seq, task, phase, wrote, upto, cell, sum>>

(* The worker holds the wake mutex from taking it to waiting on it.        *)
WakeHeld == wpc \in {"locked", "empty"}

Publish ==
    /\ ppc = "publish"
    /\ ~WakeHeld
    /\ head' = seq + 1
    /\ ppc' = "notify"
    /\ UNCHANGED <<tail, slots, wpc, states, seq, task, phase, wrote, upto, cell, sum, posted>>

(* notify_one: a parked worker contends for the mutex again.               *)
Notify ==
    /\ ppc = "notify"
    /\ wpc' = IF wpc = "parked" THEN "locked" ELSE wpc
    /\ upto' = [upto EXCEPT ![task.frame] = seq + 1]
    /\ ppc' = IF task.kind = "finish" THEN "reply" ELSE "idle"
    /\ UNCHANGED <<ringVars, states, seq, task, phase, wrote, cell, sum, posted>>

-----------------------------------------------------------------------------
(* Mutant of TakeReply: finish returns once its task is posted.            *)
TakeReplyEarly ==
    /\ ppc = "reply"
    /\ phase' = [phase EXCEPT ![task.frame] = "finished"]
    /\ ppc' = "idle"
    /\ UNCHANGED <<ringVars, wpc, states, seq, task, wrote, upto, cell, sum, posted>>

(* finish spins on its cell and returns.                                   *)
TakeReply ==
    /\ ppc = "reply"
    /\ cell[task.frame]
    /\ phase' = [phase EXCEPT ![task.frame] = "finished"]
    /\ ppc' = "idle"
    /\ UNCHANGED <<ringVars, wpc, states, seq, task, wrote, upto, cell, sum, posted>>

(* Mutant of Drain: the handle goes away at once.                          *)
DrainNothing ==
    /\ ppc = "drain"
    /\ phase' = [phase EXCEPT ![task.frame] = "dropped"]
    /\ ppc' = "idle"
    /\ UNCHANGED <<ringVars, wpc, states, seq, task, wrote, upto, cell, sum, posted>>

(* Drop spins until the worker has completed the frame's last task.        *)
Drain ==
    /\ ppc = "drain"
    /\ tail >= upto[task.frame]
    /\ phase' = [phase EXCEPT ![task.frame] = "dropped"]
    /\ ppc' = "idle"
    /\ UNCHANGED <<ringVars, wpc, states, seq, task, wrote, upto, cell, sum, posted>>

-----------------------------------------------------------------------------
(* The worker: run.                                                        *)

WorkerGoto(l) == wpc' = l /\ UNCHANGED <<producerVars, tail, states, cell, sum>>

SpinSees == wpc = "spin" /\ head > tail /\ WorkerGoto("process")

(* The spin budget is spent without a task: take the wake mutex ...        *)
TakeWake == wpc = "spin" /\ head <= tail /\ WorkerGoto("locked")

(* ... look again under it ...                                             *)
Recheck == wpc = "locked" /\ WorkerGoto(IF head <= tail THEN "empty" ELSE "process")

(* ... and wait on it.                                                     *)
Wait == wpc = "empty" /\ WorkerGoto("parked")

SpuriousWake == wpc = "parked" /\ WorkerGoto("locked")

Current == slots[tail % Ring]

(* Hash the block, or reset the state, or store the frame's sum ...        *)
Process ==
    /\ wpc = "process"
    /\ LET f == Current.frame
       IN CASE Current.kind = "reset" ->
                 states' = [states EXCEPT ![f] = <<>>] /\ UNCHANGED sum /\ wpc' = "advance"
            [] Current.kind = "absorb" ->
                 states' = [states EXCEPT ![f] = Append(@, Current.block)]
                 /\ UNCHANGED sum /\ wpc' = "advance"
            [] Current.kind = "finish" ->
                 sum' = [sum EXCEPT ![f] = states[f]] /\ UNCHANGED states /\ wpc' = "reply"
    /\ UNCHANGED <<producerVars, tail, cell>>

(* ... and raise the flag that the finishing frame spins on.               *)
Reply ==
    /\ wpc = "reply"
    /\ cell' = [cell EXCEPT ![Current.frame] = TRUE]
    /\ wpc' = "advance"
    /\ UNCHANGED <<producerVars, tail, states, sum>>

Advance ==
    /\ wpc = "advance"
    /\ tail' = tail + 1
    /\ wpc' = "spin"
    /\ UNCHANGED <<producerVars, states, cell, sum>>

-----------------------------------------------------------------------------
BeginCall == \E f \in Frame : New(f) \/ Refused(f) \/ Write(f) \/ FinishFrame(f) \/ DropHandle(f)

EndCall == Claim \/ Store \/ Publish \/ Notify \/ TakeReply \/ Drain

WorkerStep == SpinSees \/ TakeWake \/ Recheck \/ Wait \/ Process \/ Reply \/ Advance

SidecarNext == BeginCall \/ EndCall \/ WorkerStep \/ SpuriousWake

SidecarSpec == SidecarInit /\ [][SidecarNext]_sidecarVars

(* Both threads are scheduled, and a mutex that is free again and again is *)
(* acquired (spurious wakeups of the worker may come in between, but       *)
(* nothing counts on one).  Nobody has to begin a call.                    *)
SidecarFairness == SF_sidecarVars(EndCall) /\ WF_sidecarVars(WorkerStep)

-----------------------------------------------------------------------------
(* The offloaded checksum is the inline one: it has absorbed the frame's   *)
(* blocks, each once and in order, and no other frame's.                   *)
SumIsInline ==
    \A f \in Frame : phase[f] = "finished" => sum[f] = [i \in 1 .. wrote[f] |-> i]

(* The bytes and the reply cell that a task points at are alive until the  *)
(* worker is done with them: a frame with an unread block has neither      *)
(* finished nor gone away, and a frame's finish outlives its reply.        *)
BlocksOutlived ==
    \A i \in tail .. head - 1 :
        LET t == slots[i % Ring]
        IN CASE t.kind = "absorb" /\ (i > tail \/ wpc # "advance") -> phase[t.frame] = "open"
             [] t.kind = "finish" /\ (i > tail \/ wpc # "advance") ->
                  phase[t.frame] = "open" /\ task.frame = t.frame /\ ppc \in {"notify", "reply"}
             [] OTHER -> TRUE

=============================================================================
