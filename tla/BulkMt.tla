-------------------------------- MODULE BulkMt --------------------------------
(***************************************************************************)
(* The bulk multi-threaded encoder (encoding/mt.rs, compress_slice_mt): the *)
(* workers of a scope claim jobs from a counter, wait for the history their *)
(* job shares (a snapshot the calling thread builds, or the far matches a   *)
(* feed thread publishes), encode, and fill their slot; the calling thread  *)
(* appends the slots in order.  A panic is parked in `poison` and resumed   *)
(* once the scope has joined.                                              *)
(*                                                                         *)
(* One condition variable, `ready`, serves every wait, each under a mutex   *)
(* of its own (a slot, the share, the gate).  `poison` has another mutex: a *)
(* thread that checks it and then waits does so in two steps.              *)
(***************************************************************************)
EXTENDS Integers, FiniteSets, Sequences, SequencesExt

CONSTANTS
    MinMtInput, MinJobSize, MaxJobSize, CaptureJobCap, ProbeSpan, ProbeMinFrame, KeepReach,
    ShrinkReach, LdmMidsizeWindow, LdmFullWindow, SpfMinPrefix, SpfSeg,   \* BulkGrid's
    Worker,     \* the threads that may be spawned
    Feeder, Caller,
    BlockSize,  \* the feed's publishing lattice
    Frames      \* the frames explored: see FrameOK

INSTANCE BulkGrid

NoOne == -2
FeedPass == -1

(* A frame: the layout's inputs, the LDM freeze points of its bytes, the far *)
(* candidates its feed generates, and what panics: one of its jobs, the feed *)
(* it has, or nothing.                                                      *)
FrameOK(f) ==
    /\ f.in \in FrameInputs /\ ~FallsBack(f.in)
    /\ f.freezes \subseteq 1 .. f.in.len
    /\ f.seqs \in Seq([split : Nat, offset : Nat \ {0}])
    /\ \A i, j \in DOMAIN f.seqs : i < j => f.seqs[i].split <= f.seqs[j].split
    /\ f.panics \in 0 .. Layout(f.in).n - 1 \cup {FeedPass, NoOne}
    /\ f.panics = FeedPass => Layout(f.in).feed # 0

BulkMtAssumption ==
    /\ BulkGridAssumption
    /\ IsFiniteSet(Worker) /\ Caller # Feeder /\ {Caller, Feeder} \cap Worker = {}
    /\ BlockSize \in Nat \ {0}
    /\ \A f \in Frames : FrameOK(f) /\ Layout(f.in).threads <= Cardinality(Worker)

VARIABLES
    frame, layout,
    nextJob, slots,
    poison,                     \* the panic parked, NoOne at first
    donation,                   \* the encoded span job zero continues from, not yet taken
    share,                      \* PrefixPlan::Whole: the build's boundary, or NoBuild
    publishes, chainDone,       \* PrefixPlan::Windowed: the snapshots' boundaries
    upto, nextPub,              \* the builder's position and next target
    gate,                       \* LdmFeedGate: published, and whether the feed panicked
    waiting,                    \* the threads in ready.wait
    pc, job, history,           \* each thread's place, job, and the history it obtained
    asm, output, res            \* the caller: the slot it is at, what it appended, its return

vars == <<frame, layout, nextJob, slots, poison, donation, share, publishes, chainDone, upto,
          nextPub, gate, waiting, pc, job, history, asm, output, res>>
buildVars == <<share, publishes, chainDone, upto, nextPub>>
callerVars == <<asm, output, res>>
inputVars == <<frame, layout>>

NoBuild == [built |-> FALSE, upto |-> 0]
Pending == [bytes |-> "pending"]
Empty == [bytes |-> "empty"]

Job == 0 .. layout.n - 1
Start(id) == id * layout.job
End(id) == Min2(Start(id) + layout.job, frame.in.len)
Plan == layout.plan
Feeds == layout.feed # 0
Poisoned == poison # NoOne
Threads == Worker \cup {Feeder, Caller}

Goto(t, label) == pc' = [pc EXCEPT ![t] = label]
NotifyAll == waiting' = {}
Awake(t, label) == pc[t] = label /\ t \notin waiting

Init ==
    /\ frame \in Frames
    /\ layout = Layout(frame.in)
    /\ nextJob = 0 /\ slots = [id \in Job |-> Pending]
    /\ poison = NoOne /\ donation = layout.donated
    /\ share = NoBuild /\ publishes = <<>> /\ chainDone = FALSE
    /\ upto = 0 /\ nextPub = Plan.med
    /\ gate = [published |-> 0, panicked |-> FALSE]
    /\ waiting = {}
    /\ \E spawned \in SUBSET Worker :
        /\ Cardinality(spawned) = layout.threads
        /\ pc = [t \in Threads |-> CASE t \in spawned -> "top"
                                     [] t = Caller -> "build"
                                     [] t = Feeder /\ Feeds -> "feed"
                                     [] OTHER -> "left"]
    /\ job = [w \in Worker |-> 0]
    /\ history = [w \in Worker |-> [kind |-> "none"]]
    /\ asm = 0 /\ output = <<>> /\ res = "none"

-----------------------------------------------------------------------------
(* A worker.                                                               *)

CheckPoison(w) ==
    /\ pc[w] = "top"
    /\ Goto(w, IF Poisoned THEN "left" ELSE "claim")
    /\ UNCHANGED <<inputVars, nextJob, slots, poison, donation, buildVars, gate, waiting, job,
                   history, callerVars>>

Claim(w) ==
    /\ pc[w] = "claim"
    /\ nextJob' = nextJob + 1
    /\ job' = [job EXCEPT ![w] = nextJob]
    /\ Goto(w, IF nextJob \in Job THEN "history" ELSE "left")
    /\ UNCHANGED <<inputVars, slots, poison, donation, buildVars, gate, waiting, history, callerVars>>

(* The history the job starts from, once the worker has it.                *)
Obtain(w, h) ==
    /\ history' = [history EXCEPT ![w] = h]
    /\ Goto(w, "encode")

AboveMedian(w) == Plan # NoPlan /\ Start(job[w]) > Plan.med

(* Nothing to wait for: no plan reaches the job, or it fills its own span.  *)
OwnHistory(w) ==
    /\ pc[w] = "history" /\ ~Feeds
    /\ ~AboveMedian(w) \/ Plan.kind = "selffill" \/ layout.deep
    /\ Obtain(w, IF layout.deep \/ (AboveMedian(w) /\ Plan.kind = "selffill")
                 THEN [kind |-> "windowed", covers |-> Start(job[w])]
                 ELSE [kind |-> "strip"])
    /\ UNCHANGED <<inputVars, nextJob, slots, poison, donation, buildVars, gate, waiting, job,
                   callerVars>>

(* Mutant of FeedReady: the feed has reached the job, not passed it.        *)
FeedReached(id) == gate.published >= Start(id)

FeedReady(id) == gate.published >= End(id)

(* What the feed has published for a job: the candidates that split inside  *)
(* it and reach beyond the strip.                                          *)
FeedSpan(id, published) ==
    {i \in DOMAIN frame.seqs :
        /\ frame.seqs[i].split < published
        /\ Start(id) <= frame.seqs[i].split /\ frame.seqs[i].split < End(id)
        /\ frame.seqs[i].offset > layout.strip}

(* take_feed_span: check and wait under the gate's mutex, which the feed     *)
(* publishes under.                                                        *)
TakeFeedSpan(w) ==
    LET id == job[w]
    IN
    /\ Awake(w, "history") /\ Feeds
    /\ \/ /\ FeedReady(id)
          /\ Obtain(w, [kind |-> "feed", span |-> FeedSpan(id, gate.published)])
          /\ UNCHANGED waiting
       \/ /\ ~FeedReady(id) /\ gate.panicked
          /\ Goto(w, "abandon") /\ UNCHANGED <<waiting, history>>
       \/ /\ ~FeedReady(id) /\ ~gate.panicked
          /\ waiting' = waiting \cup {w} /\ UNCHANGED <<pc, history>>
    /\ UNCHANGED <<inputVars, nextJob, slots, poison, donation, buildVars, gate, job, callerVars>>

(* wait_prefix_build, up to its wait: the share's mutex is held throughout,  *)
(* but not poison's.                                                       *)
ShareHeld == \E w \in Worker : pc[w] = "holdShare"

WaitPrefixBuild(w) ==
    /\ Awake(w, "history") /\ ~ShareHeld
    /\ AboveMedian(w) /\ Plan.kind = "whole"
    /\ IF share # NoBuild
       THEN Obtain(w, IF Start(job[w]) > share.upto THEN [kind |-> "whole", upto |-> share.upto]
                                                    ELSE [kind |-> "strip"])
       ELSE Goto(w, IF Poisoned THEN "abandon" ELSE "holdShare") /\ UNCHANGED history
    /\ UNCHANGED <<inputVars, nextJob, slots, poison, donation, buildVars, gate, waiting, job,
                   callerVars>>

(* wait_ldm_snapshot, likewise: the newest snapshot at or below the start.  *)
(* Without one, a build that is done leaves the stock fill, and a poisoned  *)
(* pool (looked at again by the caller of the wait) abandons the job.       *)
Below(id) == {i \in DOMAIN publishes : publishes[i] <= Start(id)}

Newest(id) == publishes[CHOOSE i \in Below(id) : \A k \in Below(id) : k <= i]

WaitLdmSnapshot(w) ==
    LET id == job[w]
    IN
    /\ Awake(w, "history") /\ ~ShareHeld
    /\ AboveMedian(w) /\ Plan.kind = "windowed"
    /\ IF Below(id) # {}
       THEN Obtain(w, [kind |-> "windowed", covers |-> Max2(Newest(id), Start(id))])
       ELSE IF Poisoned THEN Goto(w, "abandon") /\ UNCHANGED history
       ELSE IF chainDone THEN Obtain(w, [kind |-> "windowed", covers |-> Start(id)])
       ELSE Goto(w, "holdShare") /\ UNCHANGED history
    /\ UNCHANGED <<inputVars, nextJob, slots, poison, donation, buildVars, gate, waiting, job,
                   callerVars>>

WaitShare(w) ==
    /\ pc[w] = "holdShare"
    /\ waiting' = waiting \cup {w}
    /\ Goto(w, "history")
    /\ UNCHANGED <<inputVars, nextJob, slots, poison, donation, buildVars, gate, job, history,
                   callerVars>>

(* A slot's mutex: the assembly holds that of the slot it is about to await. *)
SlotFree(id) == ~(pc[Caller] = "holdSlot" /\ asm = id)

Abandon(w) ==
    /\ pc[w] = "abandon" /\ SlotFree(job[w])
    /\ slots' = [slots EXCEPT ![job[w]] = Empty]
    /\ NotifyAll
    /\ Goto(w, "left")
    /\ UNCHANGED <<inputVars, nextJob, poison, donation, buildVars, gate, job, history, callerVars>>

(* The job's bytes: a function of the frame's bytes and of the history it   *)
(* was given.  A dictionary seeds job zero alone; a donated span is taken   *)
(* by job zero, once.                                                      *)
Encoded(id, h) ==
    [bytes |-> IF id = 0 /\ frame.in.dict THEN [kind |-> "dict"]
               ELSE IF id = 0 /\ donation THEN [kind |-> "donated"]
               ELSE h,
     id |-> id]

Encode(w) ==
    /\ pc[w] = "encode" /\ frame.panics # job[w] /\ SlotFree(job[w])
    /\ slots' = [slots EXCEPT ![job[w]] = Encoded(job[w], history[w])]
    /\ donation' = (donation /\ (job[w] # 0 \/ frame.in.dict))
    /\ NotifyAll
    /\ Goto(w, "top")
    /\ UNCHANGED <<inputVars, nextJob, poison, buildVars, gate, job, history, callerVars>>

(* catch_unwind's Err: poison first, then the slot, then the notification.  *)
Panic(w) ==
    /\ pc[w] = "encode" /\ frame.panics = job[w]
    /\ poison' = job[w]
    /\ donation' = (donation /\ (job[w] # 0 \/ frame.in.dict))
    /\ Goto(w, "release")
    /\ UNCHANGED <<inputVars, nextJob, slots, buildVars, gate, waiting, job, history,
                   callerVars>>

Release(w) ==
    /\ pc[w] = "release" /\ SlotFree(job[w])
    /\ slots' = [slots EXCEPT ![job[w]] = Empty]
    /\ NotifyAll
    /\ Goto(w, "top")
    /\ UNCHANGED <<inputVars, nextJob, poison, donation, buildVars, gate, job, history, callerVars>>

WorkerStep(w) ==
    \/ CheckPoison(w) \/ Claim(w) \/ OwnHistory(w) \/ TakeFeedSpan(w) \/ WaitPrefixBuild(w)
    \/ WaitLdmSnapshot(w) \/ WaitShare(w) \/ Abandon(w) \/ Encode(w) \/ Panic(w) \/ Release(w)

-----------------------------------------------------------------------------
(* run_ldm_feed: publish chunk after chunk; a panic is parked, unless        *)
(* another is, and the gate is marked.                                     *)
Publish ==
    /\ pc[Feeder] = "feed" /\ frame.panics # FeedPass
    /\ gate.published < frame.in.len
    /\ gate' = [gate EXCEPT !.published = Min2(@ + BlockSize, frame.in.len)]
    /\ NotifyAll
    /\ UNCHANGED <<inputVars, nextJob, slots, poison, donation, buildVars, pc, job, history,
                   callerVars>>

FeedEnds ==
    /\ pc[Feeder] = "feed" /\ frame.panics # FeedPass
    /\ gate.published = frame.in.len
    /\ Goto(Feeder, "left")
    /\ UNCHANGED <<inputVars, nextJob, slots, poison, donation, buildVars, gate, waiting, job,
                   history, callerVars>>

(* The panic may come before any chunk or after some.                      *)
FeedPanics ==
    /\ pc[Feeder] = "feed" /\ frame.panics = FeedPass
    /\ \/ /\ poison' = IF Poisoned THEN poison ELSE FeedPass
          /\ Goto(Feeder, "feedPanicked")
          /\ UNCHANGED <<gate, waiting>>
       \/ /\ gate.published + BlockSize < frame.in.len
          /\ gate' = [gate EXCEPT !.published = @ + BlockSize]
          /\ NotifyAll
          /\ UNCHANGED <<poison, pc>>
    /\ UNCHANGED <<inputVars, nextJob, slots, donation, buildVars, job, history, callerVars>>

(* Mutant of MarkFeed: the gate is marked, and nobody is woken.             *)
MarkFeedSilently ==
    /\ pc[Feeder] = "feedPanicked"
    /\ gate' = [gate EXCEPT !.panicked = TRUE]
    /\ Goto(Feeder, "left")
    /\ UNCHANGED <<inputVars, nextJob, slots, poison, donation, buildVars, waiting, job, history,
                   callerVars>>

MarkFeed ==
    /\ pc[Feeder] = "feedPanicked"
    /\ gate' = [gate EXCEPT !.panicked = TRUE]
    /\ NotifyAll
    /\ Goto(Feeder, "left")
    /\ UNCHANGED <<inputVars, nextJob, slots, poison, donation, buildVars, job, history, callerVars>>

FeedStep == Publish \/ FeedEnds \/ FeedPanics \/ MarkFeed

-----------------------------------------------------------------------------
(* The calling thread: the build, then the ordered assembly.                *)
At(label) == Awake(Caller, label)

(* fill_to_freeze: the first of the freeze points past `from`, at or beyond  *)
(* soft, within the bytes given; 0: none.                                   *)
Freeze(points, from, soft, cap) ==
    LET found == {p \in points : p > from /\ p >= soft /\ p <= cap}
    IN  IF found = {} THEN 0 ELSE CHOOSE p \in found : \A q \in found : p <= q

(* build_prefix_snapshot: segments of at most SPF_SEG up to the median; 0    *)
(* if one of them finds no freeze.                                         *)
PrefixBuilt(f, med) ==
    LET cap == Min2(med + SpfSeg, f.in.len)
        next[p \in 0 .. cap] ==
            IF p >= med THEN p
            ELSE LET z == Freeze(f.freezes, p, Min2(p + SpfSeg, med), cap)
                 IN  IF z = 0 THEN 0 ELSE next[z]
    IN  next[0]

BuildPrefix == PrefixBuilt(frame, Plan.med)

BuildWhole ==
    /\ At("build") /\ Plan.kind = "whole" /\ ~ShareHeld
    /\ share' = IF BuildPrefix = 0 THEN NoBuild ELSE [built |-> TRUE, upto |-> BuildPrefix]
    /\ NotifyAll
    /\ Goto(Caller, "assemble")
    /\ UNCHANGED <<inputVars, nextJob, slots, poison, donation, publishes, chainDone, upto, nextPub,
                   gate, job, history, callerVars>>

ChainTarget(p) == p >= nextPub /\ p <= Plan.stop

NextFreeze == Freeze(frame.freezes, upto, Min2(upto + SpfSeg, Plan.stop),
                     Min2(Plan.stop + SpfSeg, frame.in.len))

(* build_ldm_prefix_chain: one segment, published when it crosses a target. *)
BuildChain ==
    LET p == NextFreeze
    IN
    /\ At("build") /\ Plan.kind = "windowed" /\ upto < Plan.stop
    /\ p # 0
    /\ upto' = p
    /\ IF ChainTarget(p)
       THEN ~ShareHeld /\ publishes' = Append(publishes, p) /\ nextPub' = p + Plan.cadence /\ NotifyAll
       ELSE UNCHANGED <<publishes, nextPub, waiting>>
    /\ UNCHANGED <<inputVars, nextJob, slots, poison, donation, share, chainDone, gate, pc, job,
                   history, callerVars>>

ChainEnds ==
    /\ At("build") /\ Plan.kind = "windowed" /\ ~ShareHeld
    /\ \/ upto >= Plan.stop
       \/ NextFreeze = 0
    /\ chainDone' = TRUE
    /\ NotifyAll
    /\ Goto(Caller, "assemble")
    /\ UNCHANGED <<inputVars, nextJob, slots, poison, donation, share, publishes, upto, nextPub,
                   gate, job, history, callerVars>>

NoBuildNeeded ==
    /\ At("build") /\ Plan.kind \in {"none", "selffill"}
    /\ IF Plan = NoPlan THEN UNCHANGED waiting ELSE NotifyAll
    /\ Goto(Caller, "assemble")
    /\ UNCHANGED <<inputVars, nextJob, slots, poison, donation, buildVars, gate, job, history,
                   callerVars>>

(* Under the slot's mutex: take the bytes; if there are none, look at        *)
(* poison, and wait if there is none either.                               *)
Take ==
    /\ At("assemble") /\ asm \in Job
    /\ slots[asm] # Pending
    /\ output' = Append(output, slots[asm])
    /\ asm' = asm + 1
    /\ UNCHANGED <<inputVars, nextJob, slots, poison, donation, buildVars, gate, waiting, pc, job,
                   history, res>>

SkipPoisoned == Poisoned

Await ==
    /\ At("assemble") /\ asm \in Job
    /\ slots[asm] = Pending
    /\ IF SkipPoisoned
       THEN /\ output' = Append(output, Empty)
            /\ asm' = asm + 1
            /\ UNCHANGED pc
       ELSE Goto(Caller, "holdSlot") /\ UNCHANGED <<output, asm>>
    /\ UNCHANGED <<inputVars, nextJob, slots, poison, donation, buildVars, gate, waiting, job,
                   history, res>>

WaitSlot ==
    /\ pc[Caller] = "holdSlot"
    /\ waiting' = waiting \cup {Caller}
    /\ Goto(Caller, "assemble")
    /\ UNCHANGED <<inputVars, nextJob, slots, poison, donation, buildVars, gate, job, history,
                   callerVars>>

(* The scope joins; a parked panic resumes, otherwise the frame is returned. *)
Return ==
    /\ At("assemble") /\ asm \notin Job
    /\ \A t \in Threads \ {Caller} : pc[t] = "left"
    /\ res' = IF Poisoned THEN "panic" ELSE "frame"
    /\ Goto(Caller, "returned")
    /\ UNCHANGED <<inputVars, nextJob, slots, poison, donation, buildVars, gate, waiting, job,
                   history, asm, output>>

CallerStep ==
    BuildWhole \/ BuildChain \/ ChainEnds \/ NoBuildNeeded \/ Take \/ Await \/ WaitSlot \/ Return

Next == CallerStep \/ FeedStep \/ \E w \in Worker : WorkerStep(w)

Fairness ==
    /\ WF_vars(CallerStep) /\ WF_vars(FeedStep)
    /\ \A w \in Worker : WF_vars(WorkerStep(w))

Spec == Init /\ [][Next]_vars
FairSpec == Spec /\ Fairness

-----------------------------------------------------------------------------
(* Properties.                                                             *)

(* The history a job starts from in every schedule, and the bytes it has    *)
(* then: functions of the frame.                                            *)
HistoryDue(id) ==
    LET above == Plan # NoPlan /\ Start(id) > Plan.med
    IN  IF Feeds THEN [kind |-> "feed", span |-> FeedSpan(id, frame.in.len)]
        ELSE IF layout.deep \/ (above /\ Plan.kind \in {"selffill", "windowed"})
             THEN [kind |-> "windowed", covers |-> Start(id)]
        ELSE IF above /\ Plan.kind = "whole" /\ Start(id) > BuildPrefix
             THEN [kind |-> "whole", upto |-> BuildPrefix]
        ELSE [kind |-> "strip"]

Reference(id) ==
    [bytes |-> IF id = 0 /\ frame.in.dict THEN [kind |-> "dict"]
               ELSE IF id = 0 /\ layout.donated THEN [kind |-> "donated"]
               ELSE HistoryDue(id),
     id |-> id]

(* Which worker takes a job, and how far the builder or the feed is when it  *)
(* does, never shows in the frame: what is appended is, slot by slot, what   *)
(* the frame alone determines; a slot is empty only under a panic, which the *)
(* call then resumes instead of returning the frame.                        *)
ScheduleFree ==
    /\ \A i \in DOMAIN output :
        \/ output[i] = Reference(i - 1)
        \/ Poisoned /\ output[i] = Empty
    /\ pc[Caller] = "returned" =>
        IF frame.panics = NoOne THEN res = "frame" /\ Len(output) = layout.n ELSE res = "panic"

(* The one way for a call not to return: a panic is parked and notified     *)
(* while the caller, having looked at poison, is about to sleep, and no      *)
(* thread is left to notify it again.                                       *)
LostWake ==
    /\ Poisoned /\ Caller \in waiting
    /\ slots[asm] = Pending
    /\ \A t \in Threads \ {Caller} : pc[t] = "left"

(* Every other call returns: no adopter, no feed consumer and not the        *)
(* assembly waits for a build, a chunk or a slot that is not coming.         *)
CallReturns == <>(pc[Caller] = "returned" \/ LostWake)
=============================================================================
