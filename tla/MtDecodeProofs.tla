--------------------------- MODULE MtDecodeProofs ---------------------------
(***************************************************************************)
(* Proofs about MtDecode, for every number of workers and segments and     *)
(* every window: its safety invariants and that it implements SeqDecode;   *)
(* and, from MtFramesProofs, that the frame lanes of MCFrameLanes keep     *)
(* theirs in both of their forms.                                          *)
(***************************************************************************)
EXTENDS MCFrameLanes, NaturalLemmas, TLAPS

Active(w) == wpc[w] \in {"gate", "stage", "fill"}

(* The consumer's position: cur is the executed prefix, everything before  *)
(* it has been claimed, and so has the segment being executed.             *)
Order ==
    /\ executed = cur
    /\ cur <= nextJob
    /\ cpc \in {"take", "exec"} => cur < N
    /\ cpc = "exec" => cur < nextJob /\ slots[cur] = "none" /\ staging[cur] = "ok"
    /\ cpc = "verify" => cur = N

(* Who works on which segment.                                             *)
Claims ==
    /\ \A w \in Worker : Active(w) =>
           /\ job[w] < nextJob
           /\ cur <= job[w]
           /\ cpc = "exec" => cur < job[w]
           /\ slots[job[w]] = "none"
    /\ \A v, w \in Worker : Active(v) /\ Active(w) /\ job[v] = job[w] => v = w
    /\ \A w \in Worker : wpc[w] \in {"stage", "fill"} => job[w] <= executed + Window

(* What a filled slot says.                                                *)
Filled ==
    \A s \in Seg : slots[s] # "none" =>
        /\ s < nextJob
        /\ cur <= s
        /\ s <= executed + Window
        /\ slots[s] = "ok" => staging[s] = "ok"
        /\ slots[s] = "err" => staging[s] = "err"
        /\ slots[s] = "sentinel" => poison

(* The payload comes from a segment staging may have reached, and is there *)
(* before the sentinel is.                                                 *)
Payload ==
    /\ poison => \E s \in Seg : s <= executed + Window /\ staging[s] = "panic"
    /\ \A w \in Worker : wpc[w] = "fill" /\ staging[job[w]] = "panic" => poison

(* What the consumer's pending result says of the segment it stopped at.   *)
Outcome ==
    /\ cpc \in {"drop", "join"} =>
        /\ result.at = cur
        /\ result.kind \in {"ok", "size"} => cur = N
        /\ result.kind \in {"stage", "exec", "panic"} => cur < N
        /\ result.kind = "ok" => sizeOk
        /\ result.kind = "size" => ~sizeOk
        /\ result.kind = "stage" => staging[cur] = "err"
        /\ result.kind = "exec" => staging[cur] = "ok" /\ exec[cur] = "err"
        /\ result.kind = "panic" => exec[cur] = "panic"
        /\ result.kind = "sentinel" => poison
        /\ result.kind # "none"
    /\ cpc = "done" => result.kind # "sentinel"

IInv ==
    /\ TypeOK
    /\ Order
    /\ Claims
    /\ Filled
    /\ Payload
    /\ Outcome
    /\ BorrowsOutlived

-----------------------------------------------------------------------------
(* The initial states satisfy the inductive invariant.                     *)
LEMMA InitInv == Init => IInv
  <1> SUFFICES ASSUME Init PROVE IInv
    OBVIOUS
  <1> USE StageAAssumption DEF Init, StageInit
  <1>1. TypeOK
    <2>1. 0 \in 0 .. N /\ 0 \in Seg
      BY DEF Seg
    <2>2. StageTypeOK
      BY <2>1 DEF StageTypeOK, SlotValue
    <2>3. result \in [kind : Kind, at : 0 .. N]
      BY <2>1 DEF Kind
    <2> QED
      BY <2>1, <2>2, <2>3 DEF TypeOK
  <1>2. Order /\ Claims /\ Filled /\ Payload
    BY DEF Order, Claims, Filled, Payload, Active, Seg
  <1>3. Outcome /\ BorrowsOutlived
    BY DEF Outcome, BorrowsOutlived
  <1> QED
    BY <1>1, <1>2, <1>3 DEF IInv

(* Types are preserved by every step; that cur stays within 0 .. N takes   *)
(* Order.                                                                  *)
LEMMA TypeStep == TypeOK /\ Order /\ [Next]_vars => TypeOK'
  <1> SUFFICES ASSUME TypeOK, Order, [Next]_vars PROVE TypeOK'
    OBVIOUS
  <1> USE StageAAssumption DEF TypeOK, StageTypeOK, Seg, SlotValue
  <1>1. ASSUME NEW w \in Worker, ServeStageA(w) PROVE TypeOK'
    <2> USE <1>1 DEF ServeStageA, callerVars, Goto
    <2>1. CASE CheckStop(w)
      BY <2>1 DEF CheckStop
    <2>2. CASE Claim(w)
      <3>1. nextJob' \in Nat
        BY <2>2 DEF Claim
      <3>2. job' \in [Worker -> Seg]
        <4>1. nextJob < N => nextJob \in Seg
          OBVIOUS
        <4> QED
          BY <2>2, <4>1 DEF Claim
      <3>3. wpc' \in [Worker -> {"top", "claim", "gate", "stage", "fill", "notify", "left"}]
        BY <2>2 DEF Claim
      <3> QED
        BY <2>2, <3>1, <3>2, <3>3 DEF Claim
    <2>3. CASE Gate(w)
      BY <2>3 DEF Gate
    <2>4. CASE Stage(w)
      BY <2>4 DEF Stage
    <2>5. CASE Fill(w)
      BY <2>5 DEF Fill, Staging
    <2>6. CASE Notify(w)
      BY <2>6 DEF Notify
    <2> QED
      BY <2>1, <2>2, <2>3, <2>4, <2>5, <2>6 DEF WorkerStep
  <1>2. CASE WaitStaged
    BY <1>2 DEF WaitStaged, callerVars
  <1>3. CASE TakeStaged
    <2>1. slots' \in [Seg -> SlotValue]
      BY <1>3 DEF TakeStaged
    <2>2. cpc' \in {"exec", "drop"} /\ result' \in [kind : Kind, at : 0 .. N]
      <3>1. cur \in Seg /\ slots[cur] \in {"ok", "err", "sentinel"}
        BY <1>3 DEF TakeStaged
      <3>2. CASE slots[cur] = "ok"
        BY <1>3, <3>2 DEF TakeStaged
      <3>3. CASE slots[cur] = "err"
        BY <1>3, <3>3 DEF TakeStaged, Leave, Kind
      <3>4. CASE slots[cur] = "sentinel"
        BY <1>3, <3>4 DEF TakeStaged, Leave, Kind
      <3> QED
        BY <3>1, <3>2, <3>3, <3>4
    <2> QED
      BY <1>3, <2>1, <2>2 DEF TakeStaged
  <1>4. CASE ExecuteSegment
    <2>1. cur' \in 0 .. N /\ executed' \in 0 .. N
      BY <1>4 DEF ExecuteSegment, Order
    <2> QED
      BY <1>4, <2>1 DEF ExecuteSegment
  <1>5. CASE ExecuteFails
    BY <1>5 DEF ExecuteFails, Leave, stageVars, Kind
  <1>6. CASE VerifySizes
    BY <1>6 DEF VerifySizes, Leave, stageVars, Kind
  <1>7. CASE DropGuard
    BY <1>7 DEF DropGuard
  <1>8. CASE Join
    BY <1>8 DEF Join, stageVars, Kind
  <1>9. CASE UNCHANGED vars
    BY <1>9 DEF vars, stageVars, callerVars
  <1> QED
    BY <1>1, <1>2, <1>3, <1>4, <1>5, <1>6, <1>7, <1>8, <1>9 DEF Next, CallerStep

-----------------------------------------------------------------------------
(* The inductive invariant is preserved by a step of a worker.             *)
LEMMA WorkerInductive ==
    ASSUME IInv, TypeOK', NEW w \in Worker, ServeStageA(w)
    PROVE  IInv'
  <1> USE StageAAssumption DEF IInv, TypeOK, StageTypeOK, Seg
  <1> UNCHANGED callerVars
    BY DEF ServeStageA
  <1>1. CASE CheckStop(w)
    <2> USE <1>1 DEF CheckStop, Goto, callerVars
    <2>1. Order' /\ Filled'
      BY DEF Order, Filled
    <2>2. Claims'
      BY DEF Claims, Active
    <2>3. Payload' /\ Outcome' /\ BorrowsOutlived'
      BY DEF Payload, Outcome, BorrowsOutlived
    <2> QED
      BY <2>1, <2>2, <2>3
  <1>2. CASE Claim(w)
    <2> USE <1>2 DEF Claim, Goto, callerVars
    <2>1. Order' /\ Filled'
      BY DEF Order, Filled
    <2>2. Claims'
      <3> DEFINE Claimed(v) == /\ job[v] < nextJob
                               /\ cur <= job[v]
                               /\ cpc = "exec" => cur < job[v]
                               /\ slots[job[v]] = "none"
      <3>1. ASSUME NEW v \in Worker, v # w
            PROVE  job'[v] = job[v] /\ wpc'[v] = wpc[v]
        BY <3>1
      <3>2. Active(w)' => nextJob < N /\ job'[w] = nextJob
        BY DEF Active
      <3>3. ASSUME NEW v \in Worker, Active(v)' PROVE Claimed(v)'
        <4>1. CASE v = w
          BY <3>2, <3>3, <4>1 DEF Order, Filled
        <4>2. CASE v # w
          BY <3>1, <3>3, <4>2 DEF Claims, Active
        <4> QED
          BY <4>1, <4>2
      <3>4. ASSUME NEW u \in Worker, NEW v \in Worker,
                   Active(u)', Active(v)', job'[u] = job'[v]
            PROVE  u = v
        BY <3>1, <3>2, <3>4, SMTT(20) DEF Claims, Active
      <3>5. ASSUME NEW v \in Worker, wpc'[v] \in {"stage", "fill"}
            PROVE  job'[v] <= executed' + Window
        BY <3>1, <3>5 DEF Claims
      <3> QED
        BY <3>3, <3>4, <3>5 DEF Claims
    <2>3. Payload' /\ Outcome' /\ BorrowsOutlived'
      BY DEF Payload, Outcome, BorrowsOutlived
    <2> QED
      BY <2>1, <2>2, <2>3
  <1>3. CASE Gate(w)
    <2> USE <1>3 DEF Gate, Goto, callerVars
    <2>1. Order' /\ Filled'
      BY DEF Order, Filled
    <2>2. Claims'
      <3>1. /\ wpc'[w] \in {"left", "stage"}
            /\ wpc'[w] = "stage" => job[w] <= executed + Window
            /\ \A v \in Worker : v # w => wpc'[v] = wpc[v]
        BY DEF Ahead
      <3>2. \A v \in Worker : Active(v)' => Active(v)
        BY <3>1 DEF Active
      <3> QED
        BY <3>1, <3>2 DEF Claims
    <2>3. Payload' /\ Outcome' /\ BorrowsOutlived'
      BY DEF Payload, Outcome, BorrowsOutlived
    <2> QED
      BY <2>1, <2>2, <2>3
  <1>4. CASE Stage(w)
    <2> USE <1>4 DEF Stage, Goto, callerVars
    <2>1. Order' /\ Filled'
      BY DEF Order, Filled
    <2>2. Claims'
      BY DEF Claims, Active
    <2>3. Payload'
      <3>1. /\ poison => \E s \in Seg : s <= executed + Window /\ staging[s] = "panic"
            /\ \A v \in Worker : wpc[v] = "fill" /\ staging[job[v]] = "panic" => poison
        BY DEF Payload
      <3>2. job[w] \in Seg /\ job[w] <= executed + Window
        BY DEF Claims
      <3>3. /\ poison' = (poison \/ staging[job[w]] = "panic")
            /\ staging' = staging /\ executed' = executed /\ job' = job
            /\ \A v \in Worker : v # w => wpc'[v] = wpc[v]
        OBVIOUS
      <3>4. poison' => \E s \in Seg : s <= executed + Window /\ staging[s] = "panic"
        BY ONLY <3>1, <3>2, <3>3
      <3>5. ASSUME NEW v \in Worker, wpc'[v] = "fill", staging[job[v]] = "panic" PROVE poison'
        BY ONLY <3>1, <3>3, <3>5
      <3>6. Seg' = Seg
        OBVIOUS
      <3> QED
        BY ONLY <3>3, <3>4, <3>5, <3>6 DEF Payload
    <2>4. Outcome'
      BY DEF Outcome
    <2>5. BorrowsOutlived'
      BY DEF BorrowsOutlived
    <2> QED
      BY <2>1, <2>2, <2>3, <2>4, <2>5
  <1>5. CASE Fill(w)
    <2> USE <1>5 DEF Fill, Goto, callerVars
    <2>1. Order'
      BY DEF Order, Claims, Active
    <2>2. Filled'
      BY DEF Filled, Claims, Active, Payload, Staging
    <2>3. Claims'
      BY DEF Claims, Active
    <2>4. Payload' /\ Outcome' /\ BorrowsOutlived'
      BY DEF Payload, Outcome, BorrowsOutlived
    <2> QED
      BY <2>1, <2>2, <2>3, <2>4
  <1>6. CASE Notify(w)
    <2> USE <1>6 DEF Notify, Goto, callerVars
    <2>1. Order' /\ Filled'
      BY DEF Order, Filled
    <2>2. Claims'
      BY DEF Claims, Active
    <2>3. Payload' /\ Outcome' /\ BorrowsOutlived'
      BY DEF Payload, Outcome, BorrowsOutlived
    <2> QED
      BY <2>1, <2>2, <2>3
  <1> QED
    BY <1>1, <1>2, <1>3, <1>4, <1>5, <1>6 DEF ServeStageA, WorkerStep

(* The inductive invariant is preserved by a step of the calling thread.   *)
LEMMA CallerInductive ==
    ASSUME IInv, TypeOK', CallerStep
    PROVE  IInv'
  <1> USE StageAAssumption DEF IInv, TypeOK, StageTypeOK, Seg
  <1>1. CASE WaitStaged
    <2> USE <1>1 DEF WaitStaged, callerVars
    <2>1. Order' /\ Filled'
      BY DEF Order, Filled
    <2>2. Claims'
      BY DEF Claims, Active
    <2>3. Payload' /\ Outcome' /\ BorrowsOutlived'
      BY DEF Payload, Outcome, BorrowsOutlived
    <2> QED
      BY <2>1, <2>2, <2>3
  <1>2. CASE TakeStaged
    <2> USE <1>2 DEF TakeStaged
    <2>1. slots[cur] \in {"ok", "err", "sentinel"}
      BY DEF SlotValue
    <2>2. /\ slots[cur] = "ok" => cpc' = "exec" /\ result' = result
          /\ slots[cur] = "err" => cpc' = "drop" /\ result' = [kind |-> "stage", at |-> cur]
          /\ slots[cur] = "sentinel" =>
                 cpc' = "drop" /\ result' = [kind |-> "sentinel", at |-> cur]
      BY <2>1 DEF Leave
    <2>3. Order'
      BY <2>1, <2>2 DEF Order, Filled
    <2>4. Claims'
      BY <2>1, <2>2 DEF Claims, Active
    <2>5. Filled' /\ Payload'
      BY DEF Filled, Payload
    <2>6. Outcome' /\ BorrowsOutlived'
      BY <2>1, <2>2 DEF Outcome, BorrowsOutlived, Filled
    <2> QED
      BY <2>3, <2>4, <2>5, <2>6
  <1>3. CASE ExecuteSegment
    <2> USE <1>3 DEF ExecuteSegment
    <2>1. Order'
      BY DEF Order
    <2>2. Claims'
      BY DEF Claims, Active, Order
    <2>3. Filled'
      BY DEF Filled, Order
    <2>4. Payload'
      BY DEF Payload, Order
    <2>5. cpc' \in {"take", "verify"}
      OBVIOUS
    <2>6. Outcome' /\ BorrowsOutlived'
      BY <2>5 DEF Outcome, BorrowsOutlived
    <2> QED
      BY <2>1, <2>2, <2>3, <2>4, <2>6
  <1>4. CASE ExecuteFails
    <2> USE <1>4 DEF ExecuteFails, Leave, stageVars
    <2>1. Order' /\ Filled'
      BY DEF Order, Filled
    <2>2. Claims'
      BY DEF Claims, Active
    <2>3. Payload' /\ BorrowsOutlived'
      BY DEF Payload, BorrowsOutlived
    <2>4. Outcome'
      BY DEF Outcome, Order, Exec
    <2> QED
      BY <2>1, <2>2, <2>3, <2>4
  <1>5. CASE VerifySizes
    <2> USE <1>5 DEF VerifySizes, Leave, stageVars
    <2>1. Order' /\ Filled'
      BY DEF Order, Filled
    <2>2. Claims'
      BY DEF Claims, Active
    <2>3. Payload' /\ BorrowsOutlived'
      BY DEF Payload, BorrowsOutlived
    <2>4. Outcome'
      BY DEF Outcome, Order
    <2> QED
      BY <2>1, <2>2, <2>3, <2>4
  <1>6. CASE DropGuard
    <2> USE <1>6 DEF DropGuard
    <2>1. Order' /\ Filled'
      BY DEF Order, Filled
    <2>2. Claims'
      BY DEF Claims, Active
    <2>3. Payload' /\ Outcome' /\ BorrowsOutlived'
      BY DEF Payload, Outcome, BorrowsOutlived
    <2> QED
      BY <2>1, <2>2, <2>3
  <1>7. CASE Join
    <2> USE <1>7 DEF Join, stageVars
    <2>1. Order' /\ Filled'
      BY DEF Order, Filled
    <2>2. Claims'
      BY DEF Claims, Active
    <2>3. Payload' /\ BorrowsOutlived'
      BY DEF Payload, BorrowsOutlived
    <2>4. Outcome'
      BY DEF Outcome
    <2> QED
      BY <2>1, <2>2, <2>3, <2>4
  <1> QED
    BY <1>1, <1>2, <1>3, <1>4, <1>5, <1>6, <1>7 DEF CallerStep

-----------------------------------------------------------------------------
(* A step preserves the inductive invariant.                               *)
LEMMA StepInv == IInv /\ [Next]_vars => IInv'
  <1> SUFFICES ASSUME IInv, [Next]_vars PROVE IInv'
    OBVIOUS
  <1>1. TypeOK'
    BY TypeStep DEF IInv
  <1>2. CASE CallerStep
    BY <1>1, <1>2, CallerInductive
  <1>3. ASSUME NEW w \in Worker, ServeStageA(w) PROVE IInv'
    BY <1>1, <1>3, WorkerInductive
  <1>4. CASE UNCHANGED vars
    BY <1>4 DEF vars, stageVars, callerVars, IInv, TypeOK, StageTypeOK, Order, Claims,
                Active, Filled, Payload, Outcome, BorrowsOutlived
  <1> QED
    BY <1>2, <1>3, <1>4 DEF Next

(* The inductive invariant holds in every reachable state.                 *)
THEOREM Invariance == Spec => []IInv
  BY InitInv, StepInv, PTL DEF Spec

(* Every variable keeps its type.                                          *)
THEOREM TypeCorrect == Spec => []TypeOK
  <1>1. IInv => TypeOK
    BY DEF IInv
  <1> QED
    BY <1>1, Invariance, PTL

(* decode_parallel never returns while a worker may still read the caller's*)
(* borrows, for any number of workers and whatever fails or panics.        *)
THEOREM BorrowsSafe == Spec => []BorrowsOutlived
  <1>1. IInv => BorrowsOutlived
    BY DEF IInv
  <1> QED
    BY <1>1, Invariance, PTL

(* Staging never runs more than Window segments past the executed prefix.  *)
THEOREM WindowSafe == Spec => []StagedWindow
  <1>1. IInv => StagedWindow
    BY DEF IInv, StagedWindow, Claims, Filled, Order, TypeOK, StageTypeOK, Seg
  <1> QED
    BY <1>1, Invariance, PTL

(* The sentinel stored on a worker panic never surfaces as the result.     *)
THEOREM SentinelSafe == Spec => []SentinelHidden
  <1>1. IInv => SentinelHidden
    BY DEF IInv, SentinelHidden, Outcome
  <1> QED
    BY <1>1, Invariance, PTL

(* Every segment is staged by one worker and never again once taken.       *)
THEOREM StagedOnceSafe == Spec => []StagedOnce
  <1>1. IInv => StagedOnce
    BY DEF IInv, StagedOnce, Claims, Active
  <1> QED
    BY <1>1, Invariance, PTL

-----------------------------------------------------------------------------
Shown == IF cpc = "done" THEN result ELSE [kind |-> "none", at |-> 0]

(* A step of the pipeline is a step of the sequential decoder or none.     *)
LEMMA StepSimulates ==
    ASSUME IInv, [Next]_vars
    PROVE  [Sequential!SeqNext]_<<staging, exec, sizeOk, executed, Shown>>
  <1> DEFINE seqState == <<staging, exec, sizeOk, executed, Shown>>
  <1> USE StageAAssumption DEF IInv, TypeOK, StageTypeOK, Shown
  <1>1. ASSUME NEW w \in Worker, ServeStageA(w) PROVE UNCHANGED seqState
    BY <1>1 DEF ServeStageA, WorkerStep, callerVars, CheckStop, Claim, Gate, Stage, Fill, Notify
  <1>2. CASE WaitStaged
    BY <1>2 DEF WaitStaged, callerVars
  <1>3. CASE TakeStaged
    <2>1. cpc' # "done"
      <3>1. slots[cur] \in {"ok", "err", "sentinel"}
        BY <1>3 DEF TakeStaged, Seg, SlotValue
      <3> QED
        BY <1>3, <3>1 DEF TakeStaged, Leave
    <2> QED
      BY <1>3, <2>1 DEF TakeStaged
  <1>4. CASE ExecuteSegment
    <2>1. Sequential!Execute
      BY <1>4 DEF ExecuteSegment, Order, Sequential!Execute, Sequential!Pending
    <2> QED
      BY <2>1 DEF Sequential!SeqNext
  <1>5. CASE ExecuteFails
    BY <1>5 DEF ExecuteFails, Leave, stageVars
  <1>6. CASE VerifySizes
    BY <1>6 DEF VerifySizes, Leave, stageVars
  <1>7. CASE DropGuard
    BY <1>7 DEF DropGuard
  <1>8. CASE Join
    <2> USE <1>8 DEF Join, stageVars
    <2>1. /\ Shown = Sequential!Pending
          /\ Shown' = result'
          /\ UNCHANGED <<staging, exec, sizeOk, executed>>
          /\ result.at = executed
      BY DEF Sequential!Pending, Outcome, Order
    <2>2. CASE poison
      <3>1. result' = [kind |-> "panic", at |-> executed]
        BY <2>1, <2>2
      <3>2. Sequential!Unwind
        BY <2>1, <2>2, <3>1 DEF Sequential!Unwind, Payload, Seg
      <3> QED
        BY <3>2 DEF Sequential!SeqNext
    <2>3. CASE ~poison
      <3>1. result' = result /\ result = [kind |-> result.kind, at |-> executed]
        BY <2>1, <2>3
      <3>2. CASE result.kind \in {"ok", "size"}
        <4>1. Sequential!Complete
          BY <2>1, <3>1, <3>2 DEF Sequential!Complete, Outcome, Order
        <4> QED
          BY <4>1 DEF Sequential!SeqNext
      <3>3. CASE result.kind \in {"stage", "exec"}
        <4>1. Sequential!Fail
          BY <2>1, <3>1, <3>3 DEF Sequential!Fail, Outcome, Order
        <4> QED
          BY <4>1 DEF Sequential!SeqNext
      <3>4. CASE result.kind = "panic"
        <4>1. Sequential!Unwind
          BY <2>1, <3>1, <3>4 DEF Sequential!Unwind, Outcome, Order
        <4> QED
          BY <4>1 DEF Sequential!SeqNext
      <3> QED
        BY <2>3, <3>2, <3>3, <3>4 DEF Outcome, Kind
    <2> QED
      BY <2>2, <2>3
  <1>9. CASE UNCHANGED vars
    BY <1>9 DEF vars, stageVars, callerVars
  <1> QED
    BY <1>1, <1>2, <1>3, <1>4, <1>5, <1>6, <1>7, <1>8, <1>9 DEF Next, CallerStep

(* The pipeline implements sequential decoding: its output grows in input  *)
(* order and it returns what the first failing segment decides.            *)
THEOREM Refinement == Spec => ImplementsSeqDecode
  <1>1. Init => Sequential!SeqInit
    BY DEF Init, StageInit, Sequential!SeqInit, Sequential!Pending
  <1>2. IInv /\ [Next]_vars => [Sequential!SeqNext]_(Sequential!seqVars)
    BY StepSimulates DEF Sequential!seqVars, Shown
  <1> QED
    BY <1>1, <1>2, Invariance, PTL DEF Spec, ImplementsSeqDecode, Sequential!SeqSpec

-----------------------------------------------------------------------------
(* The frame lanes, whose proofs (MtFramesProofs) hold of both of their    *)
(* forms: a decode into a slice and one into an output that grows.         *)
SliceProofs == INSTANCE MtFramesProofs WITH
    Worker <- LaneWorkers, LaneMode <- TRUE, Deferred <- FALSE, staging <- lstaging,
    nextJob <- lnextJob, executed <- lexecuted, abort <- labort, poison <- lpoison, slots <- lslots,
    published <- lpublished, waiting <- lwaiting, wpc <- lwpc, job <- ljob, exec <- lexec,
    cpc <- lcpc, result <- lresult

GrowingProofs == INSTANCE MtFramesProofs WITH
    Worker <- LaneWorkers, LaneMode <- TRUE, Deferred <- TRUE, Window <- N, staging <- lstaging,
    nextJob <- lnextJob, executed <- lexecuted, abort <- labort, poison <- lpoison, slots <- lslots,
    published <- lpublished, waiting <- lwaiting, wpc <- lwpc, job <- ljob, exec <- lexec,
    cpc <- lcpc, result <- lresult

LEMMA SliceHypotheses ==
    /\ SliceProofs!StageAAssumption /\ SliceProofs!MtFramesAssumption /\ SliceProofs!ConsecutiveLanes
    /\ SliceProofs!Lane = Slice!Lane
  <1>1. LaneWorkers # {} /\ IsFiniteSet(LaneWorkers)
    BY LanesAssumption
  <1>2. N \in Nat \ {0} /\ Window \in Nat \ {0}
    BY StageAAssumption
  <1>3. SliceProofs!StageAAssumption
    BY <1>1, <1>2 DEF SliceProofs!StageAAssumption, IsFiniteSet, SliceProofs!IsFiniteSet
  <1>4. SliceProofs!MtFramesAssumption /\ SliceProofs!ConsecutiveLanes
    BY LanesAssumption DEF Slice!MtFramesAssumption, Slice!Lane, Slice!Frame, Slice!Seg,
       Slice!ConsecutiveLanes, Slice!Lane, Slice!Frame, Slice!Seg, SliceProofs!MtFramesAssumption,
       SliceProofs!ConsecutiveLanes, SliceProofs!Lane, SliceProofs!Frame, SliceProofs!Seg
  <1> QED
    BY <1>3, <1>4 DEF SliceProofs!Lane, Slice!Lane

(* MCFrameLanes' instance of MtFrames and that of the proofs are the same. *)
LEMMA SliceSame ==
    /\ Slice!Init = SliceProofs!Init
    /\ Slice!vars = SliceProofs!vars
    /\ Slice!CallerStep = SliceProofs!CallerStep
    /\ \A l : Slice!LaneStep(l) = SliceProofs!LaneStep(l)
    /\ \A w : Slice!ServeStageA(w) = SliceProofs!ServeStageA(w)
    /\ Slice!WithinPlaced = SliceProofs!WithinPlaced
    /\ Slice!InPlace = SliceProofs!InPlace
    /\ Slice!SerialOutcome = SliceProofs!SerialOutcome
    /\ Slice!LanesOutlived = SliceProofs!LanesOutlived
  BY DEF Slice!Seg, Slice!Staging, Slice!SlotValue, Slice!Stop, Slice!Ahead, Slice!Goto,
         Slice!CheckStop, Slice!Claim, Slice!Gate, Slice!Stage, Slice!Fill, Slice!Notify,
         Slice!WorkerStep, Slice!stageVars, Slice!Frame, Slice!Lane, Slice!Size,
         Slice!LaneSegs, Slice!First, Slice!Exec, Slice!laneVars, Slice!input, Slice!vars,
         Slice!NoOutcome, Slice!StageInit, Slice!Init, Slice!LaneGoto, Slice!Record,
         Slice!FrameStart, Slice!Remaining, Slice!Cur, Slice!AddPredecessor,
         Slice!BaseAborts, Slice!BaseKnown, Slice!TakeStaged, Slice!FindUnstaged,
         Slice!Sleep, Slice!ExecuteSegment, Slice!ExecuteFails, Slice!ExecutePanics,
         Slice!RecordPanic, Slice!NotifyPanic, Slice!LaneChecksum, Slice!FinishLane,
         Slice!LaneStep, Slice!LeaseLanes, Slice!ResolveStops, Slice!Failed, Slice!Written,
         Slice!Verified, Slice!Collected, Slice!Collect, Slice!Unwind, Slice!DropLanes,
         Slice!JoinLanes, Slice!Join, Slice!CallerStep, Slice!ServeStageA, Slice!Executed,
         Slice!InPlace, Slice!WithinPlaced, Slice!Calm, Slice!SerialOutcome,
         Slice!LanesOutlived, SliceProofs!Seg, SliceProofs!Staging, SliceProofs!SlotValue,
         SliceProofs!Stop, SliceProofs!Ahead, SliceProofs!Goto, SliceProofs!CheckStop,
         SliceProofs!Claim, SliceProofs!Gate, SliceProofs!Stage, SliceProofs!Fill,
         SliceProofs!Notify, SliceProofs!WorkerStep, SliceProofs!stageVars,
         SliceProofs!Frame, SliceProofs!Lane, SliceProofs!Size, SliceProofs!LaneSegs,
         SliceProofs!First, SliceProofs!Exec, SliceProofs!laneVars, SliceProofs!input,
         SliceProofs!vars, SliceProofs!NoOutcome, SliceProofs!StageInit, SliceProofs!Init,
         SliceProofs!LaneGoto, SliceProofs!Record, SliceProofs!FrameStart,
         SliceProofs!Remaining, SliceProofs!Cur, SliceProofs!AddPredecessor,
         SliceProofs!BaseAborts, SliceProofs!BaseKnown, SliceProofs!TakeStaged,
         SliceProofs!FindUnstaged, SliceProofs!Sleep, SliceProofs!ExecuteSegment,
         SliceProofs!ExecuteFails, SliceProofs!ExecutePanics, SliceProofs!RecordPanic,
         SliceProofs!NotifyPanic, SliceProofs!LaneChecksum, SliceProofs!FinishLane,
         SliceProofs!LaneStep, SliceProofs!LeaseLanes, SliceProofs!ResolveStops,
         SliceProofs!Failed, SliceProofs!Written, SliceProofs!Verified,
         SliceProofs!Collected, SliceProofs!Collect, SliceProofs!Unwind,
         SliceProofs!DropLanes, SliceProofs!JoinLanes, SliceProofs!Join,
         SliceProofs!CallerStep, SliceProofs!ServeStageA, SliceProofs!Executed,
         SliceProofs!InPlace, SliceProofs!WithinPlaced, SliceProofs!Calm,
         SliceProofs!SerialOutcome, SliceProofs!LanesOutlived

LEMMA SliceKeeps ==
    /\ Slice!Init => SliceProofs!LanesInv
    /\ /\ SliceProofs!LanesInv
       /\ \/ Slice!CallerStep
          \/ \E l \in Slice!Lane : Slice!LaneStep(l)
          \/ \E w \in LaneWorkers : Slice!ServeStageA(w)
       => SliceProofs!LanesInv'
    /\ SliceProofs!LanesInv /\ UNCHANGED Slice!vars => SliceProofs!LanesInv'
    /\ SliceProofs!LanesInv => /\ Slice!InPlace /\ Slice!SerialOutcome /\ Slice!LanesOutlived
                      /\ Slice!WithinPlaced
  <1>1. Slice!Init => SliceProofs!LanesInv
    BY SliceHypotheses, SliceSame, SliceProofs!LanesInit
  <1>2. ASSUME SliceProofs!LanesInv,
               \/ Slice!CallerStep
               \/ \E l \in Slice!Lane : Slice!LaneStep(l)
               \/ \E w \in LaneWorkers : Slice!ServeStageA(w)
        PROVE  SliceProofs!LanesInv'
    <2>1. SliceProofs!Next
      BY <1>2, SliceHypotheses, SliceSame DEF SliceProofs!Next
    <2> QED
      BY <1>2, <2>1, SliceHypotheses, SliceProofs!LanesStep
  <1>3. SliceProofs!LanesInv /\ UNCHANGED Slice!vars => SliceProofs!LanesInv'
    <2>1. UNCHANGED Slice!vars <=> UNCHANGED SliceProofs!vars
      BY DEF Slice!vars, Slice!stageVars, Slice!input, Slice!laneVars,
         SliceProofs!vars, SliceProofs!stageVars, SliceProofs!input, SliceProofs!laneVars
    <2> QED
      BY <2>1, SliceHypotheses, SliceProofs!LanesStutter
  <1>4. SliceProofs!LanesInv => /\ Slice!InPlace /\ Slice!SerialOutcome /\ Slice!LanesOutlived
                       /\ Slice!WithinPlaced
    BY SliceHypotheses, SliceSame, SliceProofs!LanesImply
  <1> QED
    BY <1>1, <1>2, <1>3, <1>4

LEMMA GrowingHypotheses ==
    /\ GrowingProofs!StageAAssumption /\ GrowingProofs!MtFramesAssumption /\ GrowingProofs!ConsecutiveLanes
    /\ GrowingProofs!Lane = Slice!Lane
  <1>1. LaneWorkers # {} /\ IsFiniteSet(LaneWorkers)
    BY LanesAssumption
  <1>2. N \in Nat \ {0} /\ Window \in Nat \ {0}
    BY StageAAssumption
  <1>3. GrowingProofs!StageAAssumption
    BY <1>1, <1>2 DEF GrowingProofs!StageAAssumption, IsFiniteSet, GrowingProofs!IsFiniteSet
  <1>4. GrowingProofs!MtFramesAssumption /\ GrowingProofs!ConsecutiveLanes
    BY LanesAssumption DEF Growing!MtFramesAssumption, Growing!Lane, Growing!Frame, Growing!Seg,
       Slice!ConsecutiveLanes, Slice!Lane, Slice!Frame, Slice!Seg, GrowingProofs!MtFramesAssumption,
       GrowingProofs!ConsecutiveLanes, GrowingProofs!Lane, GrowingProofs!Frame, GrowingProofs!Seg
  <1> QED
    BY <1>3, <1>4 DEF GrowingProofs!Lane, Slice!Lane

(* MCFrameLanes' instance of MtFrames and that of the proofs are the same. *)
LEMMA GrowingSame ==
    /\ Growing!Init = GrowingProofs!Init
    /\ Growing!vars = GrowingProofs!vars
    /\ Growing!CallerStep = GrowingProofs!CallerStep
    /\ \A l : Growing!LaneStep(l) = GrowingProofs!LaneStep(l)
    /\ \A w : Growing!ServeStageA(w) = GrowingProofs!ServeStageA(w)
    /\ Growing!WithinPlaced = GrowingProofs!WithinPlaced
    /\ Slice!InPlace = GrowingProofs!InPlace
    /\ Slice!SerialOutcome = GrowingProofs!SerialOutcome
    /\ Slice!LanesOutlived = GrowingProofs!LanesOutlived
  BY DEF Growing!Seg, Growing!Staging, Growing!SlotValue, Growing!Stop, Growing!Ahead,
         Growing!Goto, Growing!CheckStop, Growing!Claim, Growing!Gate, Growing!Stage,
         Growing!Fill, Growing!Notify, Growing!WorkerStep, Growing!stageVars, Growing!Frame,
         Growing!Lane, Growing!Size, Growing!LaneSegs, Growing!First, Growing!Exec,
         Growing!laneVars, Growing!input, Growing!vars, Growing!NoOutcome,
         Growing!StageInit, Growing!Init, Growing!LaneGoto, Growing!Record,
         Growing!FrameStart, Growing!Remaining, Growing!Cur, Growing!AddPredecessor,
         Growing!BaseAborts, Growing!BaseKnown, Growing!TakeStaged, Growing!FindUnstaged,
         Growing!Sleep, Growing!ExecuteSegment, Growing!ExecuteFails, Growing!ExecutePanics,
         Growing!RecordPanic, Growing!NotifyPanic, Growing!LaneChecksum, Growing!FinishLane,
         Growing!LaneStep, Growing!LeaseLanes, Growing!ResolveStops, Growing!Failed,
         Growing!Written, Growing!Verified, Growing!Collected, Growing!Collect,
         Growing!Unwind, Growing!DropLanes, Growing!JoinLanes, Growing!Join,
         Growing!CallerStep, Growing!ServeStageA, Growing!Executed, Growing!InPlace,
         Growing!WithinPlaced, Growing!Calm, Growing!SerialOutcome, Growing!LanesOutlived,
         Slice!Seg, Slice!Staging, Slice!SlotValue, Slice!Stop, Slice!Ahead, Slice!Goto,
         Slice!CheckStop, Slice!Claim, Slice!Gate, Slice!Stage, Slice!Fill, Slice!Notify,
         Slice!WorkerStep, Slice!stageVars, Slice!Frame, Slice!Lane, Slice!Size,
         Slice!LaneSegs, Slice!First, Slice!Exec, Slice!laneVars, Slice!input, Slice!vars,
         Slice!NoOutcome, Slice!StageInit, Slice!Init, Slice!LaneGoto, Slice!Record,
         Slice!FrameStart, Slice!Remaining, Slice!Cur, Slice!AddPredecessor,
         Slice!BaseAborts, Slice!BaseKnown, Slice!TakeStaged, Slice!FindUnstaged,
         Slice!Sleep, Slice!ExecuteSegment, Slice!ExecuteFails, Slice!ExecutePanics,
         Slice!RecordPanic, Slice!NotifyPanic, Slice!LaneChecksum, Slice!FinishLane,
         Slice!LaneStep, Slice!LeaseLanes, Slice!ResolveStops, Slice!Failed, Slice!Written,
         Slice!Verified, Slice!Collected, Slice!Collect, Slice!Unwind, Slice!DropLanes,
         Slice!JoinLanes, Slice!Join, Slice!CallerStep, Slice!ServeStageA, Slice!Executed,
         Slice!InPlace, Slice!WithinPlaced, Slice!Calm, Slice!SerialOutcome,
         Slice!LanesOutlived, GrowingProofs!Seg, GrowingProofs!Staging,
         GrowingProofs!SlotValue, GrowingProofs!Stop, GrowingProofs!Ahead,
         GrowingProofs!Goto, GrowingProofs!CheckStop, GrowingProofs!Claim,
         GrowingProofs!Gate, GrowingProofs!Stage, GrowingProofs!Fill, GrowingProofs!Notify,
         GrowingProofs!WorkerStep, GrowingProofs!stageVars, GrowingProofs!Frame,
         GrowingProofs!Lane, GrowingProofs!Size, GrowingProofs!LaneSegs,
         GrowingProofs!First, GrowingProofs!Exec, GrowingProofs!laneVars,
         GrowingProofs!input, GrowingProofs!vars, GrowingProofs!NoOutcome,
         GrowingProofs!StageInit, GrowingProofs!Init, GrowingProofs!LaneGoto,
         GrowingProofs!Record, GrowingProofs!FrameStart, GrowingProofs!Remaining,
         GrowingProofs!Cur, GrowingProofs!AddPredecessor, GrowingProofs!BaseAborts,
         GrowingProofs!BaseKnown, GrowingProofs!TakeStaged, GrowingProofs!FindUnstaged,
         GrowingProofs!Sleep, GrowingProofs!ExecuteSegment, GrowingProofs!ExecuteFails,
         GrowingProofs!ExecutePanics, GrowingProofs!RecordPanic, GrowingProofs!NotifyPanic,
         GrowingProofs!LaneChecksum, GrowingProofs!FinishLane, GrowingProofs!LaneStep,
         GrowingProofs!LeaseLanes, GrowingProofs!ResolveStops, GrowingProofs!Failed,
         GrowingProofs!Written, GrowingProofs!Verified, GrowingProofs!Collected,
         GrowingProofs!Collect, GrowingProofs!Unwind, GrowingProofs!DropLanes,
         GrowingProofs!JoinLanes, GrowingProofs!Join, GrowingProofs!CallerStep,
         GrowingProofs!ServeStageA, GrowingProofs!Executed, GrowingProofs!InPlace,
         GrowingProofs!WithinPlaced, GrowingProofs!Calm, GrowingProofs!SerialOutcome,
         GrowingProofs!LanesOutlived

LEMMA GrowingKeeps ==
    /\ Growing!Init => GrowingProofs!LanesInv
    /\ /\ GrowingProofs!LanesInv
       /\ \/ Growing!CallerStep
          \/ \E l \in Slice!Lane : Growing!LaneStep(l)
          \/ \E w \in LaneWorkers : Growing!ServeStageA(w)
       => GrowingProofs!LanesInv'
    /\ GrowingProofs!LanesInv /\ UNCHANGED Growing!vars => GrowingProofs!LanesInv'
    /\ GrowingProofs!LanesInv => /\ Slice!InPlace /\ Slice!SerialOutcome /\ Slice!LanesOutlived
                      /\ Growing!WithinPlaced
  <1>1. Growing!Init => GrowingProofs!LanesInv
    BY GrowingHypotheses, GrowingSame, GrowingProofs!LanesInit
  <1>2. ASSUME GrowingProofs!LanesInv,
               \/ Growing!CallerStep
               \/ \E l \in Slice!Lane : Growing!LaneStep(l)
               \/ \E w \in LaneWorkers : Growing!ServeStageA(w)
        PROVE  GrowingProofs!LanesInv'
    <2>1. GrowingProofs!Next
      BY <1>2, GrowingHypotheses, GrowingSame DEF GrowingProofs!Next
    <2> QED
      BY <1>2, <2>1, GrowingHypotheses, GrowingProofs!LanesStep
  <1>3. GrowingProofs!LanesInv /\ UNCHANGED Growing!vars => GrowingProofs!LanesInv'
    <2>1. UNCHANGED Growing!vars <=> UNCHANGED GrowingProofs!vars
      BY DEF Growing!vars, Growing!stageVars, Growing!input, Growing!laneVars,
         GrowingProofs!vars, GrowingProofs!stageVars, GrowingProofs!input, GrowingProofs!laneVars
    <2> QED
      BY <2>1, GrowingHypotheses, GrowingProofs!LanesStutter
  <1>4. GrowingProofs!LanesInv => /\ Slice!InPlace /\ Slice!SerialOutcome /\ Slice!LanesOutlived
                       /\ Growing!WithinPlaced
    BY GrowingHypotheses, GrowingSame, GrowingProofs!LanesImply
  <1> QED
    BY <1>1, <1>2, <1>3, <1>4

FormsInv ==
    /\ form \in {"single", "slice", "growing"}
    /\ form = "slice" => SliceProofs!LanesInv
    /\ form = "growing" => GrowingProofs!LanesInv

LEMMA FormsKeep ==
    /\ FormsInit => FormsInv
    /\ FormsInv /\ [FormsNext]_allVars => FormsInv'
  <1>1. FormsInit => FormsInv
    BY SliceKeeps, GrowingKeeps DEF FormsInit, FormsInv
  <1>2. ASSUME FormsInv, FormsNext PROVE FormsInv'
    <2>1. form' = form
      BY <1>2 DEF FormsNext, Call, Single, ServeSingle, ServeLanes, ServeSlice, ServeGrowing
    <2>2. ASSUME form = "slice" PROVE SliceProofs!LanesInv'
      <3>1. \/ Slice!CallerStep
            \/ \E l \in Slice!Lane : Slice!LaneStep(l)
            \/ \E w \in LaneWorkers : Slice!ServeStageA(w)
        BY <1>2, <2>2 DEF FormsNext, Call, Single, ServeSingle, ServeLanes, ServeSlice, ServeGrowing
      <3>2. SliceProofs!LanesInv
        BY <1>2, <2>2 DEF FormsInv
      <3> QED
        BY <3>1, <3>2, SliceKeeps
    <2>3. ASSUME form = "growing" PROVE GrowingProofs!LanesInv'
      <3>1. \/ Growing!CallerStep
            \/ \E l \in Slice!Lane : Growing!LaneStep(l)
            \/ \E w \in LaneWorkers : Growing!ServeStageA(w)
        BY <1>2, <2>3 DEF FormsNext, Call, Single, ServeSingle, ServeLanes, ServeSlice, ServeGrowing
      <3>2. GrowingProofs!LanesInv
        BY <1>2, <2>3 DEF FormsInv
      <3> QED
        BY <3>1, <3>2, GrowingKeeps
    <2> QED
      BY <1>2, <2>1, <2>2, <2>3 DEF FormsInv
  <1>3. ASSUME FormsInv, UNCHANGED allVars PROVE FormsInv'
    <2>1. form' = form /\ UNCHANGED lanesVars
      BY <1>3 DEF allVars
    <2>2. UNCHANGED Slice!vars /\ UNCHANGED Growing!vars
      BY <2>1 DEF lanesVars, Slice!vars, Slice!stageVars, Slice!input, Slice!laneVars,
         Growing!vars, Growing!stageVars, Growing!input, Growing!laneVars
    <2> QED
      BY <1>3, <2>1, <2>2, SliceKeeps, GrowingKeeps DEF FormsInv
  <1> QED
    BY <1>1, <1>2, <1>3

THEOREM FormsCorrect == FormsSpec => []FormsInv
  <1>1. FormsInit => FormsInv
    BY FormsKeep
  <1>2. FormsInv /\ [FormsNext]_allVars => FormsInv'
    BY FormsKeep
  <1> QED
    BY <1>1, <1>2, PTL DEF FormsSpec

(* Every segment a lane executes lands where the serial executor puts it,  *)
(* however many lanes of consecutive frames there are and whatever fails   *)
(* (run_lane, Place::resolve).                                             *)
THEOREM LandsInPlaceSafe == FormsSpec => []LandsInPlace
  <1>1. FormsInv => LandsInPlace
    BY SliceKeeps, GrowingKeeps DEF FormsInv, LandsInPlace
  <1> QED
    BY <1>1, FormsCorrect, PTL

(* Without a panic the lanes return what the serial executor would: the    *)
(* failure of the first segment that fails, else the checksum mismatch of  *)
(* the first frame, else the lengths against the pledges; and however a    *)
(* decode ends, it returns only when every worker and every leased lane    *)
(* has left the job (decode_frames, LeaseOut).                             *)
THEOREM SerialLanesSafe == FormsSpec => []SerialLanes
  <1>1. FormsInv => SerialLanes
    BY SliceKeeps, GrowingKeeps DEF FormsInv, SerialLanes
  <1> QED
    BY <1>1, FormsCorrect, PTL

(* An output that grows is placed before it is written, and never written  *)
(* from a segment that failed staging on (resolve).                        *)
THEOREM GrownWithinPlacedSafe == FormsSpec => []GrownWithinPlaced
  <1>1. FormsInv => GrownWithinPlaced
    BY SliceKeeps, GrowingKeeps DEF FormsInv, GrownWithinPlaced
  <1> QED
    BY <1>1, FormsCorrect, PTL

(* group_consecutive hands out every frame once, in runs: what the frame   *)
(* lanes take of their packing (MtFramesAssumption, ConsecutiveLanes).     *)
THEOREM ConsecutivePacking ==
    ASSUME NEW n \in Nat, NEW k \in Nat, k > 0
    PROVE  /\ \A l \in 1 .. k : GroupConsecutive(n, k)[l] \subseteq 0 .. n - 1
           /\ \A f \in 0 .. n - 1 : \E l \in 1 .. k : f \in GroupConsecutive(n, k)[l]
           /\ \A j, l \in 1 .. k :
                  GroupConsecutive(n, k)[j] \intersect GroupConsecutive(n, k)[l] # {} => j = l
           /\ \A l \in 1 .. k : \A f, g \in GroupConsecutive(n, k)[l] : \A h \in 0 .. n - 1 :
                  f <= h /\ h <= g => h \in GroupConsecutive(n, k)[l]
  <1> DEFINE Start(l) == (l * n) \div k
             G == GroupConsecutive(n, k)
  <1>1. \A l \in 1 .. k : G[l] = {f \in 0 .. n - 1 : Start(l - 1) <= f /\ f < Start(l)}
    BY DEF GroupConsecutive
  <1>2. Start(0) = 0 /\ Start(k) = n
    <2>1. 0 * n = 0 /\ k * n \in Nat
      BY Z3
    <2>2. 0 \div k = 0
      BY <2>1, Z3
    <2> QED
      BY <2>1, <2>2, Division
  <1>3. \A l \in Nat : Start(l) \in Nat
    <2> SUFFICES ASSUME NEW l \in Nat PROVE Start(l) \in Nat
      OBVIOUS
    <2>1. l * n \in Nat
      BY Z3
    <2> QED
      BY <2>1, Division
  <1>4. \A j, l \in Nat : j <= l => Start(j) <= Start(l)
    <2> SUFFICES ASSUME NEW j \in Nat, NEW l \in Nat, j <= l PROVE Start(j) <= Start(l)
      OBVIOUS
    <2>1. j * n \in Nat /\ l * n \in Nat /\ j * n <= l * n
      BY Z3
    <2>2. k * Start(j) <= l * n
      <3>1. k * Start(j) <= j * n
        BY <2>1, Division
      <3>2. k * Start(j) \in Nat
        <4> HIDE DEF Start
        <4> QED
          BY <1>3, Z3
      <3> QED
        BY <2>1, <3>1, <3>2
    <2> QED
      BY <1>3, <2>1, <2>2, Division
  <1> HIDE DEF Start, G
  <1>5. ASSUME NEW f \in 0 .. n - 1 PROVE \E l \in 1 .. k : f \in G[l]
    <2> DEFINE T == {l \in 0 .. k : Start(l) <= f}
    <2>1. T \subseteq 0 .. k /\ 0 \in T
      BY <1>2
    <2>2. PICK m \in T : \A l \in T : l <= m
      <3> HIDE DEF T
      <3> QED
        BY <2>1, GreatestElement
    <2>3. m \in 0 .. k /\ Start(m) <= f /\ m # k /\ f < n
      BY <1>2, <2>2
    <2>4. m + 1 \in 1 .. k /\ (m + 1) - 1 = m /\ m + 1 \in 0 .. k /\ ~(m + 1 <= m)
      BY <2>3
    <2>5. m + 1 \notin T
      BY <2>2, <2>4
    <2>6. f < Start(m + 1)
      BY <1>3, <2>4, <2>5
    <2>7. f \in G[m + 1]
      BY <1>1, <2>3, <2>4, <2>6
    <2> QED
      BY <2>4, <2>7
  <1>6. ASSUME NEW j \in 1 .. k, NEW l \in 1 .. k, j < l, NEW f \in G[j] PROVE f \notin G[l]
    <2>1. j \in Nat /\ l - 1 \in Nat /\ j <= l - 1
      BY <1>6
    <2>2. f < Start(j) /\ Start(j) <= Start(l - 1) /\ f \in Nat /\ Start(j) \in Nat /\ Start(l - 1) \in Nat
      BY <1>1, <1>3, <1>4, <2>1
    <2> QED
      BY <1>1, <2>2
  <1>7. ASSUME NEW j \in 1 .. k, NEW l \in 1 .. k, NEW f \in G[j], f \in G[l] PROVE j = l
    <2>1. ~(j < l) /\ ~(l < j)
      BY <1>6, <1>7
    <2> QED
      BY <2>1
  <1>8. ASSUME NEW l \in 1 .. k, NEW f \in G[l], NEW g \in G[l], NEW h \in 0 .. n - 1, f <= h, h <= g
        PROVE  h \in G[l]
    <2>1. /\ f \in Nat /\ g \in Nat /\ h \in Nat /\ Start(l - 1) \in Nat /\ Start(l) \in Nat
          /\ Start(l - 1) <= f /\ g < Start(l)
      BY <1>1, <1>3
    <2> QED
      BY <1>1, <1>8, <2>1
  <1> QED
    BY <1>1, <1>5, <1>7, <1>8 DEF G
=============================================================================
