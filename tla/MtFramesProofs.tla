--------------------------- MODULE MtFramesProofs ---------------------------
(***************************************************************************)
(* Proofs about MtFrames, for every number of segments, frames, workers    *)
(* and lanes, every packing of consecutive frames, every size of a segment *)
(* and everything that can go wrong with the input.  LanesInv, the         *)
(* inductive invariant, says of each lane where it stands: what it has     *)
(* placed (Placed), what it still has to run (Running) and what its        *)
(* outcome tells (Told); of stage A, that a published size is a staged     *)
(* segment's (Staged) and that the backpressure counts what is written     *)
(* (Counted); and of the caller, what must have ended before it returns    *)
(* (Control) and that it returns the serial result (Settled).              *)
(***************************************************************************)
EXTENDS MtFrames, NaturalLemmas, FiniteSetTheorems, TLAPS

-----------------------------------------------------------------------------
(* The inductive invariant.  The types, but for how high executed counts.  *)
Types ==
    /\ staging \in [Seg -> Staging] /\ nextJob \in Nat /\ abort \in BOOLEAN /\ poison \in BOOLEAN
    /\ slots \in [Seg -> SlotValue] /\ published \in [Seg -> {"none", "size", "err"}]
    /\ wpc \in [Worker -> {"top", "claim", "gate", "stage", "fill", "notify", "left"}]
    /\ job \in [Worker -> Seg]
    /\ waiting \subseteq Lane
    /\ exec \in [Seg -> Exec] /\ csumOk \in [Frame -> BOOLEAN] /\ pledgeOk \in BOOLEAN
    /\ lpc \in [Lane -> {"unleased", "base", "take", "unstaged", "exec", "finish",
                         "poisoned", "recorded", "unwound", "left"}]
    /\ probe \in [Lane -> 0 .. N]
    /\ next \in [Lane -> 0 .. N]
    /\ end \in [Lane -> Nat]
    /\ wroteAt \in [Seg -> Nat \union {-1}]
    /\ outcome \in [Lane -> Outcome]
    /\ cpc \in {"resolve", "run", "drop", "joinLanes", "join", "done"}
    /\ result \in Result

(* executed counts the segments that a lane has written.                   *)
Counted == executed = Cardinality({s \in Seg : wroteAt[s] # -1})

(* What is published or left in a slot is what staging the segment does;   *)
(* a panic is on record before the sentinel it leaves.                     *)
Staged ==
    /\ \A s \in Seg :
           /\ published[s] = "size" => staging[s] = "ok"
           /\ published[s] = "err" => staging[s] = "err"
           /\ slots[s] = "ok" => staging[s] = "ok"
           /\ slots[s] = "err" => staging[s] = "err"
           /\ slots[s] = "sentinel" => poison
    /\ \A w \in Worker : wpc[w] = "fill" /\ staging[job[w]] = "panic" => poison
    /\ poison => ~Calm

(* A lane writes its segments in order, each behind the one before, from   *)
(* where the segments before its first one end.                            *)
Placed(l) ==
    /\ probe[l] <= First(l)
    /\ \A t \in Seg : t < probe[l] => published[t] = "size"
    /\ end[l] = Pos[IF next[l] = 0 THEN probe[l] ELSE next[l]]
    /\ next[l] # 0 => next[l] - 1 \in LaneSegs(l) /\ probe[l] = First(l)
    /\ \A s \in LaneSegs(l) :
           /\ s < next[l] => staging[s] = "ok" /\ exec[s] = "ok" /\ wroteAt[s] = Pos[s]
           /\ s >= next[l] => wroteAt[s] = -1

(* Where a lane is in run_lane.                                            *)
Running(l) ==
    /\ lpc[l] \in {"unleased", "base"} => next[l] = 0
    /\ lpc[l] \in {"take", "unstaged", "exec"} => probe[l] = First(l) /\ Remaining(l) # {}
    /\ lpc[l] = "exec" => staging[Cur(l)] = "ok"
    /\ lpc[l] = "finish" => probe[l] = First(l) /\ Remaining(l) = {}
    /\ lpc[l] \in {"poisoned", "recorded"} => poison
    /\ lpc[l] = "unwound" => ~Calm
    /\ outcome[l].kind # "none" => lpc[l] \in {"recorded", "left"}

(* What a lane's outcome says of the segments: it stopped at its first bad *)
(* one, or behind one of another lane that failed staging.                 *)
StoppedAt(l, s) == s \in LaneSegs(l) /\ \A t \in LaneSegs(l) : t < s => t < next[l]
FailedBefore(l) == \E t \in Seg : t < First(l) /\ staging[t] = "err"
Told(l) ==
    LET o == outcome[l]
    IN  /\ o.kind = "done" => probe[l] = First(l) /\ Remaining(l) = {} /\ o.at = LaneChecksum(l)
        /\ o.kind = "stage" => StoppedAt(l, o.at) /\ staging[o.at] = "err"
        /\ o.kind = "exec" => StoppedAt(l, o.at) /\ staging[o.at] = "ok" /\ exec[o.at] = "err"
        /\ o.kind = "sentinel" => poison
        /\ o.kind = "aborted" => abort \/ poison \/ FailedBefore(l)

(* The calling thread.                                                     *)
Control ==
    /\ cpc = "resolve" => \A l \in Lane : lpc[l] = "unleased"
    /\ cpc = "run" => \A l \in Lane : lpc[l] # "unleased"
    /\ abort => cpc \in {"joinLanes", "join", "done"}
    /\ Deferred => \A l \in Lane : lpc[l] = "unleased" \/ \A s \in Seg : published[s] # "none"
    /\ cpc \in {"join", "done"} => \A l \in Lane \ {0} : lpc[l] \in {"unleased", "left"}
    /\ cpc = "done" => \A w \in Worker : wpc[w] = "left"

(* The serial executor's outcome of the input: SerialOutcome's.            *)
Serial(r) ==
    LET Bad == {s \in Seg : staging[s] = "err" \/ exec[s] = "err"}
        Mismatched == {f \in Frame : ~csumOk[f]}
    IN
    \/ \E s \in Bad :
           /\ \A t \in Bad : s <= t
           /\ r = [kind |-> IF staging[s] = "err" THEN "stage" ELSE "exec", at |-> s]
    \/ /\ Bad = {}
       /\ \E f \in Mismatched :
              /\ \A g \in Mismatched : f <= g
              /\ r = [kind |-> "checksum", at |-> f]
    \/ /\ Bad = {} /\ Mismatched = {}
       /\ r = [kind |-> IF pledgeOk THEN "ok" ELSE "size", at |-> 0]

(* What the call returns is settled when it drops its guards.              *)
Settled ==
    /\ cpc \in {"drop", "joinLanes", "join", "done"} =>
           /\ Calm => Serial(result)
           /\ result.kind = "sentinel" => cpc # "done" /\ poison

LanesInv ==
    /\ Types /\ Counted /\ Staged
    /\ \A l \in Lane : Placed(l) /\ Running(l) /\ Told(l)
    /\ Control /\ Settled

(* Segments and lanes.                                                     *)
LeastOf(S) == CHOOSE s \in S : \A t \in S : s <= t

LEMMA LeastSeg ==
    ASSUME NEW S, S \subseteq Nat, S # {}
    PROVE  LeastOf(S) \in S /\ \A t \in S : LeastOf(S) <= t
  BY LeastElement DEF LeastOf

LEMMA Segments ==
    /\ N \in Nat \ {0} /\ Seg \subseteq Nat /\ 0 \in Seg
    /\ \A s : s \in Seg <=> s \in Nat /\ s < N
  BY StageAAssumption DEF Seg

(* A lane's first segment, and the one it is at.                           *)
LEMMA FirstIs ==
    ASSUME MtFramesAssumption, NEW l \in Lane
    PROVE  /\ First(l) \in Seg
           /\ LaneSegs(l) = {} => First(l) = 0
           /\ LaneSegs(l) # {} => First(l) \in LaneSegs(l)
           /\ \A t \in LaneSegs(l) : First(l) <= t
  <1>1. LaneSegs(l) \subseteq Seg /\ LaneSegs(l) \subseteq Nat
    BY Segments DEF LaneSegs
  <1>2. CASE LaneSegs(l) = {}
    BY <1>2, Segments DEF First
  <1>3. CASE LaneSegs(l) # {}
    <2>1. First(l) = LeastOf(LaneSegs(l))
      BY <1>3 DEF First, LeastOf
    <2> QED
      BY <1>1, <1>3, <2>1, LeastSeg
  <1> QED
    BY <1>2, <1>3

LEMMA CurIs ==
    ASSUME NEW l \in Lane, Remaining(l) # {}
    PROVE  /\ Cur(l) \in LaneSegs(l) /\ Cur(l) \in Seg /\ next[l] <= Cur(l)
           /\ \A t \in Remaining(l) : Cur(l) <= t
  <1>1. Remaining(l) \subseteq LaneSegs(l) /\ LaneSegs(l) \subseteq Seg /\ Remaining(l) \subseteq Nat
    BY Segments DEF LaneSegs, Remaining
  <1>2. Cur(l) = LeastOf(Remaining(l))
    BY DEF Cur, LeastOf
  <1>3. Cur(l) \in Remaining(l) /\ \A t \in Remaining(l) : Cur(l) <= t
    BY <1>1, <1>2, LeastSeg
  <1> QED
    BY <1>1, <1>3 DEF Remaining

(* Every segment belongs to one lane.                                      *)
LEMMA OneLane ==
    ASSUME MtFramesAssumption, NEW s \in Seg
    PROVE  /\ \E l \in Lane : s \in LaneSegs(l)
           /\ \A k, l \in Lane : s \in LaneSegs(k) /\ s \in LaneSegs(l) => k = l
  <1>1. FrameOf[s] \in Frame
    BY DEF MtFramesAssumption
  <1>2. \E l \in Lane : FrameOf[s] \in LaneFrames[l]
    BY <1>1 DEF MtFramesAssumption
  <1>3. \A k, l \in Lane : FrameOf[s] \in LaneFrames[k] /\ FrameOf[s] \in LaneFrames[l] => k = l
    BY DEF MtFramesAssumption
  <1> QED
    BY <1>2, <1>3 DEF LaneSegs

(* A lane of consecutive frames misses no segment between two of its own.  *)
LEMMA Between ==
    ASSUME MtFramesAssumption, ConsecutiveLanes, NEW l \in Lane,
           NEW s \in LaneSegs(l), NEW u \in LaneSegs(l), NEW t \in Seg, s <= t, t <= u
    PROVE  t \in LaneSegs(l)
  <1>1. s \in Seg /\ u \in Seg /\ FrameOf[s] \in LaneFrames[l] /\ FrameOf[u] \in LaneFrames[l]
    BY DEF LaneSegs
  <1>2. FrameOf[t] \in Frame /\ FrameOf[s] <= FrameOf[t] /\ FrameOf[t] <= FrameOf[u]
    BY <1>1 DEF MtFramesAssumption
  <1> QED
    BY <1>1, <1>2 DEF ConsecutiveLanes, LaneSegs

(* The output grows from segment to segment.                               *)
LEMMA PosAscends ==
    ASSUME MtFramesAssumption
    PROVE  /\ \A s \in 0 .. N : Pos[s] \in Nat
           /\ \A s, t \in 0 .. N : s <= t => Pos[s] <= Pos[t]
  <1>1. \A s \in 0 .. N : Pos[s] \in Nat
    BY DEF MtFramesAssumption
  <1>2. ASSUME NEW s \in 0 .. N PROVE \A t \in 0 .. N : s <= t => Pos[s] <= Pos[t]
    <2> DEFINE S == {n \in Nat : s + n <= N => Pos[s] <= Pos[s + n]}
    <2>1. 0 \in S
      BY <1>1
    <2>2. ASSUME NEW n \in Nat, n \in S PROVE n + 1 \in S
      <3> SUFFICES ASSUME s + (n + 1) <= N PROVE Pos[s] <= Pos[s + (n + 1)]
        OBVIOUS
      <3>1. s + n \in Seg /\ s + n <= N /\ s + (n + 1) = (s + n) + 1 /\ s + (n + 1) \in 0 .. N
        BY Segments, <2>2
      <3>2. Pos[s] <= Pos[s + n]
        BY <2>2, <3>1
      <3>3. Pos[s + n] <= Pos[(s + n) + 1]
        BY <3>1 DEF MtFramesAssumption
      <3>4. s + n \in 0 .. N /\ Pos[s] \in Nat /\ Pos[s + n] \in Nat /\ Pos[(s + n) + 1] \in Nat
        BY <1>1, <3>1, Segments
      <3> QED
        BY <3>1, <3>2, <3>3, <3>4
    <2>3. Nat \subseteq S
      <3> HIDE DEF S
      <3> QED
        BY <2>1, <2>2, SetInduction
    <2>4. ASSUME NEW t \in 0 .. N, s <= t PROVE Pos[s] <= Pos[t]
      <3>1. t - s \in Nat /\ s + (t - s) = t /\ t <= N
        BY <2>4
      <3> QED
        BY <2>3, <3>1
    <2> QED
      BY <2>4
  <1> QED
    BY <1>1, <1>2

(* The first segments of the frames, and the end of the last.              *)
LEMMA StartIs ==
    ASSUME MtFramesAssumption
    PROVE  /\ \A f \in Frame : FrameStart(f) \in Seg
           /\ FrameStart(Frames) = N
  <1> DEFINE Starts(f, s) == /\ s < N => FrameOf[s] >= f
                             /\ \A t \in Seg : t < s <=> FrameOf[t] < f
  <1>1. ASSUME NEW f \in Frame PROVE FrameStart(f) \in Seg
    <2> DEFINE T == {s \in Seg : FrameOf[s] >= f}
    <2>1. T # {} /\ T \subseteq Nat
      <3>1. PICK s \in Seg : FrameOf[s] = f
        BY DEF MtFramesAssumption
      <3>2. f \in Nat
        BY DEF Frame, MtFramesAssumption
      <3>3. s \in T
        BY <3>1, <3>2
      <3> QED
        BY <3>3, Segments
    <2>2. PICK x \in T : \A y \in T : x <= y
      BY <2>1, LeastElement
    <2>3. x \in Seg /\ x \in 0 .. N /\ FrameOf[x] >= f
      BY <2>2, Segments
    <2>4. ASSUME NEW t \in Seg PROVE t < x <=> FrameOf[t] < f
      <3>1. FrameOf[t] \in Frame /\ FrameOf[x] \in Frame /\ t \in Nat /\ x \in Nat
        BY <2>3, Segments DEF MtFramesAssumption
      <3>2. t >= x => FrameOf[x] <= FrameOf[t]
        BY <2>3, Segments DEF MtFramesAssumption
      <3>3. t < x => t \notin T
        BY <2>2, <3>1
      <3> QED
        BY <2>3, <3>1, <3>2, <3>3 DEF Frame
    <2>5. Starts(f, x)
      BY <2>3, <2>4
    <2>6. FrameStart(f) \in 0 .. N /\ Starts(f, FrameStart(f))
      BY <2>3, <2>5 DEF FrameStart
    <2>7. FrameStart(f) # N
      BY <2>3, <2>6, Segments DEF MtFramesAssumption, Frame
    <2> QED
      BY <2>6, <2>7, Segments
  <1>2. FrameStart(Frames) = N
    <2>1. \A t \in Seg : t < N /\ FrameOf[t] < Frames
      BY Segments DEF MtFramesAssumption, Frame
    <2>2. Starts(Frames, N) /\ N \in 0 .. N
      BY <2>1, Segments
    <2>3. FrameStart(Frames) \in 0 .. N /\ Starts(Frames, FrameStart(Frames))
      BY <2>2 DEF FrameStart
    <2>4. ASSUME FrameStart(Frames) < N PROVE FALSE
      BY <2>1, <2>3, <2>4, Segments
    <2> QED
      BY <2>3, <2>4, Segments
  <1> QED
    BY <1>1, <1>2

(* A step that leaves a lane alone keeps what is known of it.              *)
LEMMA LaneKept ==
    ASSUME NEW k \in Lane, Placed(k), Running(k), Told(k),
           staging' = staging, exec' = exec, csumOk' = csumOk,
           \A t \in Seg : published[t] = "size" => published'[t] = "size",
           poison => poison', abort => abort',
           lpc'[k] = lpc[k], probe'[k] = probe[k], next'[k] = next[k], end'[k] = end[k],
           outcome'[k] = outcome[k],
           \A s \in LaneSegs(k) : wroteAt'[s] = wroteAt[s]
    PROVE  Placed(k)' /\ Running(k)' /\ Told(k)'
  <1>1. Placed(k)'
    BY DEF Placed
  <1>2. Remaining(k)' = Remaining(k)
    BY DEF Remaining
  <1>3. Cur(k)' = Cur(k)
    <2>1. Cur(k)' = LeastOf(Remaining(k)') /\ Cur(k) = LeastOf(Remaining(k))
      BY DEF Cur, LeastOf
    <2> QED
      BY <1>2, <2>1
  <1>4. Calm' = Calm
    BY DEF Calm
  <1>5. Running(k)'
    BY <1>2, <1>3, <1>4 DEF Running
  <1>6. LaneChecksum(k)' = LaneChecksum(k)
    BY DEF LaneChecksum
  <1>7. FailedBefore(k)' = FailedBefore(k)
    BY DEF FailedBefore
  <1>8. \A s : StoppedAt(k, s)' = StoppedAt(k, s)
    BY DEF StoppedAt
  <1>9. Told(k)'
    <2> DEFINE o == outcome[k]
    <2>1. (outcome[k])' = o
      OBVIOUS
    <2>2. o.kind = "done" => probe'[k] = First(k) /\ Remaining(k)' = {} /\ o.at = LaneChecksum(k)'
      BY <1>2, <1>6 DEF Told
    <2>3. o.kind = "stage" => StoppedAt(k, o.at)' /\ staging'[o.at] = "err"
      BY <1>8 DEF Told
    <2>4. o.kind = "exec" => StoppedAt(k, o.at)' /\ staging'[o.at] = "ok" /\ exec'[o.at] = "err"
      BY <1>8 DEF Told
    <2>5. o.kind = "sentinel" => poison'
      BY DEF Told
    <2>6. o.kind = "aborted" => abort' \/ poison' \/ FailedBefore(k)'
      BY <1>7 DEF Told
    <2> QED
      BY <2>1, <2>2, <2>3, <2>4, <2>5, <2>6 DEF Told
  <1> QED
    BY <1>1, <1>5, <1>9

(* A step of one lane leaves the others alone, and the input and the stage *)
(* with it.                                                                *)
LEMMA OtherLanes ==
    ASSUME Types, NEW l \in Lane, Running(l), LaneStep(l)
    PROVE  /\ staging' = staging /\ exec' = exec /\ csumOk' = csumOk /\ pledgeOk' = pledgeOk
           /\ published' = published /\ abort' = abort /\ (poison => poison')
           /\ wpc' = wpc /\ job' = job /\ cpc' = cpc /\ result' = result /\ nextJob' = nextJob
           /\ \A k \in Lane \ {l} :
                  /\ lpc'[k] = lpc[k] /\ probe'[k] = probe[k] /\ next'[k] = next[k]
                  /\ end'[k] = end[k] /\ outcome'[k] = outcome[k]
  <1> DEFINE Rest == /\ staging' = staging /\ exec' = exec /\ csumOk' = csumOk /\ pledgeOk' = pledgeOk
                     /\ published' = published /\ abort' = abort /\ (poison => poison')
                     /\ wpc' = wpc /\ job' = job /\ cpc' = cpc /\ result' = result /\ nextJob' = nextJob
             Others == \A k \in Lane \ {l} :
                  /\ lpc'[k] = lpc[k] /\ probe'[k] = probe[k] /\ next'[k] = next[k]
                  /\ end'[k] = end[k] /\ outcome'[k] = outcome[k]
  <1> USE DEF Types, stageVars, input, laneVars, LaneGoto, Record
  <1>1. CASE AddPredecessor(l)
    BY <1>1 DEF AddPredecessor
  <1>2. CASE BaseAborts(l)
    BY <1>2 DEF BaseAborts
  <1>3. CASE BaseKnown(l)
    BY <1>3 DEF BaseKnown
  <1>4. CASE TakeStaged(l)
    <2>1. slots[Cur(l)] \in {"ok", "err", "sentinel"}
      BY <1>4, CurIs DEF TakeStaged, Running, SlotValue
    <2>2. \/ LaneGoto(l, "exec") /\ UNCHANGED outcome
          \/ Record(l, "stage", Cur(l))
          \/ Record(l, "sentinel", Cur(l))
      BY <1>4, <2>1 DEF TakeStaged
    <2>3. Rest /\ UNCHANGED <<probe, next, end>>
      BY <1>4 DEF TakeStaged
    <2> QED
      BY <2>2, <2>3
  <1>5. CASE FindUnstaged(l)
    BY <1>5 DEF FindUnstaged
  <1>6. CASE Sleep(l)
    BY <1>6 DEF Sleep
  <1>7. CASE ExecuteSegment(l)
    BY <1>7 DEF ExecuteSegment
  <1>8. CASE ExecuteFails(l)
    BY <1>8 DEF ExecuteFails
  <1>9. CASE ExecutePanics(l)
    BY <1>9 DEF ExecutePanics
  <1>10. CASE RecordPanic(l)
    BY <1>10 DEF RecordPanic
  <1>11. CASE NotifyPanic(l)
    BY <1>11 DEF NotifyPanic
  <1>12. CASE FinishLane(l)
    BY <1>12 DEF FinishLane
  <1> QED
    BY <1>1, <1>2, <1>3, <1>4, <1>5, <1>6, <1>7, <1>8, <1>9, <1>10, <1>11, <1>12 DEF LaneStep

(* What a worker's step leaves alone; that what it publishes and fills is  *)
(* what staging does.                                                      *)
LEMMA WorkerMoves ==
    ASSUME Types, Staged, NEW w \in Worker, WorkerStep(w), exec' = exec
    PROVE  /\ staging' = staging /\ abort' = abort /\ (poison => poison') /\ executed' = executed
           /\ \A t \in Seg : published[t] # "none" => published'[t] # "none"
           /\ \A t \in Seg : published[t] = "size" => published'[t] = "size"
           /\ wpc[w] # "left"
           /\ Staged'
  <1> DEFINE s == job[w]
  <1>0. s \in Seg /\ staging[s] \in Staging
    BY DEF Types
  <1>1. staging' = staging /\ abort' = abort /\ (poison => poison') /\ executed' = executed /\ wpc[w] # "left"
    <2>1. staging' = staging /\ abort' = abort /\ executed' = executed /\ wpc[w] # "left"
      BY DEF WorkerStep, CheckStop, Claim, Gate, Stage, Fill, Notify
    <2>2. poison => poison'
      <3>1. CASE Stage(w)
        BY <3>1, Zenon DEF Stage
      <3>2. CASE poison' = poison
        BY <3>2
      <3> QED
        BY <3>1, <3>2 DEF WorkerStep, CheckStop, Claim, Gate, Fill, Notify
    <2> QED
      BY <2>1, <2>2
  <1>2. Calm' = Calm
    BY <1>1 DEF Calm
  <1>3. \A t \in Seg : published'[t] = published[t] \/ (staging[t] # "panic" /\
                        published'[t] = IF staging[t] = "ok" THEN "size" ELSE "err")
    <2>1. CASE Stage(w)
      BY <1>0, <2>1 DEF Stage, Types
    <2> QED
      BY <2>1 DEF WorkerStep, CheckStop, Claim, Gate, Fill, Notify
  <1>4. \A t \in Seg : slots'[t] = slots[t] \/
                        (t = s /\ wpc[w] = "fill" /\
                         slots'[t] = IF staging[t] = "panic" THEN "sentinel" ELSE staging[t])
    <2>1. CASE Fill(w)
      BY <1>0, <2>1 DEF Fill, Types
    <2> QED
      BY <2>1 DEF WorkerStep, CheckStop, Claim, Gate, Stage, Notify
  <1>5. poison' => ~Calm
    <2>1. CASE Stage(w)
      BY <1>0, <2>1 DEF Stage, Staged, Calm
    <2> QED
      BY <2>1 DEF WorkerStep, CheckStop, Claim, Gate, Fill, Notify, Staged
  <1>6. \A v \in Worker : wpc'[v] = "fill" /\ staging[job'[v]] = "panic" => poison'
    <2>1. CASE CheckStop(w)
      BY <2>1 DEF CheckStop, Goto, Staged, Types
    <2>2. CASE Claim(w)
      BY <2>2 DEF Claim, Goto, Staged, Types
    <2>3. CASE Gate(w)
      BY <2>3 DEF Gate, Goto, Staged, Types
    <2>4. CASE Stage(w)
      BY <2>4 DEF Stage, Goto, Staged, Types
    <2>5. CASE Fill(w)
      BY <2>5 DEF Fill, Goto, Staged, Types
    <2>6. CASE Notify(w)
      BY <2>6 DEF Notify, Goto, Staged, Types
    <2> QED
      BY <2>1, <2>2, <2>3, <2>4, <2>5, <2>6 DEF WorkerStep
  <1>7. \A t \in Seg : published[t] \in {"none", "size", "err"}
    BY DEF Types
  <1>8. \A t \in Seg : /\ published[t] # "none" => published'[t] # "none"
                       /\ published[t] = "size" => published'[t] = "size"
    BY <1>3 DEF Staged
  <1>9. \A t \in Seg :
           /\ published'[t] = "size" => staging[t] = "ok"
           /\ published'[t] = "err" => staging[t] = "err"
    <2> SUFFICES ASSUME NEW t \in Seg
                 PROVE  /\ published'[t] = "size" => staging[t] = "ok"
                        /\ published'[t] = "err" => staging[t] = "err"
      OBVIOUS
    <2>1. staging[t] \in Staging
      BY DEF Types
    <2> QED
      BY <1>3, <2>1 DEF Staged, Staging
  <1>10. \A t \in Seg :
           /\ slots'[t] = "ok" => staging[t] = "ok"
           /\ slots'[t] = "err" => staging[t] = "err"
           /\ slots'[t] = "sentinel" => poison'
    <2> SUFFICES ASSUME NEW t \in Seg
                 PROVE  /\ slots'[t] = "ok" => staging[t] = "ok"
                        /\ slots'[t] = "err" => staging[t] = "err"
                        /\ slots'[t] = "sentinel" => poison'
      OBVIOUS
    <2>1. staging[t] \in Staging
      BY DEF Types
    <2>2. CASE slots'[t] = slots[t]
      BY <2>2, <1>1 DEF Staged
    <2>3. CASE t = s /\ wpc[w] = "fill" /\ slots'[t] = IF staging[t] = "panic" THEN "sentinel" ELSE staging[t]
      <3>1. staging[t] = "panic" => poison'
        BY <1>1, <2>3 DEF Staged
      <3> QED
        BY <2>1, <2>3, <3>1 DEF Staging
    <2> QED
      BY <1>4, <2>2, <2>3
  <1> QED
    BY <1>1, <1>2, <1>5, <1>6, <1>8, <1>9, <1>10 DEF Staged

-----------------------------------------------------------------------------
(* The steps of a lane.                                                   *)

(* What stays as it is while a lane neither moves on nor writes.           *)
LEMMA Standing ==
    ASSUME NEW l \in Lane, Placed(l),
           staging' = staging, exec' = exec, csumOk' = csumOk, published' = published,
           wroteAt' = wroteAt, probe'[l] = probe[l], next'[l] = next[l], end'[l] = end[l]
    PROVE  /\ Placed(l)' /\ Remaining(l)' = Remaining(l) /\ Cur(l)' = Cur(l) /\ Calm' = Calm
           /\ LaneChecksum(l)' = LaneChecksum(l) /\ FailedBefore(l)' = FailedBefore(l)
           /\ \A s : StoppedAt(l, s)' = StoppedAt(l, s)
  <1>1. Placed(l)'
    BY DEF Placed
  <1>2. Remaining(l)' = Remaining(l)
    BY DEF Remaining
  <1>3. Cur(l)' = Cur(l)
    <2>1. Cur(l)' = LeastOf(Remaining(l)') /\ Cur(l) = LeastOf(Remaining(l))
      BY DEF Cur, LeastOf
    <2> QED
      BY <1>2, <2>1
  <1>4. Calm' = Calm
    BY DEF Calm
  <1>5. LaneChecksum(l)' = LaneChecksum(l)
    BY DEF LaneChecksum
  <1>6. FailedBefore(l)' = FailedBefore(l)
    BY DEF FailedBefore
  <1>7. \A s : StoppedAt(l, s)' = StoppedAt(l, s)
    BY DEF StoppedAt
  <1> QED
    BY <1>1, <1>2, <1>3, <1>4, <1>5, <1>6, <1>7

(* A lane that has not recorded tells nothing yet.                         *)
LEMMA Silent ==
    ASSUME NEW l \in Lane, outcome'[l] = outcome[l], Running(l), lpc[l] \notin {"recorded", "left"}
    PROVE  outcome'[l].kind = "none" /\ Told(l)'
  <1>1. outcome'[l].kind = "none"
    BY DEF Running
  <1> QED
    BY <1>1 DEF Told

(* Where a lane is when it executes: its segment goes where the one before *)
(* it ended.                                                               *)
LEMMA Edge ==
    ASSUME MtFramesAssumption, ConsecutiveLanes, NEW l \in Lane, Types, Placed(l),
           probe[l] = First(l), Remaining(l) # {}
    PROVE  /\ Cur(l) \in LaneSegs(l) /\ Cur(l) \in Seg /\ end[l] = Pos[Cur(l)]
           /\ next[l] <= Cur(l)
           /\ \A t \in LaneSegs(l) : t < Cur(l) => t < next[l]
  <1> DEFINE c == Cur(l)
             n == next[l]
  <1>1. c \in LaneSegs(l) /\ c \in Seg /\ n <= c /\ \A t \in Remaining(l) : c <= t
    BY CurIs
  <1>2. n \in Nat /\ c \in Nat /\ LaneSegs(l) \subseteq Nat /\ LaneSegs(l) \subseteq Seg
    BY <1>1, Segments DEF Types, LaneSegs
  <1>3. \A t \in LaneSegs(l) : t < c => t < n
    BY <1>1, <1>2 DEF Remaining
  <1>4. CASE n = 0
    <2>1. First(l) \in LaneSegs(l) /\ First(l) <= c
      BY <1>1, FirstIs
    <2>2. First(l) = c
      BY <1>2, <1>3, <1>4, <2>1
    <2> QED
      BY <1>1, <1>3, <1>4, <2>2 DEF Placed
  <1>5. CASE n # 0
    <2>1. n - 1 \in LaneSegs(l) /\ n \in Seg /\ n - 1 <= n
      BY <1>1, <1>2, <1>5, Segments DEF Placed
    <2>2. n \in LaneSegs(l)
      BY <1>1, <2>1, Between
    <2>3. n = c
      BY <1>1, <1>2, <1>3, <2>2
    <2> QED
      BY <1>1, <1>3, <1>5, <2>3 DEF Placed
  <1> QED
    BY <1>4, <1>5

-----------------------------------------------------------------------------
(* The steps of a lane, one by one.                                        *)
LEMMA AddKeeps ==
    ASSUME MtFramesAssumption, NEW l \in Lane, Types, Placed(l), Running(l), AddPredecessor(l)
    PROVE  Placed(l)' /\ Running(l)' /\ Told(l)' /\ wroteAt' = wroteAt
  <1> DEFINE p == probe[l]
  <1>0. /\ lpc[l] = "base" /\ p < First(l) /\ published[p] = "size" /\ next[l] = 0
        /\ p \in Nat /\ First(l) \in Seg /\ end[l] = Pos[p] /\ end[l] \in Nat
    BY FirstIs DEF AddPredecessor, Running, Placed, Types
  <1>1. /\ staging' = staging /\ published' = published /\ exec' = exec /\ lpc' = lpc
        /\ next' = next /\ wroteAt' = wroteAt /\ outcome' = outcome
        /\ end'[l] = end[l] + Size(p) /\ probe'[l] = p + 1
    BY DEF AddPredecessor, stageVars, input, Types
  <1>2. First(l) \in Nat /\ First(l) < N /\ p \in Seg /\ p + 1 <= First(l) /\ p + 1 \in 0 .. N /\ p \in 0 .. N
    BY <1>0, Segments
  <1>3. Pos[p] \in Nat /\ Pos[p + 1] \in Nat
    BY <1>2, PosAscends
  <1>4. end'[l] = Pos[p + 1]
    BY <1>0, <1>1, <1>3 DEF Size
  <1>5. \A t \in Seg : t < p + 1 => published[t] = "size"
    BY <1>0, <1>2, Segments DEF Placed
  <1>6. Placed(l)'
    BY <1>0, <1>1, <1>2, <1>4, <1>5 DEF Placed
  <1>7. Running(l)' /\ Told(l)'
    <2>1. Told(l)' /\ outcome'[l].kind = "none"
      BY <1>0, <1>1, Silent
    <2> QED
      BY <1>0, <1>1, <2>1 DEF Running
  <1> QED
    BY <1>1, <1>6, <1>7

LEMMA BaseKeeps ==
    ASSUME MtFramesAssumption, NEW l \in Lane, Types, Staged, Placed(l), Running(l),
           BaseAborts(l) \/ BaseKnown(l)
    PROVE  Placed(l)' /\ Running(l)' /\ Told(l)' /\ wroteAt' = wroteAt
  <1>0. /\ staging' = staging /\ published' = published /\ exec' = exec /\ csumOk' = csumOk
        /\ probe' = probe /\ next' = next /\ end' = end /\ wroteAt' = wroteAt
        /\ poison' = poison /\ abort' = abort
        /\ lpc[l] = "base" /\ next[l] = 0
    BY DEF BaseAborts, BaseKnown, stageVars, input, Running
  <1>1. /\ Placed(l)' /\ Remaining(l)' = Remaining(l) /\ FailedBefore(l)' = FailedBefore(l)
    BY <1>0, Standing
  <1>2. CASE BaseAborts(l)
    <2>1. lpc'[l] = "left" /\ outcome'[l] = [kind |-> "aborted", at |-> 0]
      BY <1>2 DEF BaseAborts, Record, LaneGoto, Types
    <2>2. probe[l] \in Seg /\ probe[l] < First(l)
      BY <1>2, FirstIs, Segments DEF BaseAborts, Types
    <2>3. abort \/ poison \/ FailedBefore(l)
      BY <1>2, <2>2 DEF BaseAborts, Stop, Staged, FailedBefore
    <2> QED
      BY <1>0, <1>1, <2>1, <2>3 DEF Running, Told
  <1>3. CASE BaseKnown(l)
    <2>1. /\ lpc'[l] = IF LaneSegs(l) = {} THEN "finish" ELSE "take"
          /\ outcome'[l] = outcome[l] /\ probe[l] = First(l)
      BY <1>3 DEF BaseKnown, LaneGoto, Types
    <2>2. Remaining(l) = LaneSegs(l)
      BY <1>0, Segments DEF Remaining, LaneSegs
    <2>3. Told(l)' /\ outcome'[l].kind = "none"
      BY <1>0, <2>1, Silent
    <2> QED
      BY <1>0, <1>1, <2>1, <2>2, <2>3 DEF Running
  <1> QED
    BY <1>0, <1>2, <1>3

LEMMA TakeKeeps ==
    ASSUME MtFramesAssumption, ConsecutiveLanes, NEW l \in Lane, Types, Staged, Placed(l), Running(l),
           TakeStaged(l) \/ FindUnstaged(l) \/ Sleep(l)
    PROVE  Placed(l)' /\ Running(l)' /\ Told(l)' /\ wroteAt' = wroteAt
  <1> DEFINE c == Cur(l)
  <1>0. /\ staging' = staging /\ published' = published /\ exec' = exec /\ csumOk' = csumOk
        /\ probe' = probe /\ next' = next /\ end' = end /\ wroteAt' = wroteAt
        /\ poison' = poison /\ abort' = abort
        /\ lpc[l] \in {"take", "unstaged"}
    BY DEF TakeStaged, FindUnstaged, Sleep, stageVars, input
  <1>1. /\ Placed(l)' /\ Remaining(l)' = Remaining(l) /\ Cur(l)' = c /\ FailedBefore(l)' = FailedBefore(l)
        /\ \A s : StoppedAt(l, s)' = StoppedAt(l, s)
    BY <1>0, Standing
  <1>2. probe[l] = First(l) /\ Remaining(l) # {}
    BY <1>0 DEF Running
  <1>3. c \in Seg /\ StoppedAt(l, c)
    BY <1>2, Edge DEF StoppedAt
  <1>4. CASE TakeStaged(l)
    <2>1. slots[c] \in {"ok", "err", "sentinel"}
      BY <1>3, <1>4 DEF TakeStaged, Types, SlotValue
    <2>2. CASE slots[c] = "ok"
      <3>1. lpc'[l] = "exec" /\ outcome'[l] = outcome[l] /\ staging[c] = "ok"
        BY <1>3, <1>4, <2>2 DEF TakeStaged, LaneGoto, Types, Staged
      <3>2. Told(l)' /\ outcome'[l].kind = "none"
        BY <1>0, <3>1, Silent
      <3> QED
        BY <1>0, <1>1, <1>2, <3>1, <3>2 DEF Running
    <2>3. CASE slots[c] = "err"
      <3>1. lpc'[l] = "left" /\ outcome'[l] = [kind |-> "stage", at |-> c] /\ staging[c] = "err"
        BY <1>3, <1>4, <2>3 DEF TakeStaged, Record, LaneGoto, Types, Staged
      <3> QED
        BY <1>0, <1>1, <1>3, <3>1 DEF Running, Told
    <2>4. CASE slots[c] = "sentinel"
      <3>1. lpc'[l] = "left" /\ outcome'[l] = [kind |-> "sentinel", at |-> c] /\ poison
        BY <1>3, <1>4, <2>4 DEF TakeStaged, Record, LaneGoto, Types, Staged
      <3> QED
        BY <1>0, <1>1, <1>3, <3>1 DEF Running, Told
    <2> QED
      BY <1>0, <2>1, <2>2, <2>3, <2>4
  <1>5. CASE FindUnstaged(l)
    <2>1. CASE Stop
      <3>1. lpc'[l] = "left" /\ outcome'[l] = [kind |-> "aborted", at |-> 0]
        BY <1>5, <2>1 DEF FindUnstaged, Record, LaneGoto, Types
      <3> QED
        BY <1>0, <1>1, <2>1, <3>1 DEF Running, Told, Stop
    <2>2. CASE ~Stop
      <3>1. lpc'[l] = "unstaged" /\ outcome'[l] = outcome[l]
        BY <1>5, <2>2 DEF FindUnstaged, LaneGoto, Types
      <3>2. Told(l)' /\ outcome'[l].kind = "none"
        BY <1>0, <3>1, Silent
      <3> QED
        BY <1>0, <1>1, <1>2, <3>1, <3>2 DEF Running
    <2> QED
      BY <1>0, <2>1, <2>2
  <1>6. CASE Sleep(l)
    <2>1. lpc'[l] = "take" /\ outcome'[l] = outcome[l]
      BY <1>6 DEF Sleep, LaneGoto, Types
    <2>2. Told(l)' /\ outcome'[l].kind = "none"
      BY <1>0, <2>1, Silent
    <2> QED
      BY <1>0, <1>1, <1>2, <2>1, <2>2 DEF Running
  <1> QED
    BY <1>4, <1>5, <1>6

LEMMA ExecuteKeeps ==
    ASSUME MtFramesAssumption, ConsecutiveLanes, NEW l \in Lane, Types, Placed(l), Running(l),
           ExecuteSegment(l)
    PROVE  /\ Placed(l)' /\ Running(l)' /\ Told(l)'
           /\ Cur(l) \in LaneSegs(l) /\ Cur(l) \in Seg /\ wroteAt[Cur(l)] = -1
           /\ wroteAt' = [wroteAt EXCEPT ![Cur(l)] = end[l]] /\ end[l] \in Nat
           /\ executed' = executed + 1
  <1> DEFINE c == Cur(l)
             n == next[l]
  <1>0. /\ lpc[l] = "exec" /\ exec[c] = "ok" /\ staging[c] = "ok"
        /\ probe[l] = First(l) /\ Remaining(l) # {}
    BY DEF ExecuteSegment, Running
  <1>1. /\ c \in LaneSegs(l) /\ c \in Seg /\ end[l] = Pos[c] /\ n <= c
        /\ \A t \in LaneSegs(l) : t < c => t < n
    BY <1>0, Edge
  <1>2. c \in Nat /\ n \in Nat /\ c < N /\ LaneSegs(l) \subseteq Nat /\ LaneSegs(l) \subseteq Seg /\ end[l] \in Nat
    BY <1>1, Segments DEF Types, LaneSegs
  <1>3. /\ staging' = staging /\ published' = published /\ exec' = exec /\ outcome' = outcome
        /\ probe' = probe /\ next'[l] = c + 1 /\ end'[l] = end[l] + Size(c)
        /\ wroteAt' = [wroteAt EXCEPT ![c] = end[l]] /\ executed' = executed + 1
        /\ lpc'[l] = IF Remaining(l) = {c} THEN "finish" ELSE "take"
    BY DEF ExecuteSegment, LaneGoto, input, Types
  <1>4. Pos[c] \in Nat /\ Pos[c + 1] \in Nat
    <2>1. c \in 0 .. N /\ c + 1 \in 0 .. N
      BY <1>2, Segments
    <2> QED
      BY <2>1, PosAscends
  <1>5. end'[l] = Pos[c + 1]
    BY <1>1, <1>3, <1>4 DEF Size
  <1>6. wroteAt[c] = -1
    BY <1>1 DEF Placed
  <1>7. wroteAt'[c] = Pos[c] /\ \A s \in Seg : s # c => wroteAt'[s] = wroteAt[s]
    BY <1>1, <1>3 DEF Types
  <1>8. Placed(l)'
    <2>1. \A s \in LaneSegs(l) : s < c + 1 =>
              staging'[s] = "ok" /\ exec'[s] = "ok" /\ wroteAt'[s] = Pos[s]
      <3> SUFFICES ASSUME NEW s \in LaneSegs(l), s < c + 1
                   PROVE  staging'[s] = "ok" /\ exec'[s] = "ok" /\ wroteAt'[s] = Pos[s]
        OBVIOUS
      <3>1. CASE s = c
        BY <1>0, <1>3, <1>7, <3>1
      <3>2. CASE s # c
        <4>1. s \in Seg /\ s < n
          BY <1>1, <1>2, <3>2
        <4> QED
          BY <1>3, <1>7, <3>2, <4>1 DEF Placed
      <3> QED
        BY <3>1, <3>2
    <2>2. \A s \in LaneSegs(l) : s >= c + 1 => wroteAt'[s] = -1
      <3> SUFFICES ASSUME NEW s \in LaneSegs(l), s >= c + 1 PROVE wroteAt'[s] = -1
        OBVIOUS
      <3>1. s \in Seg /\ s # c /\ s >= n
        BY <1>1, <1>2
      <3> QED
        BY <1>7, <3>1 DEF Placed
    <2>3. c + 1 # 0 /\ (c + 1) - 1 = c
      BY <1>2
    <2>4. /\ probe'[l] <= First(l)
          /\ \A t \in Seg : t < probe'[l] => published'[t] = "size"
      BY <1>3 DEF Placed
    <2>5. next'[l] # 0 => next'[l] - 1 \in LaneSegs(l) /\ probe'[l] = First(l)
      BY <1>0, <1>1, <1>3, <2>3
    <2>6. end'[l] = Pos[IF next'[l] = 0 THEN probe'[l] ELSE next'[l]]
      BY <1>3, <1>5, <2>3
    <2>7. \A s \in LaneSegs(l) :
              /\ s < next'[l] => staging'[s] = "ok" /\ exec'[s] = "ok" /\ wroteAt'[s] = Pos[s]
              /\ s >= next'[l] => wroteAt'[s] = -1
      BY <1>3, <2>1, <2>2
    <2> QED
      BY <2>4, <2>5, <2>6, <2>7 DEF Placed
  <1>9. Remaining(l)' = Remaining(l) \ {c}
    BY <1>1, <1>2, <1>3 DEF Remaining
  <1>10. Told(l)' /\ outcome'[l].kind = "none"
    BY <1>0, <1>3, Silent
  <1>11. Running(l)'
    BY <1>0, <1>3, <1>9, <1>10 DEF Running
  <1> QED
    BY <1>1, <1>2, <1>3, <1>6, <1>8, <1>10, <1>11

LEMMA EndKeeps ==
    ASSUME MtFramesAssumption, ConsecutiveLanes, NEW l \in Lane, Types, Staged, Placed(l), Running(l),
           Told(l),
           \/ ExecuteFails(l) \/ ExecutePanics(l) \/ RecordPanic(l) \/ NotifyPanic(l) \/ FinishLane(l)
    PROVE  Placed(l)' /\ Running(l)' /\ Told(l)' /\ wroteAt' = wroteAt
  <1> DEFINE c == Cur(l)
  <1>0. /\ staging' = staging /\ published' = published /\ exec' = exec /\ csumOk' = csumOk
        /\ probe' = probe /\ next' = next /\ end' = end /\ wroteAt' = wroteAt /\ abort' = abort
    BY DEF ExecuteFails, ExecutePanics, RecordPanic, NotifyPanic, FinishLane, stageVars, input
  <1>1. /\ Placed(l)' /\ Remaining(l)' = Remaining(l) /\ Cur(l)' = c /\ FailedBefore(l)' = FailedBefore(l)
        /\ Calm' = Calm /\ LaneChecksum(l)' = LaneChecksum(l)
        /\ \A s : StoppedAt(l, s)' = StoppedAt(l, s)
    BY <1>0, Standing
  <1>2. CASE ExecuteFails(l)
    <2>1. lpc[l] = "exec" /\ probe[l] = First(l) /\ Remaining(l) # {} /\ staging[c] = "ok" /\ exec[c] = "err"
      BY <1>2 DEF ExecuteFails, Running
    <2>2. StoppedAt(l, c)
      BY <2>1, Edge DEF StoppedAt
    <2>3. lpc'[l] = "left" /\ outcome'[l] = [kind |-> "exec", at |-> c]
      BY <1>2 DEF ExecuteFails, Record, LaneGoto, Types
    <2> QED
      BY <1>0, <1>1, <2>1, <2>2, <2>3 DEF Running, Told
  <1>3. CASE ExecutePanics(l)
    <2>1. lpc[l] = "exec" /\ Remaining(l) # {} /\ exec[c] = "panic"
      BY <1>3 DEF ExecutePanics, Running
    <2>2. ~Calm
      BY <2>1, CurIs DEF Calm
    <2>3. /\ outcome'[l] = outcome[l]
          /\ \/ lpc'[l] = "unwound"
             \/ lpc'[l] = "poisoned" /\ poison'
      BY <1>3 DEF ExecutePanics, LaneGoto, Types
    <2>4. Told(l)' /\ outcome'[l].kind = "none"
      BY <2>1, <2>3, Silent
    <2> QED
      BY <1>0, <1>1, <2>2, <2>3, <2>4 DEF Running
  <1>4. CASE RecordPanic(l)
    <2>1. lpc[l] = "poisoned" /\ poison /\ poison' = poison
      BY <1>4 DEF RecordPanic, Running, stageVars
    <2>2. lpc'[l] = "recorded" /\ outcome'[l] = [kind |-> "aborted", at |-> 0]
      BY <1>4 DEF RecordPanic, LaneGoto, Types
    <2> QED
      BY <1>0, <1>1, <2>1, <2>2 DEF Running, Told
  <1>5. CASE NotifyPanic(l)
    <2>1. poison' = poison /\ lpc'[l] = "left" /\ outcome' = outcome
      BY <1>5 DEF NotifyPanic, LaneGoto, Types
    <2>2. Running(l)'
      BY <1>0, <2>1 DEF Running
    <2>3. Told(l)'
      BY <1>0, <1>1, <2>1 DEF Told
    <2> QED
      BY <1>0, <1>1, <2>2, <2>3
  <1>6. CASE FinishLane(l)
    <2>1. lpc[l] = "finish" /\ probe[l] = First(l) /\ Remaining(l) = {}
      BY <1>6 DEF FinishLane, Running
    <2>2. lpc'[l] = "left" /\ outcome'[l] = [kind |-> "done", at |-> LaneChecksum(l)]
      BY <1>6 DEF FinishLane, Record, LaneGoto, Types
    <2> QED
      BY <1>0, <1>1, <2>1, <2>2 DEF Running, Told
  <1> QED
    BY <1>2, <1>3, <1>4, <1>5, <1>6

(* A step of a lane keeps what is known of every lane.                     *)
LEMMA LaneKeeps ==
    ASSUME MtFramesAssumption, ConsecutiveLanes, LanesInv, NEW l \in Lane, LaneStep(l)
    PROVE  /\ \A k \in Lane : Placed(k)' /\ Running(k)' /\ Told(k)'
           /\ \/ wroteAt' = wroteAt
              \/ /\ Cur(l) \in Seg /\ wroteAt[Cur(l)] = -1 /\ end[l] \in Nat
                 /\ wroteAt' = [wroteAt EXCEPT ![Cur(l)] = end[l]] /\ executed' = executed + 1
  <1>0. Types /\ Staged /\ \A k \in Lane : Placed(k) /\ Running(k) /\ Told(k)
    BY DEF LanesInv
  <1>1. /\ Placed(l)' /\ Running(l)' /\ Told(l)'
        /\ \/ wroteAt' = wroteAt
           \/ /\ Cur(l) \in Seg /\ wroteAt[Cur(l)] = -1 /\ end[l] \in Nat
              /\ wroteAt' = [wroteAt EXCEPT ![Cur(l)] = end[l]] /\ executed' = executed + 1
              /\ Cur(l) \in LaneSegs(l)
    <2>1. CASE AddPredecessor(l)
      BY <1>0, <2>1, AddKeeps
    <2>2. CASE BaseAborts(l) \/ BaseKnown(l)
      BY <1>0, <2>2, BaseKeeps
    <2>3. CASE TakeStaged(l) \/ FindUnstaged(l) \/ Sleep(l)
      BY <1>0, <2>3, TakeKeeps
    <2>4. CASE ExecuteSegment(l)
      BY <1>0, <2>4, ExecuteKeeps
    <2>5. CASE ExecuteFails(l) \/ ExecutePanics(l) \/ RecordPanic(l) \/ NotifyPanic(l) \/ FinishLane(l)
      BY <1>0, <2>5, EndKeeps
    <2> QED
      BY <2>1, <2>2, <2>3, <2>4, <2>5 DEF LaneStep
  <1>2. ASSUME NEW k \in Lane, k # l PROVE Placed(k)' /\ Running(k)' /\ Told(k)'
    <2>1. \A s \in LaneSegs(k) : wroteAt'[s] = wroteAt[s]
      <3> SUFFICES ASSUME NEW s \in LaneSegs(k) PROVE wroteAt'[s] = wroteAt[s]
        OBVIOUS
      <3>1. s \in Seg
        BY DEF LaneSegs
      <3>2. CASE wroteAt' = wroteAt
        BY <3>2
      <3>3. CASE Cur(l) \in LaneSegs(l) /\ wroteAt' = [wroteAt EXCEPT ![Cur(l)] = end[l]]
        <4>1. s # Cur(l)
          BY <1>2, <3>1, <3>3, OneLane
        <4> QED
          BY <1>0, <3>1, <3>3, <4>1 DEF Types
      <3> QED
        BY <1>1, <3>2, <3>3
    <2>2. /\ staging' = staging /\ exec' = exec /\ csumOk' = csumOk
          /\ published' = published /\ abort' = abort /\ (poison => poison')
          /\ lpc'[k] = lpc[k] /\ probe'[k] = probe[k] /\ next'[k] = next[k]
          /\ end'[k] = end[k] /\ outcome'[k] = outcome[k]
      BY <1>0, <1>2, OtherLanes
    <2>3. Placed(k) /\ Running(k) /\ Told(k)
      BY <1>0
    <2> QED
      BY <2>1, <2>2, <2>3, LaneKept
  <1> QED
    BY <1>1, <1>2

(* What the steps of the calling thread leave alone.                       *)
LEMMA CallerMoves ==
    ASSUME CallerStep
    PROVE  /\ staging' = staging /\ exec' = exec /\ csumOk' = csumOk /\ pledgeOk' = pledgeOk
           /\ published' = published /\ poison' = poison /\ slots' = slots /\ wpc' = wpc /\ job' = job
           /\ nextJob' = nextJob /\ executed' = executed
           /\ probe' = probe /\ next' = next /\ end' = end /\ wroteAt' = wroteAt /\ outcome' = outcome
           /\ \/ abort' = abort
              \/ abort' = TRUE /\ cpc \in {"drop", "joinLanes"}
           /\ waiting' \in {waiting, {}}
           /\ ~LeaseLanes => lpc' = lpc
  BY DEF CallerStep, LeaseLanes, ResolveStops, Collect, Unwind, DropLanes, JoinLanes, Join,
         stageVars, input, laneVars

LEMMA CallerKeeps ==
    ASSUME LanesInv, CallerStep, NEW k \in Lane
    PROVE  Placed(k)' /\ Running(k)' /\ Told(k)'
  <1>0. Types /\ Placed(k) /\ Running(k) /\ Told(k) /\ Control
    BY DEF LanesInv
  <1>1. CASE ~LeaseLanes
    <2>1. abort => abort'
      BY CallerMoves
    <2> QED
      BY <1>0, <1>1, <2>1, CallerMoves, LaneKept
  <1>2. CASE LeaseLanes
    <2>1. lpc[k] = "unleased" /\ lpc'[k] = "base"
      BY <1>0, <1>2 DEF LeaseLanes, Control
    <2>2. Placed(k)'
      BY <1>0, CallerMoves, Standing
    <2>3. Told(k)' /\ outcome'[k].kind = "none"
      BY <1>0, <2>1, CallerMoves, Silent
    <2>4. Running(k)'
      BY <1>0, <2>1, <2>3, CallerMoves DEF Running
    <2> QED
      BY <2>2, <2>3, <2>4
  <1> QED
    BY <1>1, <1>2

LEMMA WorkerKeeps ==
    ASSUME LanesInv, NEW w \in Worker, ServeStageA(w), NEW k \in Lane
    PROVE  Placed(k)' /\ Running(k)' /\ Told(k)'
  <1>0. Types /\ Staged /\ Placed(k) /\ Running(k) /\ Told(k)
    BY DEF LanesInv
  <1>1. WorkerStep(w) /\ UNCHANGED <<input, laneVars>>
    BY DEF ServeStageA
  <1>2. exec' = exec /\ csumOk' = csumOk /\ lpc' = lpc /\ probe' = probe /\ next' = next
        /\ end' = end /\ wroteAt' = wroteAt /\ outcome' = outcome
    BY <1>1 DEF input, laneVars
  <1>3. /\ staging' = staging /\ (poison => poison') /\ abort' = abort
        /\ \A t \in Seg : published[t] = "size" => published'[t] = "size"
    BY <1>0, <1>1, <1>2, WorkerMoves
  <1> QED
    BY <1>0, <1>2, <1>3, LaneKept

-----------------------------------------------------------------------------
(* The types after a step.                                                *)

(* The types of a lane's step.                                             *)
LEMMA LaneChecksumType ==
    ASSUME MtFramesAssumption, NEW l \in Lane
    PROVE  /\ LaneChecksum(l) \in Nat
           /\ {f \in LaneFrames[l] : ~csumOk[f]} = {} => LaneChecksum(l) = Frames
           /\ {f \in LaneFrames[l] : ~csumOk[f]} # {} =>
                  /\ LaneChecksum(l) \in LaneFrames[l] /\ ~csumOk[LaneChecksum(l)]
                  /\ \A g \in LaneFrames[l] : ~csumOk[g] => LaneChecksum(l) <= g
  <1> DEFINE bad == {f \in LaneFrames[l] : ~csumOk[f]}
  <1>1. bad \subseteq Nat /\ Frames \in Nat
    BY DEF MtFramesAssumption, Frame
  <1>2. LaneChecksum(l) = IF bad = {} THEN Frames ELSE LeastOf(bad)
    BY DEF LaneChecksum, LeastOf
  <1>3. bad # {} => LeastOf(bad) \in bad /\ \A g \in bad : LeastOf(bad) <= g
    BY <1>1, LeastSeg
  <1> QED
    BY <1>1, <1>2, <1>3

LEMMA LaneTypes ==
    ASSUME MtFramesAssumption, Types, NEW l \in Lane, Placed(l), Running(l), LaneStep(l)
    PROVE  Types'
  <1> DEFINE S == {"unleased", "base", "take", "unstaged", "exec", "finish",
                   "poisoned", "recorded", "unwound", "left"}
  <1>1. /\ nextJob' = nextJob /\ wpc' = wpc /\ job' = job /\ staging' = staging
        /\ abort' = abort /\ published' = published /\ exec' = exec /\ csumOk' = csumOk
        /\ pledgeOk' = pledgeOk /\ cpc' = cpc /\ result' = result
    BY OtherLanes
  <1>2. slots' \in [Seg -> SlotValue]
    <2>1. CASE TakeStaged(l)
      BY <2>1 DEF TakeStaged, Types, SlotValue
    <2> QED
      BY <2>1 DEF LaneStep, AddPredecessor, BaseAborts, BaseKnown, FindUnstaged, Sleep, ExecuteSegment,
         ExecuteFails, ExecutePanics, RecordPanic, NotifyPanic, FinishLane, stageVars, Types
  <1>3. waiting' \subseteq Lane
    <2>1. CASE Sleep(l)
      BY <2>1 DEF Sleep, Types
    <2>2. waiting' = waiting \/ waiting' = {} \/ Sleep(l)
      BY DEF LaneStep, AddPredecessor, BaseAborts, BaseKnown, TakeStaged, FindUnstaged, ExecuteSegment,
         ExecuteFails, ExecutePanics, RecordPanic, NotifyPanic, FinishLane, stageVars
    <2> QED
      BY <2>1, <2>2 DEF Types
  <1>4. poison' \in BOOLEAN
    <2>1. poison' = poison \/ poison' = TRUE
      BY DEF LaneStep, AddPredecessor, BaseAborts, BaseKnown, TakeStaged, FindUnstaged, Sleep,
         ExecuteSegment, ExecuteFails, ExecutePanics, RecordPanic, NotifyPanic, FinishLane, stageVars
    <2> QED
      BY <2>1 DEF Types
  <1>5. probe' \in [Lane -> 0 .. N]
    <2>1. CASE AddPredecessor(l)
      <3>1. probe[l] \in Nat /\ First(l) \in Nat /\ First(l) < N /\ probe[l] < First(l)
        BY <2>1, FirstIs, Segments DEF AddPredecessor, Types
      <3>2. probe[l] + 1 \in 0 .. N
        BY <3>1, Segments
      <3> QED
        BY <2>1, <3>2 DEF AddPredecessor, Types
    <2> QED
      BY <2>1 DEF LaneStep, BaseAborts, BaseKnown, TakeStaged, FindUnstaged, Sleep, ExecuteSegment,
         ExecuteFails, ExecutePanics, RecordPanic, NotifyPanic, FinishLane, Types
  <1>6. ASSUME NEW s \in Seg PROVE Size(s) \in Nat
    <2>1. s \in 0 .. N /\ s + 1 \in 0 .. N /\ s <= s + 1
      BY Segments
    <2>2. Pos[s] \in Nat /\ Pos[s + 1] \in Nat /\ Pos[s] <= Pos[s + 1]
      BY <2>1, PosAscends
    <2> QED
      BY <2>2 DEF Size
  <1>7. /\ lpc[l] = "exec" => Cur(l) \in Seg
        /\ lpc[l] = "take" => Cur(l) \in Seg
    BY CurIs DEF Running
  <1>8. /\ next' \in [Lane -> 0 .. N] /\ end' \in [Lane -> Nat]
        /\ wroteAt' \in [Seg -> Nat \union {-1}]
    <2>1. CASE AddPredecessor(l)
      <3>1. probe[l] \in Seg
        <4>1. probe[l] \in Nat /\ First(l) \in Nat /\ First(l) < N /\ probe[l] < First(l)
          BY <2>1, FirstIs, Segments DEF AddPredecessor, Types
        <4> QED
          BY <4>1, Segments
      <3>2. end[l] + Size(probe[l]) \in Nat
        BY <1>6, <3>1 DEF Types
      <3> QED
        BY <2>1, <3>2 DEF AddPredecessor, Types
    <2>2. CASE ExecuteSegment(l)
      <3>1. Cur(l) \in Seg
        BY <1>7, <2>2 DEF ExecuteSegment
      <3>2. Cur(l) + 1 \in 0 .. N
        BY <3>1, Segments
      <3>3. end[l] \in Nat /\ end[l] + Size(Cur(l)) \in Nat
        BY <1>6, <3>1 DEF Types
      <3> QED
        BY <2>2, <3>1, <3>2, <3>3 DEF ExecuteSegment, Types
    <2> QED
      BY <2>1, <2>2 DEF LaneStep, BaseAborts, BaseKnown, TakeStaged, FindUnstaged, Sleep,
         ExecuteFails, ExecutePanics, RecordPanic, NotifyPanic, FinishLane, Types
  <1>9. outcome' = outcome \/ \E o \in Outcome : outcome' = [outcome EXCEPT ![l] = o]
    <2>1. \A at \in Nat : \A kind \in {"done", "stage", "exec", "sentinel", "aborted"} :
              [kind |-> kind, at |-> at] \in Outcome
      BY DEF Outcome
    <2>2. CASE BaseAborts(l)
      BY <2>1, <2>2 DEF BaseAborts, Record
    <2>3. CASE TakeStaged(l)
      <3>1. Cur(l) \in Seg /\ Cur(l) \in Nat
        BY <1>7, <2>3, Segments DEF TakeStaged
      <3>2. slots[Cur(l)] \in {"ok", "err", "sentinel"}
        BY <2>3, <3>1 DEF TakeStaged, Types, SlotValue
      <3> QED
        BY <2>1, <2>3, <3>1, <3>2 DEF TakeStaged, Record
    <2>4. CASE FindUnstaged(l)
      BY <2>1, <2>4 DEF FindUnstaged, Record
    <2>5. CASE ExecuteFails(l)
      <3>1. Cur(l) \in Nat
        BY <1>7, <2>5, Segments DEF ExecuteFails
      <3> QED
        BY <2>1, <2>5, <3>1 DEF ExecuteFails, Record
    <2>6. CASE RecordPanic(l)
      BY <2>1, <2>6 DEF RecordPanic
    <2>7. CASE FinishLane(l)
      BY <2>1, <2>7, LaneChecksumType DEF FinishLane, Record
    <2> QED
      BY <2>2, <2>3, <2>4, <2>5, <2>6, <2>7 DEF LaneStep, AddPredecessor, BaseKnown, Sleep,
         ExecuteSegment, ExecutePanics, NotifyPanic
  <1>10. outcome' \in [Lane -> Outcome]
    BY <1>9 DEF Types
  <1>11. lpc' \in [Lane -> S]
    <2>1. \E p \in S : lpc' = [lpc EXCEPT ![l] = p] \/ lpc' = lpc
      <3>1. CASE TakeStaged(l)
        <4>1. slots[Cur(l)] \in {"ok", "err", "sentinel"}
          BY <1>7, <3>1 DEF TakeStaged, Types, SlotValue
        <4> QED
          BY <3>1, <4>1 DEF TakeStaged, Record, LaneGoto
      <3> QED
        BY <3>1 DEF LaneStep, AddPredecessor, BaseAborts, BaseKnown, FindUnstaged, Sleep, ExecuteSegment,
           ExecuteFails, ExecutePanics, RecordPanic, NotifyPanic, FinishLane, Record, LaneGoto
    <2> QED
      BY <2>1 DEF Types
  <1> QED
    BY <1>1, <1>2, <1>3, <1>4, <1>5, <1>8, <1>10, <1>11 DEF Types

(* The types of a worker's step.                                           *)
LEMMA WorkerTypes ==
    ASSUME Types, NEW w \in Worker, ServeStageA(w)
    PROVE  Types'
  <1>1. /\ exec' = exec /\ csumOk' = csumOk /\ pledgeOk' = pledgeOk /\ lpc' = lpc /\ probe' = probe
        /\ next' = next /\ end' = end /\ wroteAt' = wroteAt /\ outcome' = outcome
        /\ cpc' = cpc /\ result' = result /\ WorkerStep(w)
    BY DEF ServeStageA, input, laneVars
  <1>2. staging' = staging /\ abort' = abort /\ waiting' \in {waiting, {}}
    BY <1>1 DEF WorkerStep, CheckStop, Claim, Gate, Stage, Fill, Notify
  <1>3. nextJob' \in Nat /\ job' \in [Worker -> Seg]
    <2>1. CASE Claim(w)
      <3>1. nextJob < N => nextJob \in Seg
        BY Segments DEF Types
      <3> QED
        BY <2>1, <3>1 DEF Claim, Types
    <2> QED
      BY <1>1, <2>1 DEF WorkerStep, CheckStop, Gate, Stage, Fill, Notify, Types
  <1>4. poison' \in BOOLEAN
    <2>1. CASE Stage(w)
      <3>1. poison' \in BOOLEAN
        BY <2>1, Zenon DEF Stage
      <3> QED
        BY <3>1
    <2> QED
      BY <1>1, <2>1 DEF WorkerStep, CheckStop, Claim, Gate, Fill, Notify, Types
  <1>5. published' \in [Seg -> {"none", "size", "err"}]
    <2>1. CASE Stage(w)
      BY <2>1 DEF Stage, Types
    <2> QED
      BY <1>1, <2>1 DEF WorkerStep, CheckStop, Claim, Gate, Fill, Notify, Types
  <1>6. slots' \in [Seg -> SlotValue]
    <2>1. CASE Fill(w)
      <3>1. staging[job[w]] \in Staging
        BY DEF Types
      <3> QED
        BY <2>1, <3>1 DEF Fill, Types, Staging, SlotValue
    <2> QED
      BY <1>1, <2>1 DEF WorkerStep, CheckStop, Claim, Gate, Stage, Notify, Types
  <1>7. wpc' \in [Worker -> {"top", "claim", "gate", "stage", "fill", "notify", "left"}]
    BY <1>1 DEF WorkerStep, CheckStop, Claim, Gate, Stage, Fill, Notify, Goto, Types
  <1> QED
    BY <1>1, <1>2, <1>3, <1>4, <1>5, <1>6, <1>7 DEF Types

LEMMA SegFinite == IsFiniteSet(Seg) /\ Cardinality(Seg) = N
  <1>1. 0 \in Int /\ N - 1 \in Int /\ N \in Nat /\ 0 <= N - 1
    BY Segments
  <1>2. /\ IsFiniteSet(0 .. N - 1)
        /\ Cardinality(0 .. N - 1) = IF 0 > N - 1 THEN 0 ELSE (N - 1) - 0 + 1
    BY <1>1, FS_Interval
  <1> QED
    BY <1>1, <1>2 DEF Seg

LEMMA CountedStep ==
    ASSUME MtFramesAssumption, ConsecutiveLanes, LanesInv, Next
    PROVE  Counted'
  <1> DEFINE E == {s \in Seg : wroteAt[s] # -1}
  <1>0. Types /\ Counted
    BY DEF LanesInv
  <1>1. IsFiniteSet(E)
    BY SegFinite, FS_Subset
  <1>2. ASSUME wroteAt' = wroteAt, executed' = executed PROVE Counted'
    BY <1>0, <1>2 DEF Counted
  <1>3. CASE CallerStep
    BY <1>2, <1>3, CallerMoves
  <1>4. ASSUME NEW w \in Worker, ServeStageA(w) PROVE Counted'
    <2>1. WorkerStep(w) /\ UNCHANGED <<input, laneVars>>
      BY <1>4 DEF ServeStageA
    <2>2. executed' = executed
      BY <2>1 DEF WorkerStep, CheckStop, Claim, Gate, Stage, Fill, Notify
    <2> QED
      BY <1>2, <2>1, <2>2 DEF laneVars
  <1>5. ASSUME NEW l \in Lane, LaneStep(l) PROVE Counted'
    <2>1. CASE wroteAt' = wroteAt /\ executed' = executed
      BY <1>2, <2>1
    <2>2. CASE ExecuteSegment(l)
      <3> DEFINE c == Cur(l)
      <3>1. /\ c \in Seg /\ wroteAt[c] = -1 /\ executed' = executed + 1 /\ end[l] \in Nat
            /\ wroteAt' = [wroteAt EXCEPT ![c] = end[l]]
        <4>1. Placed(l) /\ Running(l)
          BY DEF LanesInv
        <4> QED
          BY <1>0, <2>2, <4>1, ExecuteKeeps
      <3>2. c \notin E /\ {s \in Seg : wroteAt'[s] # -1} = E \union {c}
        BY <1>0, <3>1 DEF Types
      <3>3. Cardinality(E \union {c}) = Cardinality(E) + 1
        BY <1>1, <3>2, FS_AddElement
      <3> QED
        BY <1>0, <3>1, <3>2, <3>3 DEF Counted
    <2> QED
      BY <1>5, <2>1, <2>2 DEF LaneStep, AddPredecessor, BaseAborts, BaseKnown, TakeStaged, FindUnstaged,
         Sleep, ExecuteFails, ExecutePanics, RecordPanic, NotifyPanic, FinishLane, stageVars
  <1> QED
    BY <1>3, <1>4, <1>5 DEF Next

LEMMA StagedStep ==
    ASSUME MtFramesAssumption, ConsecutiveLanes, LanesInv, Next
    PROVE  Staged'
  <1>0. Types /\ Staged /\ \A l \in Lane : Running(l)
    BY DEF LanesInv
  <1>1. CASE CallerStep
    <2>1. /\ staging' = staging /\ exec' = exec /\ published' = published /\ poison' = poison
          /\ slots' = slots /\ wpc' = wpc /\ job' = job
      BY <1>1, CallerMoves
    <2> QED
      BY <1>0, <2>1 DEF Staged, Calm
  <1>2. ASSUME NEW w \in Worker, ServeStageA(w) PROVE Staged'
    BY <1>0, <1>2, WorkerMoves DEF ServeStageA, input
  <1>3. ASSUME NEW l \in Lane, LaneStep(l) PROVE Staged'
    <2>1. /\ staging' = staging /\ exec' = exec /\ published' = published /\ (poison => poison')
          /\ wpc' = wpc /\ job' = job
      BY <1>0, <1>3, OtherLanes
    <2>2. Calm' = Calm
      BY <2>1 DEF Calm
    <2>3. poison' => ~Calm
      <3>1. CASE ExecutePanics(l)
        <4>1. Cur(l) \in Seg /\ exec[Cur(l)] = "panic"
          BY <1>0, <3>1, CurIs DEF ExecutePanics, Running
        <4> QED
          BY <4>1 DEF Calm
      <3>2. poison' = poison \/ ExecutePanics(l)
        BY <1>3 DEF LaneStep, AddPredecessor, BaseAborts, BaseKnown, TakeStaged, FindUnstaged, Sleep,
           ExecuteSegment, ExecuteFails, RecordPanic, NotifyPanic, FinishLane, stageVars
      <3> QED
        BY <1>0, <3>1, <3>2 DEF Staged
    <2>4. \A s \in Seg : slots'[s] = slots[s] \/ slots'[s] = "none"
      <3>1. CASE TakeStaged(l)
        BY <1>0, <3>1 DEF TakeStaged, Types
      <3> QED
        BY <1>3, <3>1 DEF LaneStep, AddPredecessor, BaseAborts, BaseKnown, FindUnstaged, Sleep,
           ExecuteSegment, ExecuteFails, ExecutePanics, RecordPanic, NotifyPanic, FinishLane, stageVars
    <2>5. \A s \in Seg :
           /\ slots'[s] = "ok" => staging[s] = "ok"
           /\ slots'[s] = "err" => staging[s] = "err"
           /\ slots'[s] = "sentinel" => poison'
      BY <1>0, <2>1, <2>4 DEF Staged
    <2>6. \A s \in Seg :
           /\ published'[s] = "size" => staging'[s] = "ok"
           /\ published'[s] = "err" => staging'[s] = "err"
      BY <1>0, <2>1 DEF Staged
    <2>7. \A w \in Worker : wpc'[w] = "fill" /\ staging'[job'[w]] = "panic" => poison'
      BY <1>0, <2>1 DEF Staged
    <2> QED
      BY <2>1, <2>2, <2>3, <2>5, <2>6, <2>7 DEF Staged
  <1> QED
    BY <1>1, <1>2, <1>3 DEF Next

(* Where the calling thread is, and where that leaves the others.          *)
LEMMA ControlStep ==
    ASSUME MtFramesAssumption, ConsecutiveLanes, LanesInv, Next
    PROVE  Control'
  <1>0. Types /\ Staged /\ Control /\ \A l \in Lane : Running(l)
    BY DEF LanesInv
  <1>1. CASE CallerStep
    <2>0. published' = published /\ wpc' = wpc
      BY <1>1, CallerMoves
    <2>1. CASE LeaseLanes
      <3>1. /\ cpc = "resolve" /\ cpc' = "run" /\ abort' = abort
            /\ lpc' = [l \in Lane |-> "base"] /\ (Deferred => \A s \in Seg : published[s] # "none")
        BY <2>1 DEF LeaseLanes, stageVars
      <3> QED
        BY <1>0, <2>0, <3>1 DEF Control
    <2>2. CASE ResolveStops
      BY <1>0, <2>0, <2>2 DEF Control, ResolveStops, stageVars, laneVars
    <2>3. CASE Collect \/ Unwind
      BY <1>0, <2>0, <2>3 DEF Control, Collect, Unwind, stageVars, laneVars
    <2>4. CASE DropLanes
      BY <1>0, <2>0, <2>4 DEF Control, DropLanes, laneVars
    <2>5. CASE JoinLanes
      BY <1>0, <2>0, <2>5 DEF Control, JoinLanes, laneVars
    <2>6. CASE Join
      BY <1>0, <2>0, <2>6 DEF Control, Join, stageVars, laneVars
    <2> QED
      BY <1>1, <2>1, <2>2, <2>3, <2>4, <2>5, <2>6 DEF CallerStep
  <1>2. ASSUME NEW w \in Worker, ServeStageA(w) PROVE Control'
    <2>1. /\ WorkerStep(w) /\ lpc' = lpc /\ cpc' = cpc /\ exec' = exec
      BY <1>2 DEF ServeStageA, laneVars, input
    <2>2. /\ abort' = abort /\ wpc[w] # "left"
          /\ \A t \in Seg : published[t] # "none" => published'[t] # "none"
      BY <1>0, <2>1, WorkerMoves
    <2>3. cpc # "done"
      BY <1>0, <2>2 DEF Control
    <2> QED
      BY <1>0, <2>1, <2>2, <2>3 DEF Control
  <1>3. ASSUME NEW l \in Lane, LaneStep(l) PROVE Control'
    <2>1. /\ abort' = abort /\ wpc' = wpc /\ cpc' = cpc /\ published' = published
          /\ \A k \in Lane \ {l} : lpc'[k] = lpc[k]
      BY <1>0, <1>3, OtherLanes
    <2>2. lpc[l] \notin {"unleased", "left"}
      BY <1>3 DEF LaneStep, AddPredecessor, BaseAborts, BaseKnown, TakeStaged, FindUnstaged, Sleep,
         ExecuteSegment, ExecuteFails, ExecutePanics, RecordPanic, NotifyPanic, FinishLane
    <2>3. lpc'[l] # "unleased"
      <3>2. CASE TakeStaged(l)
        <4>1. slots[Cur(l)] \in {"ok", "err", "sentinel"}
          <5>1. Cur(l) \in Seg
            BY <1>0, <3>2, CurIs DEF TakeStaged, Running
          <5> QED
            BY <1>0, <3>2, <5>1 DEF TakeStaged, Types, SlotValue
        <4> QED
          BY <1>0, <3>2, <4>1 DEF TakeStaged, Record, LaneGoto, Types
      <3> QED
        BY <1>0, <1>3, <2>2, <3>2 DEF LaneStep, AddPredecessor, BaseAborts, BaseKnown, FindUnstaged, Sleep,
           ExecuteSegment, ExecuteFails, ExecutePanics, RecordPanic, NotifyPanic, FinishLane, Record,
           LaneGoto, Types
    <2>4. cpc \in {"join", "done"} => l = 0
      BY <1>0, <2>2 DEF Control
    <2>5. cpc # "resolve"
      BY <1>0, <2>2 DEF Control
    <2> QED
      BY <1>0, <2>1, <2>2, <2>3, <2>4, <2>5 DEF Control
  <1> QED
    BY <1>1, <1>2, <1>3 DEF Next

-----------------------------------------------------------------------------
(* What the lanes recorded, and what the serial executor returns.         *)

(* The segments that the serial executor would stop at.                    *)
BadSegs == {s \in Seg : staging[s] = "err" \/ exec[s] = "err"}

(* All lanes have recorded, and none was stopped from outside.             *)
Recorded ==
    /\ Types /\ Staged /\ ~abort
    /\ \A l \in Lane : Placed(l) /\ Running(l) /\ Told(l) /\ outcome[l].kind # "none"

(* A lane that is done has executed its segments, in place.                *)
LEMMA DoneIs ==
    ASSUME Recorded, NEW l \in Lane, outcome[l].kind = "done"
    PROVE  /\ \A s \in LaneSegs(l) : staging[s] = "ok" /\ exec[s] = "ok" /\ wroteAt[s] = Pos[s] /\ s < next[l]
           /\ outcome[l].at = LaneChecksum(l) /\ probe[l] = First(l)
  <1>1. Placed(l) /\ Remaining(l) = {} /\ outcome[l].at = LaneChecksum(l) /\ probe[l] = First(l)
    BY DEF Recorded, Told
  <1>2. next[l] \in Nat /\ LaneSegs(l) \subseteq Nat
    BY Segments DEF Recorded, Types, LaneSegs
  <1>3. \A s \in LaneSegs(l) : s < next[l]
    BY <1>1, <1>2 DEF Remaining
  <1> QED
    BY <1>1, <1>3 DEF Placed

(* Without a panic, the lane of the first bad segment stopped there.       *)
LEMMA LeastBad ==
    ASSUME MtFramesAssumption, Recorded, ~poison, NEW b \in BadSegs, \A t \in BadSegs : b <= t
    PROVE  \E k \in Failed : outcome[k].at <= b
  <1>1. b \in Seg /\ b \in Nat
    BY Segments DEF BadSegs
  <1>2. PICK k \in Lane : b \in LaneSegs(k)
    BY <1>1, OneLane
  <1>3. Placed(k) /\ Told(k) /\ outcome[k].kind # "none" /\ outcome[k] \in Outcome
    BY DEF Recorded, Types
  <1>4. staging[b] # "ok" \/ exec[b] # "ok"
    BY DEF BadSegs
  <1>5. outcome[k].kind # "done"
    BY <1>2, <1>4, DoneIs
  <1>6. outcome[k].kind # "aborted"
    <2> SUFFICES ASSUME outcome[k].kind = "aborted" PROVE FALSE
      OBVIOUS
    <2>1. PICK t \in Seg : t < First(k) /\ staging[t] = "err"
      BY <1>3 DEF Told, Recorded, FailedBefore
    <2>2. t \in BadSegs /\ t \in Nat /\ First(k) <= b /\ First(k) \in Nat
      BY <1>2, <2>1, FirstIs, Segments DEF BadSegs
    <2> QED
      BY <1>1, <2>1, <2>2
  <1>7. outcome[k].kind \in {"stage", "exec"}
    BY <1>3, <1>5, <1>6 DEF Outcome, Told
  <1>8. StoppedAt(k, outcome[k].at)
    BY <1>3, <1>7 DEF Told
  <1>9. outcome[k].at \in Nat
    BY <1>3 DEF Outcome
  <1>10. ~(b < outcome[k].at)
    BY <1>2, <1>3, <1>4, <1>8 DEF StoppedAt, Placed
  <1>11. k \in Failed
    BY <1>7 DEF Failed
  <1> QED
    BY <1>1, <1>9, <1>10, <1>11

LEMMA BadFails ==
    ASSUME MtFramesAssumption, Recorded, ~poison, Failed = {}
    PROVE  /\ BadSegs = {}
           /\ \A l \in Lane : outcome[l].kind = "done"
  <1>1. BadSegs = {}
    <2> SUFFICES ASSUME BadSegs # {} PROVE FALSE
      OBVIOUS
    <2>1. PICK b \in BadSegs : \A t \in BadSegs : b <= t
      <3>1. BadSegs \subseteq Nat
        BY Segments DEF BadSegs
      <3> QED
        BY <3>1, LeastElement
    <2> QED
      BY <2>1, LeastBad
  <1>2. ASSUME NEW l \in Lane PROVE outcome[l].kind = "done"
    <2>1. Told(l) /\ outcome[l].kind # "none" /\ outcome[l] \in Outcome
      BY DEF Recorded, Types
    <2>2. outcome[l].kind \notin {"stage", "exec", "sentinel"}
      BY DEF Failed
    <2>3. outcome[l].kind # "aborted"
      BY <1>1, <2>1 DEF Told, Recorded, FailedBefore, BadSegs
    <2> QED
      BY <2>1, <2>2, <2>3 DEF Outcome
  <1> QED
    BY <1>1, <1>2

(* When every lane is done, the lengths are as pledged if the pledges are  *)
(* the frames' sizes.                                                      *)
LEMMA VerifiedIs ==
    ASSUME MtFramesAssumption, Recorded, \A l \in Lane : outcome[l].kind = "done"
    PROVE  Verified <=> pledgeOk
  <1>1. \A s \in Seg : wroteAt[s] = Pos[s]
    <2> SUFFICES ASSUME NEW s \in Seg PROVE wroteAt[s] = Pos[s]
      OBVIOUS
    <2>1. PICK l \in Lane : s \in LaneSegs(l)
      BY OneLane
    <2> QED
      BY <2>1, DoneIs
  <1>2. N - 1 \in Seg /\ N \in 0 .. N /\ N \in Nat
    BY Segments
  <1>3. \A l \in Lane : end[l] \in Nat /\ end[l] <= Pos[N]
    <2> SUFFICES ASSUME NEW l \in Lane PROVE end[l] \in Nat /\ end[l] <= Pos[N]
      OBVIOUS
    <2>1. end[l] = Pos[IF next[l] = 0 THEN probe[l] ELSE next[l]] /\ end[l] \in Nat
      BY DEF Recorded, Placed, Types
    <2>2. next[l] \in 0 .. N /\ probe[l] \in 0 .. N
      BY DEF Recorded, Types
    <2>3. \A i \in 0 .. N : Pos[i] <= Pos[N]
      <3> SUFFICES ASSUME NEW i \in 0 .. N PROVE Pos[i] <= Pos[N]
        OBVIOUS
      <3>1. i <= N
        BY <1>2
      <3> QED
        BY <1>2, <3>1, PosAscends
    <2> QED
      BY <2>1, <2>2, <2>3
  <1>4. PICK m \in Lane : N - 1 \in LaneSegs(m)
    BY <1>2, OneLane
  <1>5. end[m] = Pos[N]
    <2>1. N - 1 < next[m] /\ next[m] \in 0 .. N
      BY <1>4, DoneIs DEF Recorded, Types
    <2>2. next[m] = N /\ next[m] # 0
      BY <1>2, <2>1, Segments
    <2> QED
      BY <2>2 DEF Recorded, Placed
  <1>6. Written = Pos[N]
    <2> DEFINE T == {end[l] : l \in Lane}
    <2>1. Pos[N] \in T /\ (\A k \in Lane : end[k] <= Pos[N]) /\ Pos[N] \in Nat /\ T \subseteq Nat
      BY <1>3, <1>5
    <2>2. Written \in T /\ \A k \in Lane : end[k] <= Written
      BY <2>1 DEF Written
    <2>3. Written <= Pos[N] /\ Pos[N] <= Written /\ Written \in Nat
      BY <1>3, <1>5, <2>1, <2>2
    <2> QED
      BY <2>1, <2>3
  <1>7. ASSUME NEW f \in Frame
        PROVE  (IF f + 1 < Frames THEN wroteAt[FrameStart(f + 1)] ELSE Written) - wroteAt[FrameStart(f)]
                  = Pos[FrameStart(f + 1)] - Pos[FrameStart(f)]
    <2>1. wroteAt[FrameStart(f)] = Pos[FrameStart(f)]
      BY <1>1, StartIs
    <2>2. CASE f + 1 < Frames
      <3>1. f + 1 \in Frame
        BY <2>2 DEF Frame, MtFramesAssumption
      <3>2. wroteAt[FrameStart(f + 1)] = Pos[FrameStart(f + 1)]
        BY <1>1, <3>1, StartIs
      <3> QED
        BY <2>1, <2>2, <3>2
    <2>3. CASE ~(f + 1 < Frames)
      <3>1. f + 1 = Frames
        BY <2>3 DEF Frame, MtFramesAssumption
      <3>2. FrameStart(f + 1) = N
        BY <3>1, StartIs
      <3> QED
        BY <1>6, <2>1, <2>3, <3>2
    <2> QED
      BY <2>2, <2>3
  <1> QED
    BY <1>7 DEF Verified

(* What the outcomes add up to.                                            *)
LEMMA CollectedIs ==
    ASSUME MtFramesAssumption, Recorded
    PROVE  /\ Collected \in Result
           /\ Calm => Serial(Collected)
           /\ Collected.kind = "sentinel" => poison
  <1> DEFINE Mismatched == {outcome[l].at : l \in {k \in Lane : outcome[k].kind = "done"}} \ {Frames}
  <1>0. /\ \A l \in Lane : outcome[l] \in Outcome
        /\ Calm => ~poison
    BY DEF Recorded, Types, Staged
  <1>1. CASE Failed # {}
    <2> DEFINE ats == {outcome[k].at : k \in Failed}
               L == CHOOSE l \in Failed : \A k \in Failed : outcome[l].at <= outcome[k].at
    <2>1. ats \subseteq Nat /\ ats # {}
      BY <1>0, <1>1 DEF Failed, Outcome
    <2>2. PICK a \in ats : \A b \in ats : a <= b
      BY <2>1, LeastElement
    <2>3. \E l \in Failed : \A k \in Failed : outcome[l].at <= outcome[k].at
      BY <2>2
    <2>4. L \in Failed /\ \A k \in Failed : outcome[L].at <= outcome[k].at
      BY <2>3
    <2>5. Collected = outcome[L]
      BY <1>1 DEF Collected
    <2> DEFINE o == outcome[L]
    <2>6. L \in Lane /\ o \in Outcome /\ o.kind \in {"stage", "exec", "sentinel"} /\ o.at \in Nat /\ Told(L)
      BY <1>0, <2>4 DEF Failed, Recorded, Outcome
    <2>7. o = [kind |-> o.kind, at |-> o.at]
      BY <2>6 DEF Outcome
    <2> HIDE DEF L
    <2>8. o \in Result
      BY <2>6 DEF Result, Outcome
    <2>9. o.kind = "sentinel" => poison
      BY <2>6 DEF Told
    <2>10. ASSUME Calm PROVE Serial(o)
      <3>1. ~poison /\ o.kind \in {"stage", "exec"}
        BY <1>0, <2>6, <2>9, <2>10
      <3>2. /\ o.at \in LaneSegs(L) /\ o.at \in Seg
            /\ o.kind = "stage" => staging[o.at] = "err"
            /\ o.kind = "exec" => staging[o.at] = "ok" /\ exec[o.at] = "err"
        BY <2>6, <3>1 DEF Told, StoppedAt, LaneSegs
      <3>3. o.at \in BadSegs
        BY <3>1, <3>2 DEF BadSegs
      <3>4. BadSegs \subseteq Nat /\ BadSegs # {}
        BY <3>3, Segments DEF BadSegs
      <3>5. PICK b \in BadSegs : \A t \in BadSegs : b <= t
        BY <3>4, LeastElement
      <3>6. PICK k \in Failed : outcome[k].at <= b
        BY <3>1, <3>5, LeastBad
      <3>7. outcome[k].at \in Nat /\ o.at <= outcome[k].at
        BY <1>0, <2>4, <3>6 DEF Failed, Outcome
      <3>8. o.at = b
        BY <2>6, <3>3, <3>4, <3>5, <3>6, <3>7
      <3>9. o.kind = IF staging[o.at] = "err" THEN "stage" ELSE "exec"
        BY <3>1, <3>2
      <3>10. o = [kind |-> IF staging[o.at] = "err" THEN "stage" ELSE "exec", at |-> o.at]
        BY <2>7, <3>9
      <3>11. \A t \in BadSegs : o.at <= t
        BY <3>5, <3>8
      <3> HIDE DEF o
      <3> QED
        BY <3>3, <3>10, <3>11 DEF Serial, BadSegs
    <2> QED
      BY <2>5, <2>8, <2>9, <2>10
  <1>2. CASE Failed = {} /\ Mismatched # {}
    <2> DEFINE m == CHOOSE f \in Mismatched : \A g \in Mismatched : f <= g
    <2>1. Collected = [kind |-> "checksum", at |-> m]
      BY <1>2 DEF Collected
    <2>2. Mismatched \subseteq Nat
      BY <1>0 DEF Outcome
    <2>3. m \in Mismatched /\ \A g \in Mismatched : m <= g
      <3>1. m = LeastOf(Mismatched)
        BY DEF LeastOf
      <3> HIDE DEF Mismatched, m
      <3>2. LeastOf(Mismatched) \in Mismatched /\ \A g \in Mismatched : LeastOf(Mismatched) <= g
        BY <1>2, <2>2, LeastSeg
      <3> QED
        BY <3>1, <3>2
    <2> HIDE DEF m
    <2>4. m \in Nat
      BY <2>2, <2>3
    <2>5. ASSUME Calm PROVE Serial(Collected)
      <3>1. BadSegs = {} /\ \A l \in Lane : outcome[l].kind = "done"
        BY <1>0, <1>2, <2>5, BadFails
      <3>2. PICK l \in Lane : m = outcome[l].at /\ m # Frames
        BY <2>3
      <3>3. m = LaneChecksum(l)
        BY <3>1, <3>2, DoneIs
      <3>4. m \in LaneFrames[l] /\ ~csumOk[m]
        BY <3>2, <3>3, LaneChecksumType
      <3>5. m \in Frame
        BY <3>4 DEF MtFramesAssumption
      <3>6. ASSUME NEW g \in Frame, ~csumOk[g] PROVE m <= g
        <4>1. PICK k \in Lane : g \in LaneFrames[k]
          BY DEF MtFramesAssumption
        <4>2. outcome[k].at = LaneChecksum(k)
          BY <3>1, DoneIs
        <4>3. /\ LaneChecksum(k) \in LaneFrames[k] /\ LaneChecksum(k) <= g
          BY <3>6, <4>1, LaneChecksumType
        <4>4. LaneChecksum(k) \in Frame /\ LaneChecksum(k) # Frames
          BY <4>3 DEF MtFramesAssumption, Frame
        <4>5. LaneChecksum(k) \in Mismatched
          BY <3>1, <4>2, <4>4
        <4>6. m <= LaneChecksum(k) /\ LaneChecksum(k) \in Nat /\ g \in Nat
          BY <2>3, <4>4, <4>5 DEF Frame
        <4> QED
          BY <2>4, <4>3, <4>6
      <3> QED
        BY <2>1, <3>1, <3>4, <3>5, <3>6 DEF Serial, BadSegs
    <2> QED
      BY <2>1, <2>4, <2>5 DEF Result
  <1>3. CASE Failed = {} /\ Mismatched = {} /\ \E l \in Lane : outcome[l].kind = "aborted"
    <2>1. Collected = [kind |-> "sentinel", at |-> 0]
      BY <1>3 DEF Collected
    <2>2. poison
      BY <1>3, BadFails
    <2> QED
      BY <1>0, <2>1, <2>2 DEF Result
  <1>4. CASE Failed = {} /\ Mismatched = {} /\ ~\E l \in Lane : outcome[l].kind = "aborted"
    <2>1. Collected = [kind |-> IF Verified THEN "ok" ELSE "size", at |-> 0]
      BY <1>4 DEF Collected
    <2>2. ASSUME Calm PROVE Serial(Collected)
      <3>1. BadSegs = {} /\ \A l \in Lane : outcome[l].kind = "done"
        BY <1>0, <1>4, <2>2, BadFails
      <3>2. Verified <=> pledgeOk
        BY <3>1, VerifiedIs
      <3>3. ASSUME NEW g \in Frame, ~csumOk[g] PROVE FALSE
        <4>1. PICK k \in Lane : g \in LaneFrames[k]
          BY DEF MtFramesAssumption
        <4>2. outcome[k].at = LaneChecksum(k)
          BY <3>1, DoneIs
        <4>3. LaneChecksum(k) \in LaneFrames[k]
          BY <3>3, <4>1, LaneChecksumType
        <4>4. LaneChecksum(k) # Frames
          BY <4>3 DEF MtFramesAssumption, Frame
        <4> QED
          BY <1>4, <3>1, <4>2, <4>4
      <3>4. Collected = [kind |-> IF pledgeOk THEN "ok" ELSE "size", at |-> 0]
        BY <2>1, <3>2
      <3> QED
        BY <3>1, <3>3, <3>4 DEF Serial, BadSegs
    <2>3. Collected \in Result /\ Collected.kind # "sentinel"
      BY <2>1 DEF Result
    <2> QED
      BY <2>2, <2>3
  <1> QED
    BY <1>1, <1>2, <1>3, <1>4

(* What the call returns.                                                  *)
LEMMA SerialKept ==
    ASSUME staging' = staging, exec' = exec, csumOk' = csumOk, pledgeOk' = pledgeOk, NEW r, r = result'
    PROVE  /\ Calm' = Calm
           /\ Serial(r) => Serial(result)'
  <1>1. Calm' = Calm
    BY DEF Calm
  <1>2. ASSUME Serial(r) PROVE Serial(result)'
    BY <1>2 DEF Serial
  <1> QED
    BY <1>1, <1>2

LEMMA SettledStep ==
    ASSUME MtFramesAssumption, ConsecutiveLanes, LanesInv, Next
    PROVE  Settled' /\ result' \in Result
  <1>0. /\ Types /\ Staged /\ Control /\ Settled /\ result \in Result
        /\ \A l \in Lane : Placed(l) /\ Running(l) /\ Told(l)
    BY DEF LanesInv, Types
  <1>1. ASSUME staging' = staging, exec' = exec, csumOk' = csumOk, pledgeOk' = pledgeOk,
               cpc' = cpc, result' = result, poison => poison'
        PROVE  Settled' /\ result' \in Result
    <2>1. Calm' = Calm /\ (Serial(result) => Serial(result)')
      BY <1>1, SerialKept
    <2> QED
      BY <1>0, <1>1, <2>1 DEF Settled
  <1>2. CASE CallerStep
    <2>0. /\ staging' = staging /\ exec' = exec /\ csumOk' = csumOk /\ pledgeOk' = pledgeOk
          /\ poison' = poison
      BY <1>2, CallerMoves
    <2>1. Calm' = Calm
      BY <2>0 DEF Calm
    <2>2. ASSUME NEW r \in Result, result' = r, Calm => Serial(r),
                 r.kind = "sentinel" => cpc' # "done" /\ poison
          PROVE  Settled' /\ result' \in Result
      <3>1. Serial(r) => Serial(result)'
        BY <2>0, <2>2, SerialKept
      <3> QED
        BY <2>0, <2>1, <2>2, <3>1 DEF Settled
    <2>3. CASE LeaseLanes
      BY <1>0, <2>3 DEF LeaseLanes, Settled
    <2>4. CASE ResolveStops
      <3>1. poison
        BY <1>0, <2>4 DEF ResolveStops, Stop, Control
      <3>2. ~Calm /\ result' = [kind |-> "sentinel", at |-> 0] /\ cpc' = "joinLanes"
        BY <1>0, <2>4, <3>1 DEF ResolveStops, Staged
      <3>3. [kind |-> "sentinel", at |-> 0] \in Result
        BY DEF Result
      <3> QED
        BY <2>2, <3>1, <3>2, <3>3
    <2>5. CASE Collect
      <3>1. Recorded
        BY <1>0, <2>5 DEF Collect, Control, Recorded
      <3>2. result' = Collected /\ cpc' = "drop"
        BY <2>5 DEF Collect
      <3>3. /\ Collected \in Result
            /\ Calm => Serial(Collected)
            /\ Collected.kind = "sentinel" => poison
        BY <3>1, CollectedIs
      <3> QED
        BY <2>2, <3>2, <3>3
    <2>6. CASE Unwind
      <3>1. ~Calm
        <4>1. 0 \in Lane
          BY DEF Lane, MtFramesAssumption
        <4> QED
          BY <1>0, <2>6, <4>1 DEF Unwind, Running
      <3>2. result' = [kind |-> "panic", at |-> 0] /\ [kind |-> "panic", at |-> 0] \in Result
        BY <2>6 DEF Unwind, Result
      <3> QED
        BY <2>2, <3>1, <3>2
    <2>7. CASE DropLanes \/ JoinLanes
      <3>1. /\ cpc \in {"drop", "joinLanes"} /\ cpc' \in {"joinLanes", "join"} /\ result' = result
        BY <2>7 DEF DropLanes, JoinLanes
      <3> QED
        BY <1>0, <2>2, <3>1 DEF Settled
    <2>8. CASE Join
      <3>1. cpc = "join" /\ cpc' = "done" /\ result' = IF poison THEN [kind |-> "panic", at |-> 0] ELSE result
        BY <2>8 DEF Join
      <3>2. CASE poison
        <4>1. ~Calm /\ [kind |-> "panic", at |-> 0] \in Result
          BY <1>0, <3>2 DEF Staged, Result
        <4> QED
          BY <2>2, <3>1, <3>2, <4>1
      <3>3. CASE ~poison
        BY <1>0, <2>2, <3>1, <3>3 DEF Settled
      <3> QED
        BY <3>2, <3>3
    <2> QED
      BY <1>2, <2>3, <2>4, <2>5, <2>6, <2>7, <2>8 DEF CallerStep
  <1>3. ASSUME NEW w \in Worker, ServeStageA(w) PROVE Settled' /\ result' \in Result
    <2>1. /\ WorkerStep(w) /\ exec' = exec /\ csumOk' = csumOk /\ pledgeOk' = pledgeOk /\ cpc' = cpc
          /\ result' = result
      BY <1>3 DEF ServeStageA, input
    <2>2. staging' = staging /\ (poison => poison')
      BY <1>0, <2>1, WorkerMoves
    <2> QED
      BY <1>1, <2>1, <2>2
  <1>4. ASSUME NEW l \in Lane, LaneStep(l) PROVE Settled' /\ result' \in Result
    <2>1. /\ staging' = staging /\ exec' = exec /\ csumOk' = csumOk /\ pledgeOk' = pledgeOk
          /\ cpc' = cpc /\ result' = result /\ (poison => poison')
      BY <1>0, <1>4, OtherLanes
    <2> QED
      BY <1>1, <2>1
  <1> QED
    BY <1>2, <1>3, <1>4 DEF Next

LEMMA TypesStep ==
    ASSUME MtFramesAssumption, ConsecutiveLanes, LanesInv, Next
    PROVE  Types'
  <1>0. Types /\ \A l \in Lane : Placed(l) /\ Running(l)
    BY DEF LanesInv
  <1>1. CASE CallerStep
    <2>1. result' \in Result
      BY SettledStep
    <2>2. abort' \in BOOLEAN /\ waiting' \subseteq Lane
      BY <1>0, <1>1, CallerMoves DEF Types
    <2>3. cpc' \in {"resolve", "run", "drop", "joinLanes", "join", "done"}
      BY <1>1 DEF CallerStep, LeaseLanes, ResolveStops, Collect, Unwind, DropLanes, JoinLanes, Join
    <2>4. lpc' \in [Lane -> {"unleased", "base", "take", "unstaged", "exec", "finish",
                             "poisoned", "recorded", "unwound", "left"}]
      <3>1. CASE LeaseLanes
        BY <3>1 DEF LeaseLanes
      <3> QED
        BY <1>0, <1>1, <3>1, CallerMoves DEF Types
    <2> QED
      BY <1>0, <1>1, <2>1, <2>2, <2>3, <2>4, CallerMoves DEF Types
  <1>2. ASSUME NEW w \in Worker, ServeStageA(w) PROVE Types'
    BY <1>0, <1>2, WorkerTypes
  <1>3. ASSUME NEW l \in Lane, LaneStep(l) PROVE Types'
    BY <1>0, <1>3, LaneTypes
  <1> QED
    BY <1>1, <1>2, <1>3 DEF Next

-----------------------------------------------------------------------------
(* The invariant holds at first, and after every step.                     *)
LEMMA LanesInit ==
    ASSUME MtFramesAssumption, Init
    PROVE  LanesInv
  <1> USE DEF Init, StageInit
  <1>1. Types
    <2>1. 0 \in Seg /\ 0 \in 0 .. N
      BY Segments
    <2>2. [kind |-> "none", at |-> 0] \in Outcome /\ [kind |-> "none", at |-> 0] \in Result
      BY DEF Outcome, Result
    <2>3. outcome \in [Lane -> Outcome]
      BY <2>2 DEF NoOutcome
    <2>4. /\ slots \in [Seg -> SlotValue] /\ published \in [Seg -> {"none", "size", "err"}]
          /\ wpc \in [Worker -> {"top", "claim", "gate", "stage", "fill", "notify", "left"}]
          /\ job \in [Worker -> Seg]
      BY <2>1 DEF SlotValue
    <2>5. /\ lpc \in [Lane -> {"unleased", "base", "take", "unstaged", "exec", "finish",
                               "poisoned", "recorded", "unwound", "left"}]
          /\ probe \in [Lane -> 0 .. N] /\ next \in [Lane -> 0 .. N] /\ end \in [Lane -> Nat]
          /\ wroteAt \in [Seg -> Nat \union {-1}]
      BY <2>1
    <2> QED
      BY <2>2, <2>3, <2>4, <2>5 DEF Types
  <1>2. Counted
    <2>1. {s \in Seg : wroteAt[s] # -1} = {}
      OBVIOUS
    <2> QED
      BY <2>1, FS_EmptySet DEF Counted
  <1>3. Staged
    BY DEF Staged
  <1>4. ASSUME NEW l \in Lane PROVE Placed(l) /\ Running(l) /\ Told(l)
    <2>1. First(l) \in Nat /\ Pos[0] = 0 /\ 0 \in Nat /\ LaneSegs(l) \subseteq Seg /\ Seg \subseteq Nat
      BY FirstIs, Segments DEF MtFramesAssumption, LaneSegs
    <2>2. probe[l] = 0 /\ next[l] = 0 /\ end[l] = 0 /\ lpc[l] = "unleased" /\ outcome[l] = NoOutcome
      OBVIOUS
    <2>3. Placed(l)
      <3>1. \A s \in LaneSegs(l) : wroteAt[s] = -1 /\ ~(s < 0)
        <4> SUFFICES ASSUME NEW s \in LaneSegs(l) PROVE wroteAt[s] = -1 /\ ~(s < 0)
          OBVIOUS
        <4>1. s \in Seg /\ s \in Nat
          BY <2>1
        <4>2. wroteAt[s] = -1
          BY <4>1
        <4>3. ~(s < 0)
          <5> HIDE DEF Init, StageInit
          <5> QED
            BY <4>1
        <4> QED
          BY <4>2, <4>3
      <3>2. \A t \in Seg : ~(t < 0)
        BY <2>1
      <3> QED
        BY <2>1, <2>2, <3>1, <3>2 DEF Placed
    <2> QED
      BY <2>2, <2>3 DEF Running, Told, NoOutcome
  <1>5. Control /\ Settled
    BY DEF Control, Settled
  <1> QED
    BY <1>1, <1>2, <1>3, <1>4, <1>5 DEF LanesInv

LEMMA LanesStep ==
    ASSUME MtFramesAssumption, ConsecutiveLanes, LanesInv, Next
    PROVE  LanesInv'
  <1>1. ASSUME NEW k \in Lane PROVE Placed(k)' /\ Running(k)' /\ Told(k)'
    BY LaneKeeps, CallerKeeps, WorkerKeeps DEF Next
  <1> QED
    BY <1>1, TypesStep, CountedStep, StagedStep, ControlStep, SettledStep DEF LanesInv

LEMMA LanesStutter == LanesInv /\ UNCHANGED vars => LanesInv'
  <1> SUFFICES ASSUME LanesInv, UNCHANGED vars PROVE LanesInv'
    OBVIOUS
  <1> USE DEF vars, stageVars, input, laneVars
  <1>1. Types' /\ Counted' /\ Staged'
    BY DEF LanesInv, Types, Counted, Staged, Calm
  <1>2. ASSUME NEW k \in Lane PROVE Placed(k)' /\ Running(k)' /\ Told(k)'
    BY LaneKept DEF LanesInv
  <1>3. Control'
    BY DEF LanesInv, Control
  <1>4. Settled'
    <2>1. Calm' = Calm /\ (Serial(result) => Serial(result)')
      BY SerialKept
    <2> QED
      BY <2>1 DEF LanesInv, Settled
  <1> QED
    BY <1>1, <1>2, <1>3, <1>4 DEF LanesInv

-----------------------------------------------------------------------------
(* What the invariant implies: the properties of the lanes.               *)

(* What the invariant says of the properties.                              *)
LEMMA LanesImply ==
    ASSUME MtFramesAssumption, ConsecutiveLanes, LanesInv
    PROVE  TypeOK /\ InPlace /\ WithinPlaced /\ SerialOutcome /\ SentinelHidden /\ LanesOutlived
  <1>0. /\ Types /\ Counted /\ Staged /\ Control /\ Settled
        /\ \A l \in Lane : Placed(l) /\ Running(l) /\ Told(l)
    BY DEF LanesInv
  <1>1. TypeOK
    <2> DEFINE E == {s \in Seg : wroteAt[s] # -1}
    <2>1. IsFiniteSet(Seg) /\ Cardinality(Seg) = N /\ E \subseteq Seg
      BY SegFinite
    <2>2. IsFiniteSet(E) /\ Cardinality(E) <= Cardinality(Seg)
      BY <2>1, FS_Subset
    <2>3. Cardinality(E) \in Nat
      BY <2>2, FS_CardinalityType
    <2>4. executed \in 0 .. N
      BY <1>0, <2>1, <2>2, <2>3, Segments DEF Counted
    <2> QED
      BY <1>0, <2>4 DEF Types, TypeOK, StageTypeOK
  <1>2. ASSUME NEW s \in Seg, wroteAt[s] # -1
        PROVE  /\ wroteAt[s] = Pos[s]
               /\ \E l \in Lane : s \in LaneSegs(l) /\ s < next[l]
    <2>1. PICK l \in Lane : s \in LaneSegs(l)
      BY OneLane
    <2>2. next[l] \in Nat /\ s \in Nat
      BY <1>0, Segments DEF Types
    <2>3. s < next[l]
      BY <1>0, <1>2, <2>1, <2>2 DEF Placed
    <2> QED
      BY <1>0, <2>1, <2>3 DEF Placed
  <1>3. InPlace
    BY <1>2 DEF InPlace, Executed
  <1>4. WithinPlaced
    <2> SUFFICES ASSUME Deferred, NEW s \in Seg, NEW t \in Seg, wroteAt[s] # -1
                 PROVE  /\ published[t] # "none"
                        /\ published[t] = "err" => wroteAt[s] + Size(s) <= Pos[t]
      BY DEF WithinPlaced, Executed
    <2>1. PICK l \in Lane : s \in LaneSegs(l) /\ s < next[l]
      BY <1>2
    <2>2. next[l] # 0 /\ next[l] \in Nat /\ s \in Nat /\ t \in Nat
      BY <1>0, <2>1, Segments DEF Types
    <2>3. lpc[l] # "unleased"
      BY <1>0, <2>2 DEF Running
    <2>4. published[t] # "none"
      BY <1>0, <2>3 DEF Control
    <2>5. ASSUME published[t] = "err" PROVE wroteAt[s] + Size(s) <= Pos[t]
      <3>1. staging[t] = "err"
        BY <1>0, <2>5 DEF Staged
      <3>2. ~(t < First(l))
        BY <1>0, <2>2, <2>5 DEF Placed
      <3>3. ~(t <= s)
        <4> SUFFICES ASSUME t <= s PROVE FALSE
          OBVIOUS
        <4>1. First(l) \in LaneSegs(l) /\ First(l) <= t
          BY <2>1, <2>2, <3>2, FirstIs, Segments
        <4>2. t \in LaneSegs(l)
          BY <2>1, <4>1, Between
        <4>3. t < next[l]
          BY <2>1, <2>2
        <4> QED
          BY <1>0, <3>1, <4>2, <4>3 DEF Placed
      <3>4. s \in 0 .. N /\ s + 1 \in 0 .. N /\ t \in 0 .. N /\ s + 1 <= t
        BY <2>2, <3>3, Segments
      <3>5. Pos[s] \in Nat /\ Pos[s + 1] \in Nat /\ Pos[t] \in Nat /\ Pos[s + 1] <= Pos[t]
        BY <3>4, PosAscends
      <3>6. wroteAt[s] + Size(s) = Pos[s + 1]
        BY <1>2, <3>5 DEF Size
      <3> QED
        BY <3>5, <3>6
    <2> QED
      BY <2>4, <2>5
  <1>5. SerialOutcome
    BY <1>0 DEF Settled, Serial, SerialOutcome
  <1>6. SentinelHidden
    BY <1>0 DEF Settled, SentinelHidden
  <1>7. LanesOutlived
    BY <1>0 DEF Control, LanesOutlived
  <1> QED
    BY <1>1, <1>3, <1>4, <1>5, <1>6, <1>7

-----------------------------------------------------------------------------
(* The frame lanes keep their invariant, for lanes of consecutive frames.  *)
THEOREM LanesCorrect ==
    ASSUME MtFramesAssumption, ConsecutiveLanes
    PROVE  Spec => []LanesInv
  <1>1. Init => LanesInv
    BY LanesInit
  <1>2. LanesInv /\ [Next]_vars => LanesInv'
    BY LanesStep, LanesStutter
  <1> QED
    BY <1>1, <1>2, PTL DEF Spec

(* Every variable of the frame lanes keeps its type, and no more segments  *)
(* count as executed than there are.                                       *)
THEOREM LanesTypeCorrect ==
    ASSUME MtFramesAssumption, ConsecutiveLanes
    PROVE  Spec => []TypeOK
  <1>1. LanesInv => TypeOK
    BY LanesImply
  <1> QED
    BY <1>1, LanesCorrect, PTL

(* Every segment a lane executes lands where the serial executor puts it,  *)
(* however many lanes there are and whatever fails (run_lane,              *)
(* Place::resolve).                                                        *)
THEOREM InPlaceSafe ==
    ASSUME MtFramesAssumption, ConsecutiveLanes
    PROVE  Spec => []InPlace
  <1>1. LanesInv => InPlace
    BY LanesImply
  <1> QED
    BY <1>1, LanesCorrect, PTL

(* Without a panic the lanes return what the serial executor would: the    *)
(* failure of the first segment that fails, else the checksum mismatch of  *)
(* the first frame, else the lengths against the pledges.                  *)
THEOREM SerialSafe ==
    ASSUME MtFramesAssumption, ConsecutiveLanes
    PROVE  Spec => []SerialOutcome
  <1>1. LanesInv => SerialOutcome
    BY LanesImply
  <1> QED
    BY <1>1, LanesCorrect, PTL

(* The error that a panicking worker or an aborted lane leaves behind is   *)
(* never what the call returns.                                            *)
THEOREM LaneSentinelSafe ==
    ASSUME MtFramesAssumption, ConsecutiveLanes
    PROVE  Spec => []SentinelHidden
  <1>1. LanesInv => SentinelHidden
    BY LanesImply
  <1> QED
    BY <1>1, LanesCorrect, PTL

(* However a decode ends, it returns only when every worker and every      *)
(* leased lane has left the job.                                           *)
THEOREM LanesLeft ==
    ASSUME MtFramesAssumption, ConsecutiveLanes
    PROVE  Spec => []LanesOutlived
  <1>1. LanesInv => LanesOutlived
    BY LanesImply
  <1> QED
    BY <1>1, LanesCorrect, PTL

(* An output that grows is placed before it is written, and never written  *)
(* from a segment that failed staging on.                                  *)
THEOREM PlacedSafe ==
    ASSUME MtFramesAssumption, ConsecutiveLanes
    PROVE  Spec => []WithinPlaced
  <1>1. LanesInv => WithinPlaced
    BY LanesImply
  <1> QED
    BY <1>1, LanesCorrect, PTL
=============================================================================
