---------------------------- MODULE BulkMtProofs -----------------------------
(***************************************************************************)
(* Proofs about BulkMt, for every set of workers, every frame and every    *)
(* size of the layout's constants: the layout covers the input with jobs   *)
(* (LayoutCovers), each job is encoded once, behind the history that the   *)
(* frame alone decides, and the assembly appends what the jobs came to or  *)
(* resumes the panic that it has seen (BulkInv).                           *)
(***************************************************************************)
EXTENDS BulkMt, NaturalLemmas, SequenceTheorems, TLAPS

-----------------------------------------------------------------------------
(* The layout.                                                             *)

Plans == [kind : {"none", "selffill", "whole", "windowed"}, med : Nat, stop : Nat, cadence : Nat]

Gates == [choice : JobChoices, donated : BOOLEAN, plan : Plans, prefix : BOOLEAN]

(* A plan belongs to a frame of the chain or the fast row.                  *)
Shares(f) == f.row \in {"chain", "fast"}

LEMMA StripTyped ==
    ASSUME BulkGridAssumption, NEW f \in FrameInputs, NEW c \in JobChoices
    PROVE  StripForChoice(f, c) \in Nat
  BY DEF BulkGridAssumption, FrameInputs, StripForChoice, JobChoices

(* A quotient rounded up covers, and no smaller one does.                   *)
LEMMA CeilDivCovers ==
    ASSUME NEW a \in Nat \ {0}, NEW b \in Nat \ {0}
    PROVE  /\ CeilDiv(a, b) \in Nat \ {0}
           /\ (CeilDiv(a, b) - 1) * b < a
           /\ a <= CeilDiv(a, b) * b
  <1> DEFINE q == (a + b - 1) \div b
  <1>1. a + b - 1 \in Nat /\ b \in Nat /\ b > 0 /\ a > 0
    OBVIOUS
  <1>2. q \in Nat /\ b * q <= a + b - 1 /\ a + b - 1 < b * q + b
    BY <1>1, Division
  <1> HIDE DEF q
  <1>3. q # 0
    <2> SUFFICES ASSUME q = 0 PROVE FALSE
      OBVIOUS
    <2>1. b * q = 0
      BY Z3
    <2> QED
      BY <1>1, <1>2, <2>1
  <1>4. (q - 1) * b = b * q - b /\ q * b = b * q
    BY <1>2, Z3
  <1>5. CeilDiv(a, b) = q
    BY DEF CeilDiv, q
  <1>6. b * q \in Nat
    BY <1>2, Z3
  <1> QED
    BY <1>1, <1>2, <1>3, <1>4, <1>5, <1>6

(* Both job size formulas give a size.                                      *)
LEMMA JobSizeTyped ==
    ASSUME BulkGridAssumption, NEW f \in FrameInputs, NEW c \in JobChoices
    PROVE  /\ f.workers > 0 =>
                JobSizeFor(f.len, f.workers, StripForChoice(f, c)) \in Nat \ {0}
           /\ JobSizeFor(f.len, Max2(f.workers, 2), StripForChoice(f, c)) \in Nat \ {0}
           /\ CaptureJobSize(f.len, StripForChoice(f, c)) \in Nat \ {0}
           /\ f.workers > 0 => JobSizeForLevel(f, StripForChoice(f, c)) \in Nat \ {0}
  <1> DEFINE s == StripForChoice(f, c)
  <1>1. s \in Nat /\ f.len \in Nat \ {0} /\ f.workers \in Nat
    BY StripTyped DEF FrameInputs
  <1>2. /\ MinJobSize \in Nat \ {0} /\ MaxJobSize \in Nat \ {0} /\ CaptureJobCap \in Nat \ {0}
    BY DEF BulkGridAssumption
  <1> HIDE DEF s
  <1>3. \A w \in Nat \ {0} : JobSizeFor(f.len, w, s) \in Nat \ {0}
    <2> SUFFICES ASSUME NEW w \in Nat \ {0} PROVE JobSizeFor(f.len, w, s) \in Nat \ {0}
      OBVIOUS
    <2> DEFINE d == CeilDiv(f.len, 2 * w)
    <2>1. JobSizeFor(f.len, w, s) = Min2(Max2(d, Max2(MinJobSize, s)), MaxJobSize)
      BY <1>1 DEF JobSizeFor
    <2>2. d \in Nat
      <3>1. 2 * w \in Nat \ {0}
        OBVIOUS
      <3> QED
        BY <1>1, <3>1, CeilDivCovers
    <2> HIDE DEF d
    <2> QED
      BY <1>1, <1>2, <2>1, <2>2 DEF Min2, Max2
  <1>4. CaptureJobSize(f.len, s) \in Nat \ {0}
    <2> DEFINE d == CeilDiv(f.len, 8)
    <2>1. CaptureJobSize(f.len, s) = Clamp(d, Min2(Max2(MinJobSize, s), CaptureJobCap), CaptureJobCap)
      BY <1>1 DEF CaptureJobSize
    <2>2. d \in Nat
      BY <1>1, CeilDivCovers
    <2> HIDE DEF d
    <2> QED
      BY <1>1, <1>2, <2>1, <2>2 DEF Min2, Max2, Clamp
  <1>5. BtlazyJobSize(s) \in Nat \ {0}
    BY <1>1, <1>2 DEF BtlazyJobSize, Clamp, Min2, Max2
  <1>6. Max2(f.workers, 2) \in Nat \ {0}
    BY <1>1 DEF Max2
  <1>7. f.workers > 0 => JobSizeForLevel(f, s) \in Nat \ {0}
    BY <1>1, <1>3, <1>5 DEF JobSizeForLevel
  <1> QED
    BY <1>1, <1>3, <1>4, <1>6, <1>7 DEF s

LEMMA WindowsTyped ==
    ASSUME BulkGridAssumption, NEW f \in FrameInputs, NEW c \in JobChoices, NEW row \in Rows
    PROVE  /\ RowWindow(f, row, c) \in Nat
           /\ RowWindow(f, row, c) # 0 => f.row = row
           /\ FastWindow(f) \in Nat
           /\ FastWindow(f) # 0 => f.row = "fast"
           /\ CaptureBand(f, c).window \in Nat
           /\ CaptureBand(f, c).class \in {"none", "fast", "midsize", "windowed"}
           /\ CaptureBand(f, c) = NoBand <=> CaptureBand(f, c).class = "none"
           /\ CaptureBand(f, c) # NoBand => Shares(f)
  <1>1. /\ f.window \in Nat /\ LdmFullWindow \in Nat /\ f.row \in Rows
    BY DEF FrameInputs, BulkGridAssumption
  <1>2. \A r \in Rows : RowWindow(f, r, c) \in Nat /\ (RowWindow(f, r, c) # 0 => f.row = r)
    BY <1>1 DEF RowWindow
  <1>3. FastWindow(f) \in Nat /\ (FastWindow(f) # 0 => f.row = "fast")
    BY <1>1 DEF FastWindow
  <1> DEFINE band == CaptureBand(f, c)
             fast == FastWindow(f)
             window == Max2(RowWindow(f, "chain", c), fast)
             class == IF fast # 0 THEN "fast"
                      ELSE IF window >= LdmFullWindow THEN "windowed" ELSE "midsize"
  <1>4. window \in Nat /\ (window # 0 => Shares(f))
    BY <1>2, <1>3 DEF Max2, Rows, Shares
  <1>5. band = NoBand \/ (band = [class |-> class, window |-> window] /\ window # 0)
    BY DEF CaptureBand
  <1>6. class \in {"fast", "midsize", "windowed"}
    OBVIOUS
  <1> HIDE DEF band, window, class
  <1>7. NoBand.class = "none" /\ NoBand.window = 0
    BY DEF NoBand
  <1>8. band.class \in {"none", "fast", "midsize", "windowed"} /\ band.window \in Nat
    BY <1>4, <1>5, <1>6, <1>7
  <1>9. band = NoBand <=> band.class = "none"
    BY <1>5, <1>6, <1>7
  <1> QED
    BY <1>2, <1>3, <1>4, <1>5, <1>8, <1>9 DEF band

LEMMA PlanTyped ==
    ASSUME BulkGridAssumption, NEW f \in FrameInputs, NEW c \in JobChoices, NEW size \in Nat \ {0}
    PROVE  /\ PlanPrefixLdm(f, c, size) \in Plans
           /\ PlanPrefixLdm(f, c, size).kind # "none" => Shares(f)
           /\ PlanPrefixLdm(f, c, size) = NoPlan <=> PlanPrefixLdm(f, c, size).kind = "none"
  <1> DEFINE band == CaptureBand(f, c)
             n    == NJobs(f.len, size)
             last == PrefixLastJob(n, size, band.window)
             med  == Median(last, size)
             stop == (n - 1) * size
             plan == PlanPrefixLdm(f, c, size)
  <1>1. /\ band.window \in Nat /\ band.class \in {"none", "fast", "midsize", "windowed"}
        /\ band = NoBand <=> band.class = "none"
        /\ band # NoBand => Shares(f)
    BY WindowsTyped DEF Rows
  <1>2. n \in Nat \ {0}
    BY CeilDivCovers DEF FrameInputs, NJobs
  <1>3. stop \in Nat
    BY <1>2, Z3
  <1>4. last \in Nat
    <2>1. last = IF n > 1 /\ band.window \div size >= 1 THEN Min2(band.window \div size, n - 1) ELSE 0
      BY <1>1, <1>2 DEF PrefixLastJob
    <2>2. band.window \div size \in Nat
      BY <1>1, Division
    <2> QED
      BY <1>2, <2>1, <2>2 DEF Min2
  <1>5. med \in Nat
    <2>1. last \div 2 \in Nat
      BY <1>4
    <2> DEFINE h == last \div 2 + 1
    <2>2. h \in Nat
      BY <2>1
    <2> HIDE DEF h
    <2>3. h * size \in Nat
      BY <2>2, Z3
    <2> QED
      BY <2>3 DEF Median, h
  <1>6. SpfSeg \in Nat
    BY DEF BulkGridAssumption
  <1>7. Max2((stop - med) \div 12, SpfSeg) \in Nat
    <2>1. (stop - med) \div 12 \in Int
      BY <1>3, <1>5
    <2> QED
      BY <1>6, <2>1 DEF Max2
  <1>8. plan = IF band = NoBand \/ last = 0 THEN NoPlan
               ELSE CASE band.class = "fast"     -> [NoPlan EXCEPT !.kind = "selffill", !.med = med]
                      [] band.class = "midsize"  -> [NoPlan EXCEPT !.kind = "whole", !.med = med]
                      [] band.class = "windowed" ->
                           [kind |-> "windowed", med |-> med, stop |-> stop,
                            cadence |-> Max2((stop - med) \div 12, SpfSeg)]
    BY DEF PlanPrefixLdm
  <1> DEFINE cadence == Max2((stop - med) \div 12, SpfSeg)
  <1> HIDE DEF plan, band, last, med, stop, n, cadence
  <1>9. \/ plan = NoPlan
        \/ band # NoBand /\ plan = [NoPlan EXCEPT !.kind = "selffill", !.med = med]
        \/ band # NoBand /\ plan = [NoPlan EXCEPT !.kind = "whole", !.med = med]
        \/ band # NoBand /\ plan = [kind |-> "windowed", med |-> med, stop |-> stop, cadence |-> cadence]
    <2>1. CASE band = NoBand \/ last = 0
      BY <1>8, <2>1
    <2>2. CASE ~(band = NoBand \/ last = 0) /\ band.class = "fast"
      BY <1>8, <2>2
    <2>3. CASE ~(band = NoBand \/ last = 0) /\ band.class = "midsize"
      BY <1>8, <2>3
    <2>4. CASE ~(band = NoBand \/ last = 0) /\ band.class = "windowed"
      BY <1>8, <2>4 DEF cadence
    <2> QED
      BY <1>1, <2>1, <2>2, <2>3, <2>4
  <1>10. cadence \in Nat
    BY <1>7 DEF cadence
  <1>11. NoPlan \in Plans /\ NoPlan.kind = "none"
    BY DEF NoPlan, Plans
  <1>12. \A k \in {"selffill", "whole"} :
            /\ [NoPlan EXCEPT !.kind = k, !.med = med] \in Plans
            /\ [NoPlan EXCEPT !.kind = k, !.med = med].kind = k
    BY <1>5 DEF NoPlan, Plans
  <1>13. plan \in Plans /\ (plan.kind # "none" => band # NoBand) /\ (plan = NoPlan <=> plan.kind = "none")
    <2>1. CASE plan = NoPlan
      BY <1>11, <2>1
    <2>2. CASE band # NoBand /\ plan = [NoPlan EXCEPT !.kind = "selffill", !.med = med]
      BY <1>11, <1>12, <2>2
    <2>3. CASE band # NoBand /\ plan = [NoPlan EXCEPT !.kind = "whole", !.med = med]
      BY <1>11, <1>12, <2>3
    <2>4. CASE band # NoBand /\ plan = [kind |-> "windowed", med |-> med, stop |-> stop, cadence |-> cadence]
      <3>1. plan \in Plans /\ plan.kind = "windowed"
        BY <1>3, <1>5, <1>10, <2>4 DEF Plans
      <3> QED
        BY <1>11, <2>4, <3>1
    <2> QED
      BY <1>9, <2>1, <2>2, <2>3, <2>4
  <1> QED
    BY <1>1, <1>13 DEF plan

LEMMA GridTyped ==
    ASSUME BulkGridAssumption, NEW f \in FrameInputs, NEW c \in JobChoices, NEW plain \in Nat \ {0}
    PROVE  Grid(f, c, plain) \in Nat \ {0}
  <1>1. CaptureGrid(f, c) = 0 \/ CaptureGrid(f, c) = CaptureJobSize(f.len, StripForChoice(f, c))
    BY DEF CaptureGrid
  <1> QED
    BY <1>1, JobSizeTyped DEF Grid

LEMMA GateTyped ==
    ASSUME BulkGridAssumption, NEW f \in FrameInputs
    PROVE  /\ ReachGate(f) \in Gates
           /\ ReachGate(f).plan # NoPlan => Shares(f)
           /\ ReachGate(f).plan = NoPlan <=> ReachGate(f).plan.kind = "none"
  <1> DEFINE plain == JobSizeFor(f.len, Max2(f.workers, 2), StripForChoice(f, "keep"))
             keepJob == Grid(f, "keep", plain)
             plan == PlanPrefixLdm(f, "keep", keepJob)
             choice == IF f.wide THEN "keep" ELSE f.probe
  <1>1. "keep" \in JobChoices /\ f.probe \in JobChoices /\ f.wide \in BOOLEAN /\ f.dict \in BOOLEAN
    BY DEF JobChoices, FrameInputs
  <1>2. plain \in Nat \ {0}
    BY <1>1, JobSizeTyped
  <1>3. keepJob \in Nat \ {0}
    BY <1>1, <1>2, GridTyped
  <1>4. plan \in Plans /\ (plan.kind # "none" => Shares(f)) /\ (plan = NoPlan <=> plan.kind = "none")
    BY <1>1, <1>3, PlanTyped
  <1>5. ReachGate(f) =
          IF Gated(f)
          THEN [choice |-> choice, donated |-> ~f.wide /\ choice = "keep",
                plan |-> IF choice = "keep" THEN plan ELSE NoPlan, prefix |-> plan # NoPlan]
          ELSE [choice |-> IF ~f.dict /\ Eligible(f) THEN f.probe ELSE "keep",
                donated |-> FALSE, plan |-> NoPlan, prefix |-> FALSE]
    BY DEF ReachGate
  <1>6. NoPlan \in Plans /\ NoPlan.kind = "none"
    BY DEF NoPlan, Plans
  <1>7. choice \in JobChoices
    BY <1>1
  <1> DEFINE shared == IF choice = "keep" THEN plan ELSE NoPlan
             donated == ~f.wide /\ choice = "keep"
             prefix == plan # NoPlan
             other == IF ~f.dict /\ Eligible(f) THEN f.probe ELSE "keep"
  <1>8. /\ shared \in Plans /\ (shared # NoPlan => Shares(f))
        /\ (shared = NoPlan <=> shared.kind = "none")
    BY <1>4, <1>6
  <1>9. donated \in BOOLEAN /\ prefix \in BOOLEAN /\ other \in JobChoices
    BY <1>1
  <1> HIDE DEF plan, choice, shared, donated, prefix, other
  <1>10. CASE Gated(f)
    <2>1. ReachGate(f) = [choice |-> choice, donated |-> donated, plan |-> shared, prefix |-> prefix]
      BY <1>5, <1>10 DEF shared, donated, prefix
    <2> QED
      BY <1>7, <1>8, <1>9, <2>1 DEF Gates
  <1>11. CASE ~Gated(f)
    <2>1. ReachGate(f) = [choice |-> other, donated |-> FALSE, plan |-> NoPlan, prefix |-> FALSE]
      BY <1>5, <1>11 DEF other
    <2> QED
      BY <1>6, <1>9, <2>1 DEF Gates
  <1> QED
    BY <1>10, <1>11

(* The fields of a layout that the executor goes by.                        *)
LayoutTyped(l) ==
    /\ l.job \in Nat \ {0} /\ l.n \in Nat \ {0} /\ l.threads \in Nat \ {0}
    /\ l.plan \in Plans /\ (l.plan = NoPlan <=> l.plan.kind = "none")
    /\ l.deep \in BOOLEAN /\ l.feed \in Nat /\ l.strip \in Nat /\ l.donated \in BOOLEAN

(* The jobs of a layout cover the input, each of them with bytes of it, and *)
(* one long-distance class at most is engaged: a frame that shares a prefix *)
(* has neither deep jobs nor a feed (the plan_* functions and the bands of  *)
(* compress_slice_mt).                                                      *)
THEOREM LayoutCovers ==
    ASSUME BulkGridAssumption, NEW f \in FrameInputs, ~FallsBack(f)
    PROVE  LET l == Layout(f)
           IN  /\ LayoutTyped(l)
               /\ (l.n - 1) * l.job < f.len /\ f.len <= l.n * l.job
               /\ l.plan # NoPlan => l.feed = 0 /\ ~l.deep
               /\ l.deep => l.feed = 0
  <1> DEFINE chosen == ReachGate(f)
             size == Grid(f, chosen.choice, JobSizeForLevel(f, StripForChoice(f, chosen.choice)))
             n == NJobs(f.len, size)
             laid == LaidOut(f, chosen, size)
             plan == IF chosen.choice # "keep" THEN NoPlan
                     ELSE IF chosen.plan # NoPlan THEN chosen.plan
                     ELSE PlanPrefixLdm(f, chosen.choice, size)
             deep == DeepBand(f, chosen.choice)
             feed == FeedBand(f, chosen.choice, n)
  <1>1. Layout(f) = laid
    BY DEF Layout
  <1>2. chosen \in Gates /\ (chosen.plan # NoPlan => Shares(f)) /\ (chosen.plan = NoPlan <=> chosen.plan.kind = "none")
    BY GateTyped
  <1>3. chosen.choice \in JobChoices /\ chosen.plan \in Plans /\ chosen.donated \in BOOLEAN
    BY <1>2 DEF Gates
  <1>4. f.workers \in Nat /\ f.workers >= 2 /\ f.len \in Nat \ {0}
    BY DEF FallsBack, FrameInputs
  <1>5. size \in Nat \ {0}
    BY <1>3, <1>4, JobSizeTyped, GridTyped
  <1>6. n \in Nat \ {0} /\ (n - 1) * size < f.len /\ f.len <= n * size
    BY <1>4, <1>5, CeilDivCovers DEF NJobs
  <1>7. NoPlan \in Plans /\ NoPlan.kind = "none"
    BY DEF NoPlan, Plans
  <1>8. plan \in Plans /\ (plan # NoPlan => Shares(f)) /\ (plan = NoPlan <=> plan.kind = "none")
    BY <1>2, <1>3, <1>5, <1>7, PlanTyped
  <1>9. deep \in Nat /\ (deep # 0 => f.row = "btlazy")
    BY <1>3, WindowsTyped DEF DeepBand, Rows
  <1>10. feed \in Nat /\ (feed # 0 => f.row = "opt")
    BY <1>3, WindowsTyped DEF FeedBand, Rows
  <1>11. StripForChoice(f, chosen.choice) \in Nat
    BY <1>3, StripTyped
  <1>12. /\ laid.job = size /\ laid.n = n /\ laid.threads = Min2(f.workers, n) /\ laid.plan = plan
         /\ laid.deep = (deep # 0) /\ laid.feed = feed /\ laid.strip = StripForChoice(f, chosen.choice)
         /\ laid.donated = chosen.donated
    BY DEF LaidOut
  <1>13. Min2(f.workers, n) \in Nat \ {0}
    BY <1>4, <1>6 DEF Min2
  <1> HIDE DEF chosen, size, n, laid, plan, deep, feed
  <1>14. LayoutTyped(laid)
    BY <1>3, <1>5, <1>6, <1>8, <1>9, <1>10, <1>11, <1>12, <1>13 DEF LayoutTyped
  <1>15. Shares(f) => f.row # "btlazy" /\ f.row # "opt"
    BY DEF Shares
  <1>16. laid.plan # NoPlan => laid.feed = 0 /\ ~laid.deep
    BY <1>8, <1>9, <1>10, <1>12, <1>15
  <1> QED
    BY <1>1, <1>6, <1>9, <1>10, <1>12, <1>14, <1>16

-----------------------------------------------------------------------------
(* The invariant.                                                          *)

(* A worker that has a job whose slot it has not filled.                    *)
Busy(w) == pc[w] \in {"history", "holdShare", "encode", "abandon", "release"}

Histories == {[kind |-> "none"]} \cup {HistoryDue(id) : id \in Job}
Bytes == {Pending, Empty} \cup {Reference(id) : id \in Job}

BulkTypeOK ==
    /\ frame \in Frames /\ layout = Layout(frame.in)
    /\ nextJob \in Nat
    /\ slots \in [Job -> Bytes]
    /\ poison \in {NoOne, frame.panics}
    /\ donation \in BOOLEAN
    /\ share \in {NoBuild, [built |-> TRUE, upto |-> BuildPrefix]}
    /\ publishes \in Seq(Nat) /\ chainDone \in BOOLEAN
    /\ gate \in [published : Nat, panicked : BOOLEAN]
    /\ waiting \subseteq Threads
    /\ pc \in [Threads -> {"build", "assemble", "holdSlot", "returned", "feed", "feedPanicked", "left",
                           "top", "claim", "history", "holdShare", "encode", "abandon", "release"}]
    /\ pc[Caller] \in {"build", "assemble", "holdSlot", "returned"}
    /\ pc[Feeder] \in {"feed", "feedPanicked", "left"}
    /\ job \in [Worker -> Nat]
    /\ history \in [Worker -> Histories]
    /\ asm \in 0 .. layout.n
    /\ output \in Seq(Bytes) /\ Len(output) = asm
    /\ res \in {"none", "frame", "panic"}

(* A claimed job is one worker's, and its slot is open until it is done.    *)
Claimed ==
    /\ \A w \in Worker : Busy(w) => job[w] \in Job /\ job[w] < nextJob /\ slots[job[w]] = Pending
    /\ \A w, v \in Worker : Busy(w) /\ Busy(v) /\ w # v => job[w] # job[v]
    /\ \A id \in Job : id >= nextJob => slots[id] = Pending

(* A worker encodes behind the history its job is due.                      *)
Started ==
    \A w \in Worker, id \in Job : pc[w] = "encode" /\ job[w] = id => history[w] = HistoryDue(id)

(* The donated span is there until job zero takes it.                       *)
Donated ==
    /\ nextJob = 0 => donation = layout.donated
    /\ \A w \in Worker :
        pc[w] \in {"history", "holdShare", "encode"} /\ job[w] = 0 => donation = layout.donated

Filled ==
    \A id \in Job :
        /\ slots[id] \in {Pending, Empty, Reference(id)}
        /\ slots[id] = Empty => Poisoned
        /\ id = frame.panics => slots[id] # Reference(id)

(* What gives up has seen poison, and poison stays.                         *)
Poison ==
    /\ \A w \in Worker : pc[w] \in {"abandon", "release"} => Poisoned
    /\ gate.panicked => Poisoned
    /\ pc[Feeder] = "feedPanicked" => Poisoned
    /\ frame.panics = FeedPass /\ pc[Feeder] # "feed" => Poisoned

Appended ==
    \A i \in 1 .. asm : \/ output[i] = Reference(i - 1) /\ i - 1 # frame.panics
                        \/ output[i] = Empty /\ Poisoned

Ended == pc[Caller] = "returned" =>
            asm = layout.n /\ res = (IF frame.panics = NoOne THEN "frame" ELSE "panic")

BulkInv == BulkTypeOK /\ Claimed /\ Started /\ Donated /\ Filled /\ Poison /\ Appended /\ Ended

-----------------------------------------------------------------------------
(* What the steps leave alone.                                             *)

(* The step of a worker.                                                    *)
LEMMA WorkerChanges ==
    ASSUME NEW w \in Worker, WorkerStep(w), BulkTypeOK
    PROVE  /\ UNCHANGED <<inputVars, share, publishes, chainDone, gate, asm, output, res>>
           /\ \A t \in Threads : t # w => pc'[t] = pc[t]
           /\ pc'[w] \in {"left", "claim", "history", "encode", "abandon", "holdShare", "top", "release"}
           /\ pc' = [pc EXCEPT ![w] = pc'[w]]
           /\ waiting' \subseteq waiting \cup {w}
  <1>0. w \in Threads /\ pc = [t \in Threads |-> pc[t]]
    BY DEF Threads, BulkTypeOK
  <1> USE <1>0 DEF Goto, NotifyAll, inputVars, buildVars, callerVars
  <1>1. CASE CheckPoison(w)
    BY <1>1 DEF CheckPoison
  <1>2. CASE Claim(w)
    BY <1>2 DEF Claim
  <1>3. CASE OwnHistory(w)
    BY <1>3 DEF OwnHistory, Obtain
  <1>4. CASE TakeFeedSpan(w)
    BY <1>4 DEF TakeFeedSpan, Obtain, Awake
  <1>5. CASE WaitPrefixBuild(w)
    BY <1>5 DEF WaitPrefixBuild, Obtain
  <1>6. CASE WaitLdmSnapshot(w)
    BY <1>6 DEF WaitLdmSnapshot, Obtain
  <1>7. CASE WaitShare(w)
    BY <1>7 DEF WaitShare
  <1>8. CASE Abandon(w)
    BY <1>8 DEF Abandon
  <1>9. CASE Encode(w)
    BY <1>9 DEF Encode
  <1>10. CASE Panic(w)
    BY <1>10 DEF Panic
  <1>11. CASE Release(w)
    BY <1>11 DEF Release
  <1> QED
    BY <1>1, <1>2, <1>3, <1>4, <1>5, <1>6, <1>7, <1>8, <1>9, <1>10, <1>11 DEF WorkerStep

LEMMA FeedChanges ==
    ASSUME FeedStep, BulkTypeOK
    PROVE  /\ UNCHANGED <<inputVars, nextJob, slots, donation, buildVars, job, history, callerVars>>
           /\ \A t \in Threads : t # Feeder => pc'[t] = pc[t]
           /\ pc'[Feeder] \in {"feed", "feedPanicked", "left"}
           /\ pc' = [pc EXCEPT ![Feeder] = pc'[Feeder]]
           /\ waiting' \subseteq waiting
           /\ pc[Feeder] \in {"feed", "feedPanicked"}
  <1>0. Feeder \in Threads /\ pc = [t \in Threads |-> pc[t]]
    BY DEF Threads, BulkTypeOK
  <1> USE <1>0 DEF Goto, NotifyAll, inputVars, buildVars, callerVars
  <1>1. CASE Publish
    BY <1>1 DEF Publish
  <1>2. CASE FeedEnds
    BY <1>2 DEF FeedEnds
  <1>3. CASE FeedPanics
    BY <1>3 DEF FeedPanics
  <1>4. CASE MarkFeed
    BY <1>4 DEF MarkFeed
  <1> QED
    BY <1>1, <1>2, <1>3, <1>4 DEF FeedStep

LEMMA CallerChanges ==
    ASSUME CallerStep, BulkTypeOK
    PROVE  /\ UNCHANGED <<inputVars, nextJob, slots, poison, donation, gate, job, history>>
           /\ \A t \in Threads : t # Caller => pc'[t] = pc[t]
           /\ pc'[Caller] \in {"build", "assemble", "holdSlot", "returned"}
           /\ pc' = [pc EXCEPT ![Caller] = pc'[Caller]]
           /\ waiting' \subseteq waiting \cup {Caller}
  <1>0. Caller \in Threads /\ pc = [t \in Threads |-> pc[t]]
    BY DEF Threads, BulkTypeOK
  <1> USE <1>0 DEF Goto, NotifyAll, inputVars, buildVars, callerVars, At, Awake
  <1>1. CASE BuildWhole
    BY <1>1 DEF BuildWhole
  <1>2. CASE BuildChain
    BY <1>2 DEF BuildChain
  <1>3. CASE ChainEnds
    BY <1>3 DEF ChainEnds
  <1>4. CASE NoBuildNeeded
    BY <1>4 DEF NoBuildNeeded
  <1>5. CASE Take
    BY <1>5 DEF Take
  <1>6. CASE Await
    BY <1>6 DEF Await
  <1>7. CASE WaitSlot
    BY <1>7 DEF WaitSlot
  <1>8. CASE Return
    BY <1>8 DEF Return
  <1> QED
    BY <1>1, <1>2, <1>3, <1>4, <1>5, <1>6, <1>7, <1>8 DEF CallerStep

(* What is a function of the frame and its layout stays.                    *)
LEMMA InputsFixed ==
    ASSUME UNCHANGED inputVars
    PROVE  /\ Job' = Job /\ Plan' = Plan /\ BuildPrefix' = BuildPrefix /\ Feeds' = Feeds
           /\ \A id \in Job : /\ Start(id)' = Start(id) /\ End(id)' = End(id)
                              /\ HistoryDue(id)' = HistoryDue(id)
                              /\ Reference(id)' = Reference(id)
           /\ Histories' = Histories /\ Bytes' = Bytes
  <1>1. frame' = frame /\ layout' = layout
    BY DEF inputVars
  <1>2. Job' = Job /\ Plan' = Plan /\ Feeds' = Feeds
    BY <1>1 DEF Job, Plan, Feeds
  <1>3. BuildPrefix' = BuildPrefix
    BY <1>1 DEF BuildPrefix, Plan
  <1>4. \A id \in Job : Start(id)' = Start(id) /\ End(id)' = End(id)
    BY <1>1 DEF Start, End
  <1>5. \A id \in Job : FeedSpan(id, frame.in.len)' = FeedSpan(id, frame.in.len)
    BY <1>1, <1>4 DEF FeedSpan
  <1>6. \A id \in Job : HistoryDue(id)' = HistoryDue(id)
    BY <1>1, <1>2, <1>3, <1>4, <1>5 DEF HistoryDue
  <1>7. \A id \in Job : Reference(id)' = Reference(id)
    BY <1>1, <1>6 DEF Reference
  <1>8. Histories' = Histories
    BY <1>2, <1>6 DEF Histories
  <1>9. Bytes' = Bytes
    BY <1>2, <1>7 DEF Bytes, Pending, Empty
  <1> QED
    BY <1>2, <1>3, <1>4, <1>6, <1>7, <1>8, <1>9

(* Poison, once there, stays; what the frame has panic is what parks it.    *)
LEMMA PoisonStays ==
    ASSUME BulkMtAssumption, BulkTypeOK, Next
    PROVE  /\ UNCHANGED inputVars
           /\ poison' \in {NoOne, frame.panics}
           /\ Poisoned => Poisoned'
           /\ poison' # poison => (\E w \in Worker : Panic(w)) \/ FeedPanics
  <1>0. poison \in {NoOne, frame.panics}
    BY DEF BulkTypeOK
  <1>1. CASE CallerStep
    <2>1. UNCHANGED <<inputVars, poison>>
      BY <1>1, CallerChanges
    <2> QED
      BY <1>0, <2>1 DEF Poisoned
  <1>2. CASE FeedStep
    <2>1. UNCHANGED inputVars
      BY <1>2, FeedChanges
    <2>2. CASE ~FeedPanics
      <3>1. UNCHANGED poison
        BY <1>2, <2>2 DEF FeedStep, Publish, FeedEnds, MarkFeed
      <3> QED
        BY <1>0, <2>1, <3>1 DEF Poisoned
    <2>3. CASE FeedPanics
      <3>1. frame.panics = FeedPass /\ (poison' = poison \/ (poison = NoOne /\ poison' = FeedPass))
        BY <2>3 DEF FeedPanics, Poisoned
      <3> QED
        BY <1>0, <2>1, <2>3, <3>1 DEF Poisoned
    <2> QED
      BY <2>2, <2>3
  <1>3. ASSUME NEW w \in Worker, WorkerStep(w)
        PROVE  /\ UNCHANGED inputVars
               /\ poison' \in {NoOne, frame.panics}
               /\ Poisoned => Poisoned'
               /\ poison' # poison => Panic(w)
    <2>1. UNCHANGED inputVars
      BY <1>3, WorkerChanges
    <2>2. CASE ~Panic(w)
      <3>1. UNCHANGED poison
        BY <1>3, <2>2 DEF WorkerStep, CheckPoison, Claim, OwnHistory, TakeFeedSpan, WaitPrefixBuild,
              WaitLdmSnapshot, WaitShare, Abandon, Encode, Release
      <3> QED
        BY <1>0, <2>1, <3>1 DEF Poisoned
    <2>3. CASE Panic(w)
      <3>1. poison' = frame.panics /\ frame.panics = job[w] /\ job[w] \in Nat
        BY <2>3 DEF Panic, BulkTypeOK
      <3> QED
        BY <2>1, <2>3, <3>1 DEF Poisoned, NoOne
    <2> QED
      BY <2>2, <2>3
  <1> QED
    BY <1>1, <1>2, <1>3 DEF Next

(* The threads are different ones, and only the one that steps moves.       *)
LEMMA WhoMoves ==
    ASSUME BulkMtAssumption, BulkTypeOK, Next
    PROVE  \/ CallerStep /\ (\A w \in Worker : pc'[w] = pc[w]) /\ pc'[Feeder] = pc[Feeder]
              /\ pc'[Caller] \in {"build", "assemble", "holdSlot", "returned"}
           \/ FeedStep /\ (\A w \in Worker : pc'[w] = pc[w]) /\ pc'[Caller] = pc[Caller]
              /\ pc'[Feeder] \in {"feed", "feedPanicked", "left"}
           \/ \E w \in Worker :
                /\ WorkerStep(w) /\ pc'[Caller] = pc[Caller] /\ pc'[Feeder] = pc[Feeder]
                /\ \A v \in Worker : v # w => pc'[v] = pc[v]
  <1>0. Caller # Feeder /\ {Caller, Feeder} \cap Worker = {} /\ Threads = Worker \cup {Feeder, Caller}
    BY DEF BulkMtAssumption, Threads
  <1>1. CASE CallerStep
    BY <1>0, <1>1, CallerChanges
  <1>2. CASE FeedStep
    BY <1>0, <1>2, FeedChanges
  <1>3. ASSUME NEW w \in Worker, WorkerStep(w)
        PROVE  /\ pc'[Caller] = pc[Caller] /\ pc'[Feeder] = pc[Feeder]
               /\ \A v \in Worker : v # w => pc'[v] = pc[v]
    BY <1>0, <1>3, WorkerChanges
  <1> QED
    BY <1>1, <1>2, <1>3 DEF Next

-----------------------------------------------------------------------------
(* What a worker obtains is what its job is due.                            *)

LEMMA LayoutKnown ==
    ASSUME BulkMtAssumption, BulkTypeOK
    PROVE  /\ LayoutTyped(layout)
           /\ frame.in.len \in Nat \ {0}
           /\ Plan # NoPlan => ~Feeds /\ ~layout.deep
           /\ Plan \in Plans /\ (Plan = NoPlan <=> Plan.kind = "none")
           /\ \A id \in Job : id \in Nat /\ Start(id) \in Nat /\ End(id) \in Nat /\ End(id) <= frame.in.len
           /\ frame.seqs \in Seq([split : Nat, offset : Nat \ {0}])
           /\ frame.freezes \subseteq 1 .. frame.in.len
           /\ frame.panics \in Job \cup {FeedPass, NoOne}
           /\ frame.panics = FeedPass => Feeds
  <1>1. FrameOK(frame) /\ layout = Layout(frame.in) /\ BulkGridAssumption
    BY DEF BulkMtAssumption, BulkTypeOK
  <1>2. frame.in \in FrameInputs /\ ~FallsBack(frame.in)
    BY <1>1 DEF FrameOK
  <1>3. LayoutTyped(layout) /\ (layout.plan # NoPlan => layout.feed = 0 /\ ~layout.deep)
    BY <1>1, <1>2, LayoutCovers
  <1>4. frame.in.len \in Nat \ {0}
    BY <1>2 DEF FrameInputs
  <1>5. \A id \in Job : id \in Nat /\ Start(id) \in Nat /\ End(id) \in Nat /\ End(id) <= frame.in.len
    <2> SUFFICES ASSUME NEW id \in Job
                 PROVE  id \in Nat /\ Start(id) \in Nat /\ End(id) \in Nat /\ End(id) <= frame.in.len
      OBVIOUS
    <2>1. id \in Nat /\ layout.job \in Nat
      BY <1>3 DEF Job, LayoutTyped
    <2>2. Start(id) \in Nat
      BY <2>1, Z3 DEF Start
    <2> QED
      BY <1>4, <2>1, <2>2 DEF End, Min2
  <1>6. /\ frame.seqs \in Seq([split : Nat, offset : Nat \ {0}])
        /\ frame.freezes \subseteq 1 .. frame.in.len
        /\ frame.panics \in Job \cup {FeedPass, NoOne}
        /\ frame.panics = FeedPass => Feeds
    BY <1>1 DEF FrameOK, Job, Feeds
  <1> QED
    BY <1>3, <1>4, <1>5, <1>6 DEF Plan, Feeds, LayoutTyped

(* Once the feed has passed a job, more of it changes nothing for the job.  *)
LEMMA FeedSpanFinal ==
    ASSUME BulkMtAssumption, BulkTypeOK, NEW id \in Job, FeedReady(id)
    PROVE  FeedSpan(id, gate.published) = FeedSpan(id, frame.in.len)
  <1>1. /\ Start(id) \in Nat /\ End(id) \in Nat /\ End(id) <= frame.in.len
        /\ gate.published \in Nat /\ End(id) <= gate.published /\ frame.in.len \in Nat
    BY LayoutKnown DEF BulkTypeOK, FeedReady
  <1>2. \A i \in DOMAIN frame.seqs : frame.seqs[i].split \in Nat
    <2> DEFINE R == [split : Nat, offset : Nat \ {0}]
               s == frame.seqs
    <2>1. s \in Seq(R)
      BY LayoutKnown
    <2>2. \A r \in R : r.split \in Nat
      OBVIOUS
    <2>3. \A i \in DOMAIN s : s[i] \in R
      <3> HIDE DEF R, s
      <3> QED
        BY <2>1
    <2> QED
      BY <2>2, <2>3
  <1>3. \A i \in DOMAIN frame.seqs : frame.seqs[i].split < End(id) =>
            frame.seqs[i].split < gate.published /\ frame.seqs[i].split < frame.in.len
    BY <1>1, <1>2
  <1> QED
    BY <1>3 DEF FeedSpan

LEMMA NewestBelow ==
    ASSUME BulkMtAssumption, BulkTypeOK, NEW id \in Job, Below(id) # {}
    PROVE  Max2(Newest(id), Start(id)) = Start(id)
  <1>1. publishes \in Seq(Nat) /\ Len(publishes) \in Nat
    BY DEF BulkTypeOK
  <1>2. Below(id) \subseteq 0 .. Len(publishes)
    BY <1>1 DEF Below
  <1>3. \E i \in Below(id) : \A k \in Below(id) : k <= i
    BY <1>1, <1>2, GreatestElement
  <1> DEFINE i == CHOOSE i \in Below(id) : \A k \in Below(id) : k <= i
  <1>4. i \in Below(id)
    BY <1>3
  <1> HIDE DEF i
  <1>5. publishes[i] \in Nat /\ publishes[i] <= Start(id)
    BY <1>1, <1>4 DEF Below
  <1>6. Newest(id) = publishes[i]
    BY DEF Newest, i
  <1> QED
    BY <1>5, <1>6, LayoutKnown DEF Max2

LEMMA HistoryObtained ==
    ASSUME BulkMtAssumption, BulkInv, NEW w \in Worker, WorkerStep(w), pc'[w] = "encode"
    PROVE  /\ pc[w] = "history" /\ job[w] \in Job
           /\ history' = [history EXCEPT ![w] = HistoryDue(job[w])]
           /\ UNCHANGED <<nextJob, slots, poison, donation, job>>
  <1> DEFINE id == job[w]
  <1>0. /\ w \in Threads /\ pc = [t \in Threads |-> pc[t]]
        /\ Busy(w) => id \in Job
    BY DEF Threads, BulkInv, BulkTypeOK, Claimed
  <1> USE <1>0 DEF Goto
  <1>1. CASE CheckPoison(w) \/ Claim(w)
    BY <1>1 DEF CheckPoison, Claim
  <1>2. CASE WaitShare(w) \/ Abandon(w) \/ Encode(w) \/ Panic(w) \/ Release(w)
    BY <1>2 DEF WaitShare, Abandon, Encode, Panic, Release
  <1>3. CASE OwnHistory(w)
    <2>1. pc[w] = "history" /\ ~Feeds /\ UNCHANGED <<nextJob, slots, poison, donation, job>>
          /\ (~AboveMedian(w) \/ Plan.kind = "selffill" \/ layout.deep)
          /\ history' = [history EXCEPT ![w] = IF layout.deep \/ (AboveMedian(w) /\ Plan.kind = "selffill")
                            THEN [kind |-> "windowed", covers |-> Start(id)] ELSE [kind |-> "strip"]]
      BY <1>3 DEF OwnHistory, Obtain, inputVars, buildVars, callerVars
    <2>2. HistoryDue(id) = IF layout.deep \/ (AboveMedian(w) /\ Plan.kind = "selffill")
                            THEN [kind |-> "windowed", covers |-> Start(id)] ELSE [kind |-> "strip"]
      BY <2>1 DEF HistoryDue, AboveMedian
    <2> QED
      BY <1>0, <2>1, <2>2 DEF Busy
  <1>4. CASE TakeFeedSpan(w)
    <2>1. pc[w] = "history" /\ Feeds /\ UNCHANGED <<nextJob, slots, poison, donation, job>>
          /\ FeedReady(id)
          /\ history' = [history EXCEPT ![w] = [kind |-> "feed", span |-> FeedSpan(id, gate.published)]]
      BY <1>4 DEF TakeFeedSpan, Obtain, inputVars, buildVars, callerVars, Awake
    <2>2. id \in Job
      BY <1>0, <2>1 DEF Busy
    <2>3. HistoryDue(id) = [kind |-> "feed", span |-> FeedSpan(id, gate.published)]
      BY <2>1, <2>2, FeedSpanFinal DEF HistoryDue, BulkInv
    <2> QED
      BY <2>1, <2>2, <2>3
  <1>5. CASE WaitPrefixBuild(w)
    <2>1. pc[w] = "history" /\ UNCHANGED <<nextJob, slots, poison, donation, job>>
          /\ AboveMedian(w) /\ Plan.kind = "whole" /\ share # NoBuild
          /\ history' = [history EXCEPT ![w] = IF Start(id) > share.upto THEN [kind |-> "whole", upto |-> share.upto]
                                                    ELSE [kind |-> "strip"]]
      BY <1>5 DEF WaitPrefixBuild, Obtain, inputVars, buildVars, callerVars, Awake
    <2>2. ~Feeds /\ ~layout.deep /\ Plan # NoPlan
      BY <2>1, LayoutKnown DEF BulkInv, AboveMedian
    <2>3. share.upto = BuildPrefix
      BY <2>1 DEF BulkInv, BulkTypeOK
    <2>4. HistoryDue(id) = IF Start(id) > share.upto THEN [kind |-> "whole", upto |-> share.upto]
                                                    ELSE [kind |-> "strip"]
      BY <2>1, <2>2, <2>3 DEF HistoryDue, AboveMedian
    <2> QED
      BY <1>0, <2>1, <2>4 DEF Busy
  <1>6. CASE WaitLdmSnapshot(w)
    <2>1. pc[w] = "history" /\ UNCHANGED <<nextJob, slots, poison, donation, job>>
          /\ AboveMedian(w) /\ Plan.kind = "windowed"
          /\ \/ Below(id) # {} /\ history' = [history EXCEPT ![w] =
                    [kind |-> "windowed", covers |-> Max2(Newest(id), Start(id))]]
             \/ history' = [history EXCEPT ![w] = [kind |-> "windowed", covers |-> Start(id)]]
      BY <1>6 DEF WaitLdmSnapshot, Obtain, inputVars, buildVars, callerVars, Awake
    <2>2. ~Feeds /\ ~layout.deep /\ Plan # NoPlan /\ id \in Job
      BY <1>0, <2>1, LayoutKnown DEF BulkInv, AboveMedian, Busy
    <2>3. Below(id) # {} => Max2(Newest(id), Start(id)) = Start(id)
      BY <2>2, NewestBelow DEF BulkInv
    <2>4. HistoryDue(id) = [kind |-> "windowed", covers |-> Start(id)]
      BY <2>1, <2>2 DEF HistoryDue, AboveMedian
    <2> QED
      BY <2>1, <2>2, <2>3, <2>4
  <1> QED
    BY <1>1, <1>2, <1>3, <1>4, <1>5, <1>6 DEF WorkerStep

-----------------------------------------------------------------------------
(* The steps keep the invariant, part by part.                             *)

(* What a worker's step does to jobs and slots.                             *)
LEMMA WorkerEffects ==
    ASSUME BulkMtAssumption, BulkInv, NEW w \in Worker, WorkerStep(w)
    PROVE  \/ /\ pc[w] = "claim" /\ nextJob' = nextJob + 1 /\ job' = [job EXCEPT ![w] = nextJob]
              /\ pc'[w] = (IF nextJob \in Job THEN "history" ELSE "left")
              /\ UNCHANGED <<slots, poison, donation, history>>
           \/ /\ ~Busy(w) /\ pc'[w] \in {"left", "claim"}
              /\ UNCHANGED <<nextJob, slots, poison, donation, job, history>>
           \/ /\ pc[w] \in {"history", "holdShare"} /\ pc'[w] \in {"history", "holdShare"}
              /\ UNCHANGED <<nextJob, slots, poison, donation, job, history>>
           \/ /\ pc[w] = "history" /\ pc'[w] = "abandon"
              /\ Poisoned \/ gate.panicked
              /\ UNCHANGED <<nextJob, slots, poison, donation, job, history>>
           \/ /\ pc[w] = "history" /\ pc'[w] = "encode"
              /\ history' = [history EXCEPT ![w] = HistoryDue(job[w])]
              /\ UNCHANGED <<nextJob, slots, poison, donation, job>>
           \/ /\ pc[w] \in {"abandon", "release"} /\ pc'[w] \in {"top", "left"}
              /\ slots' = [slots EXCEPT ![job[w]] = Empty]
              /\ UNCHANGED <<nextJob, poison, donation, job, history>>
           \/ /\ pc[w] = "encode" /\ pc'[w] = "top" /\ frame.panics # job[w]
              /\ slots' = [slots EXCEPT ![job[w]] = Encoded(job[w], history[w])]
              /\ donation' = (donation /\ (job[w] # 0 \/ frame.in.dict))
              /\ UNCHANGED <<nextJob, poison, job, history>>
           \/ /\ pc[w] = "encode" /\ pc'[w] = "release" /\ frame.panics = job[w] /\ poison' = job[w]
              /\ donation' = (donation /\ (job[w] # 0 \/ frame.in.dict))
              /\ UNCHANGED <<nextJob, slots, job, history>>
  <1>0. w \in Threads /\ pc = [t \in Threads |-> pc[t]]
    BY DEF Threads, BulkInv, BulkTypeOK
  <1> USE <1>0 DEF Goto, Busy
  <1>1. CASE CheckPoison(w)
    BY <1>1 DEF CheckPoison
  <1>2. CASE Claim(w)
    BY <1>2 DEF Claim
  <1>3. CASE pc'[w] = "encode"
    BY <1>3, HistoryObtained
  <1>4. CASE OwnHistory(w)
    BY <1>3, <1>4 DEF OwnHistory, Obtain
  <1>5. CASE TakeFeedSpan(w) /\ pc'[w] # "encode"
    BY <1>5 DEF TakeFeedSpan, Obtain, Awake
  <1>6. CASE WaitPrefixBuild(w) /\ pc'[w] # "encode"
    BY <1>6 DEF WaitPrefixBuild, Obtain, Awake
  <1>7. CASE WaitLdmSnapshot(w) /\ pc'[w] # "encode"
    BY <1>7 DEF WaitLdmSnapshot, Obtain, Awake
  <1>8. CASE WaitShare(w)
    BY <1>8 DEF WaitShare
  <1>9. CASE Abandon(w) \/ Release(w)
    BY <1>9 DEF Abandon, Release
  <1>10. CASE Encode(w)
    BY <1>10 DEF Encode
  <1>11. CASE Panic(w)
    BY <1>11 DEF Panic
  <1> QED
    BY <1>1, <1>2, <1>3, <1>4, <1>5, <1>6, <1>7, <1>8, <1>9, <1>10, <1>11 DEF WorkerStep

(* The bytes a worker's job comes to.                                       *)
LEMMA EncodedIsReference ==
    ASSUME BulkInv, NEW w \in Worker, pc[w] = "encode"
    PROVE  Encoded(job[w], history[w]) = Reference(job[w])
  <1>1. history[w] = HistoryDue(job[w]) /\ (job[w] = 0 => donation = layout.donated)
    BY DEF BulkInv, Started, Donated, Claimed, Busy
  <1> QED
    BY <1>1 DEF Encoded, Reference

LEMMA ClaimedStep ==
    ASSUME BulkMtAssumption, BulkInv, Next
    PROVE  Claimed'
  <1> DEFINE S(id) == slots[id] = Pending
  <1>0. /\ Job' = Job /\ job \in [Worker -> Nat] /\ nextJob \in Nat
        /\ slots = [id \in Job |-> slots[id]]
    BY PoisonStays, InputsFixed DEF BulkInv, BulkTypeOK
  <1>1. CASE CallerStep \/ FeedStep
    <2>1. (\A w \in Worker : pc'[w] = pc[w]) /\ UNCHANGED <<nextJob, slots, job>>
      <3>1. CASE CallerStep
        BY <3>1, CallerChanges, BulkMtAssumption DEF BulkInv, Threads, BulkMtAssumption
      <3>2. CASE FeedStep
        BY <3>2, FeedChanges, BulkMtAssumption DEF BulkInv, Threads, BulkMtAssumption
      <3> QED
        BY <1>1, <3>1, <3>2
    <2> QED
      BY <1>0, <2>1 DEF BulkInv, Claimed, Busy
  <1>2. ASSUME NEW w \in Worker, WorkerStep(w) PROVE Claimed'
    <2>0. \A v \in Worker : v # w => pc'[v] = pc[v]
      BY <1>2, WorkerChanges DEF BulkInv, Threads
    <2>00. Claimed
      BY DEF BulkInv
    <2>1. CASE /\ pc[w] = "claim" /\ nextJob' = nextJob + 1 /\ job' = [job EXCEPT ![w] = nextJob]
               /\ pc'[w] = (IF nextJob \in Job THEN "history" ELSE "left")
               /\ UNCHANGED slots
      <3>0. job'[w] = nextJob /\ \A v \in Worker : v # w => job'[v] = job[v]
        BY <1>0, <2>1
      <3>1. \A v \in Worker : Busy(v)' => job'[v] \in Job' /\ job'[v] < nextJob' /\ slots'[job'[v]] = Pending
        BY <1>0, <2>0, <2>00, <2>1, <3>0 DEF Claimed, Busy
      <3>2. \A u, v \in Worker : Busy(u)' /\ Busy(v)' /\ u # v => job'[u] # job'[v]
        BY <1>0, <2>0, <2>00, <2>1, <3>0 DEF Claimed, Busy
      <3>3. \A id \in Job' : id >= nextJob' => slots'[id] = Pending
        <4>1. Job \subseteq Int
          BY DEF Job
        <4> QED
          BY <1>0, <2>00, <2>1, <4>1 DEF Claimed
      <3> QED
        BY <3>1, <3>2, <3>3 DEF Claimed
    <2>2. CASE /\ UNCHANGED <<nextJob, slots, job>> /\ (Busy(w)' => Busy(w))
      <3>1. \A v \in Worker : Busy(v)' => Busy(v)
        BY <2>0, <2>2 DEF Busy
      <3>2. \A v \in Worker : Busy(v)' => job'[v] \in Job' /\ job'[v] < nextJob' /\ slots'[job'[v]] = Pending
        BY <1>0, <2>00, <2>2, <3>1 DEF Claimed
      <3>3. \A u, v \in Worker : Busy(u)' /\ Busy(v)' /\ u # v => job'[u] # job'[v]
        BY <2>00, <2>2, <3>1 DEF Claimed
      <3>4. \A id \in Job' : id >= nextJob' => slots'[id] = Pending
        BY <1>0, <2>00, <2>2 DEF Claimed
      <3> QED
        BY <3>2, <3>3, <3>4 DEF Claimed
    <2>3. CASE /\ UNCHANGED <<nextJob, job>> /\ Busy(w) /\ ~Busy(w)'
               /\ \A id \in Job : id # job[w] => slots'[id] = slots[id]
      <3>1. \A v \in Worker : Busy(v)' => Busy(v) /\ v # w /\ job[v] # job[w]
        BY <2>0, <2>00, <2>3 DEF Claimed, Busy
      <3>2. \A id \in Job : id >= nextJob => id # job[w]
        <4>1. Job \subseteq Int
          BY DEF Job
        <4> QED
          BY <1>0, <2>00, <2>3, <4>1 DEF Claimed
      <3>3. \A v \in Worker : Busy(v)' => job'[v] \in Job' /\ job'[v] < nextJob' /\ slots'[job'[v]] = Pending
        BY <1>0, <2>00, <2>3, <3>1 DEF Claimed
      <3>4. \A u, v \in Worker : Busy(u)' /\ Busy(v)' /\ u # v => job'[u] # job'[v]
        BY <2>00, <2>3, <3>1 DEF Claimed
      <3>5. \A id \in Job' : id >= nextJob' => slots'[id] = Pending
        BY <1>0, <2>00, <2>3, <3>2 DEF Claimed
      <3> QED
        BY <3>3, <3>4, <3>5 DEF Claimed
    <2> QED
      BY <1>0, <1>2, <2>1, <2>2, <2>3, WorkerEffects DEF Busy
  <1> QED
    BY <1>1, <1>2 DEF Next

LEMMA StartedStep ==
    ASSUME BulkMtAssumption, BulkInv, Next
    PROVE  Started'
  <1>0. /\ Job' = Job /\ \A id \in Job : HistoryDue(id)' = HistoryDue(id)
        /\ job \in [Worker -> Nat] /\ history = [w \in Worker |-> history[w]]
    BY PoisonStays, InputsFixed DEF BulkInv, BulkTypeOK
  <1>00. Started
    BY DEF BulkInv
  <1> SUFFICES ASSUME NEW w \in Worker, NEW id \in Job, pc'[w] = "encode", job'[w] = id
               PROVE  history'[w] = HistoryDue(id)
    BY <1>0 DEF Started
  <1>1. CASE pc'[w] = pc[w] /\ job'[w] = job[w] /\ history'[w] = history[w]
    BY <1>00, <1>1 DEF Started
  <1>2. CASE CallerStep
    BY <1>1, <1>2, CallerChanges DEF BulkInv, Threads, BulkMtAssumption
  <1>3. CASE FeedStep
    BY <1>1, <1>3, FeedChanges DEF BulkInv, Threads, BulkMtAssumption
  <1>4. ASSUME NEW v \in Worker, WorkerStep(v), v # w PROVE history'[w] = HistoryDue(id)
    BY <1>0, <1>1, <1>4, WorkerChanges, WorkerEffects DEF BulkInv, Threads
  <1>5. CASE WorkerStep(w)
    BY <1>0, <1>5, HistoryObtained
  <1> QED
    BY <1>2, <1>3, <1>4, <1>5 DEF Next

LEMMA DonatedStep ==
    ASSUME BulkMtAssumption, BulkInv, Next
    PROVE  Donated'
  <1>0. /\ layout' = layout /\ Job' = Job /\ job \in [Worker -> Nat] /\ nextJob \in Nat
    BY PoisonStays, InputsFixed DEF BulkInv, BulkTypeOK, inputVars
  <1>00. Donated /\ Claimed
    BY DEF BulkInv
  <1>1. CASE (\A w \in Worker : pc'[w] = pc[w]) /\ UNCHANGED <<nextJob, donation, job>>
    BY <1>0, <1>00, <1>1 DEF Donated
  <1>2. CASE CallerStep
    BY <1>1, <1>2, CallerChanges DEF BulkInv, Threads, BulkMtAssumption
  <1>3. CASE FeedStep
    BY <1>1, <1>3, FeedChanges DEF BulkInv, Threads, BulkMtAssumption
  <1>4. ASSUME NEW w \in Worker, WorkerStep(w) PROVE Donated'
    <2>0. \A v \in Worker : v # w => pc'[v] = pc[v]
      BY <1>4, WorkerChanges DEF BulkInv, Threads
    <2>1. CASE pc[w] = "claim" /\ nextJob' = nextJob + 1 /\ job' = [job EXCEPT ![w] = nextJob] /\ donation' = donation
      <3>1. job'[w] = nextJob /\ (\A v \in Worker : v # w => job'[v] = job[v]) /\ nextJob' # 0
        BY <1>0, <2>1
      <3> QED
        BY <1>0, <1>00, <2>0, <2>1, <3>1 DEF Donated
    <2>2. CASE /\ UNCHANGED <<nextJob, donation, job>>
               /\ \/ pc'[w] \notin {"history", "holdShare", "encode"}
                  \/ pc[w] \in {"history", "holdShare", "encode"}
      BY <1>0, <1>00, <2>0, <2>2 DEF Donated
    <2>3. CASE /\ UNCHANGED <<nextJob, job>> /\ pc[w] = "encode" /\ pc'[w] \in {"top", "release"}
               /\ donation' = (donation /\ (job[w] # 0 \/ frame.in.dict))
      <3>1. job[w] < nextJob /\ nextJob # 0
        BY <1>0, <1>00, <2>3 DEF Claimed, Busy
      <3>2. ASSUME NEW v \in Worker, pc'[v] \in {"history", "holdShare", "encode"}, job'[v] = 0
            PROVE  donation' = layout'.donated
        <4>1. v # w /\ pc[v] \in {"history", "holdShare", "encode"} /\ job[v] = 0
          BY <2>0, <2>3, <3>2
        <4>2. job[w] # 0 /\ donation = layout.donated
          BY <1>00, <2>3, <4>1 DEF Claimed, Busy, Donated
        <4> QED
          BY <1>0, <2>3, <4>2 DEF BulkInv, BulkTypeOK
      <3> QED
        BY <2>3, <3>1, <3>2 DEF Donated
    <2>4. UNCHANGED <<nextJob, donation, job>> \/ pc[w] = "claim" \/ pc[w] = "encode"
      BY <1>4, WorkerEffects
    <2> QED
      BY <1>4, <2>1, <2>2, <2>3, WorkerEffects DEF Busy
  <1> QED
    BY <1>2, <1>3, <1>4 DEF Next

(* Reference and the constants of a slot are different records.             *)
LEMMA ReferenceApart == \A id : Reference(id) # Empty /\ Reference(id) # Pending
  <1> SUFFICES ASSUME NEW id PROVE Reference(id) # Empty /\ Reference(id) # Pending
    OBVIOUS
  <1>1. "id" \in DOMAIN Reference(id)
    BY DEF Reference
  <1>2. "id" \notin DOMAIN Empty /\ "id" \notin DOMAIN Pending
    BY DEF Empty, Pending
  <1> QED
    BY <1>1, <1>2

(* What a step may write into a slot.                                       *)
LEMMA SlotWrites ==
    ASSUME BulkMtAssumption, BulkInv, Next
    PROVE  \/ UNCHANGED slots
           \/ \E w \in Worker :
                /\ job[w] \in Job
                /\ \/ Poisoned /\ slots' = [slots EXCEPT ![job[w]] = Empty]
                   \/ /\ frame.panics # job[w]
                      /\ slots' = [slots EXCEPT ![job[w]] = Reference(job[w])]
  <1>1. CASE CallerStep \/ FeedStep
    BY <1>1, CallerChanges, FeedChanges DEF BulkInv
  <1>2. ASSUME NEW w \in Worker, WorkerStep(w), slots' # slots
        PROVE  /\ job[w] \in Job
               /\ \/ Poisoned /\ slots' = [slots EXCEPT ![job[w]] = Empty]
                  \/ /\ frame.panics # job[w]
                     /\ slots' = [slots EXCEPT ![job[w]] = Reference(job[w])]
    <2>1. CASE pc[w] \in {"abandon", "release"} /\ slots' = [slots EXCEPT ![job[w]] = Empty]
      BY <2>1 DEF BulkInv, Claimed, Busy, Poison
    <2>2. CASE /\ pc[w] = "encode" /\ frame.panics # job[w]
               /\ slots' = [slots EXCEPT ![job[w]] = Encoded(job[w], history[w])]
      BY <2>2, EncodedIsReference DEF BulkInv, Claimed, Busy
    <2> QED
      BY <1>2, <2>1, <2>2, WorkerEffects
  <1> QED
    BY <1>1, <1>2 DEF Next

LEMMA FilledStep ==
    ASSUME BulkMtAssumption, BulkInv, Next
    PROVE  Filled'
  <1>0. /\ frame' = frame /\ Job' = Job /\ \A id \in Job : Reference(id)' = Reference(id)
        /\ slots = [id \in Job |-> slots[id]] /\ (Poisoned => Poisoned')
    BY PoisonStays, InputsFixed DEF BulkInv, BulkTypeOK, inputVars
  <1>00. Filled
    BY DEF BulkInv
  <1>01. Empty' = Empty /\ Pending' = Pending
    BY DEF Empty, Pending
  <1> SUFFICES ASSUME NEW id \in Job
               PROVE  /\ slots'[id] \in {Pending, Empty, Reference(id)}
                      /\ slots'[id] = Empty => Poisoned'
                      /\ id = frame.panics => slots'[id] # Reference(id)
    BY <1>0, <1>01 DEF Filled
  <1>1. CASE slots'[id] = slots[id]
    BY <1>0, <1>00, <1>1 DEF Filled
  <1>2. CASE slots'[id] = Empty /\ Poisoned
    BY <1>0, <1>2, ReferenceApart
  <1>3. CASE slots'[id] = Reference(id) /\ id # frame.panics
    BY <1>3, ReferenceApart
  <1> QED
    BY <1>0, <1>1, <1>2, <1>3, SlotWrites

LEMMA PoisonStep ==
    ASSUME BulkMtAssumption, BulkInv, Next
    PROVE  Poison'
  <1>0. frame' = frame /\ (Poisoned => Poisoned') /\ Poison
    BY PoisonStays DEF BulkInv, inputVars
  <1>00. BulkTypeOK
    BY DEF BulkInv
  <1>1. \A w \in Worker : pc'[w] \in {"abandon", "release"} => Poisoned'
    <2> SUFFICES ASSUME NEW w \in Worker, pc'[w] \in {"abandon", "release"} PROVE Poisoned'
      OBVIOUS
    <2>1. CASE pc'[w] = pc[w]
      BY <1>0, <2>1 DEF Poison
    <2>2. CASE WorkerStep(w)
      <3>1. Poisoned \/ gate.panicked \/ (poison' = frame.panics /\ frame.panics = job[w] /\ pc[w] = "encode")
            \/ pc[w] \in {"abandon", "release"}
        BY <2>2, WorkerEffects DEF Busy
      <3>2. job[w] # NoOne
        BY <1>00 DEF BulkTypeOK, NoOne
      <3> QED
        BY <1>0, <3>1, <3>2 DEF Poison, Poisoned
    <2> QED
      BY <1>00, <2>1, <2>2, WhoMoves
  <1>2. gate'.panicked => Poisoned'
    <2>1. CASE CallerStep
      BY <1>0, <1>00, <2>1, CallerChanges DEF Poison
    <2>2. CASE FeedStep
      BY <1>0, <1>00, <2>2 DEF Poison, FeedStep, Publish, FeedEnds, FeedPanics, MarkFeed, BulkTypeOK
    <2>3. ASSUME NEW w \in Worker, WorkerStep(w) PROVE gate'.panicked => Poisoned'
      BY <1>0, <1>00, <2>3, WorkerChanges DEF Poison
    <2> QED
      BY <2>1, <2>2, <2>3 DEF Next
  <1>3. /\ pc'[Feeder] = "feedPanicked" => Poisoned'
        /\ frame.panics = FeedPass /\ pc'[Feeder] # "feed" => Poisoned'
    <2>1. CASE pc'[Feeder] = pc[Feeder]
      BY <1>0, <2>1 DEF Poison
    <2>2. CASE FeedStep
      <3>0. Feeder \in Threads /\ pc = [t \in Threads |-> pc[t]]
        BY <1>00 DEF Threads, BulkTypeOK
      <3>1. CASE Publish
        BY <1>0, <3>1 DEF Publish, Poison
      <3>2. CASE FeedEnds
        BY <1>0, <3>0, <3>2 DEF FeedEnds, Goto
      <3>3. CASE FeedPanics
        <4>1. \/ poison' = (IF Poisoned THEN poison ELSE FeedPass)
              \/ poison' = poison /\ pc' = pc
          BY <3>3 DEF FeedPanics
        <4>2. FeedPass # NoOne
          BY DEF FeedPass, NoOne
        <4> QED
          BY <1>0, <4>1, <4>2 DEF Poisoned, Poison
      <3>4. CASE MarkFeed
        BY <1>0, <3>4 DEF MarkFeed, Poison
      <3> QED
        BY <2>2, <3>1, <3>2, <3>3, <3>4 DEF FeedStep
    <2> QED
      BY <1>00, <2>1, <2>2, WhoMoves
  <1> QED
    BY <1>0, <1>1, <1>2, <1>3 DEF Poison

(* What a step appends: the slot it is at, or nothing under a poison.       *)
LEMMA Appends ==
    ASSUME BulkTypeOK, Next
    PROVE  \/ UNCHANGED <<asm, output>>
           \/ /\ CallerStep /\ asm \in Job /\ asm' = asm + 1
              /\ \/ slots[asm] # Pending /\ output' = Append(output, slots[asm])
                 \/ Poisoned /\ output' = Append(output, Empty)
  <1>1. CASE FeedStep
    BY <1>1, FeedChanges DEF callerVars
  <1>2. ASSUME NEW w \in Worker, WorkerStep(w) PROVE UNCHANGED <<asm, output>>
    BY <1>2, WorkerChanges
  <1>3. CASE CallerStep
    BY <1>3 DEF CallerStep, BuildWhole, BuildChain, ChainEnds, NoBuildNeeded, Take, Await, WaitSlot,
          Return, callerVars, SkipPoisoned
  <1> QED
    BY <1>1, <1>2, <1>3 DEF Next

LEMMA AppendedStep ==
    ASSUME BulkMtAssumption, BulkInv, Next
    PROVE  Appended'
  <1>0. /\ frame' = frame /\ Job \subseteq Nat /\ \A id \in Job : Reference(id)' = Reference(id)
        /\ (Poisoned => Poisoned') /\ asm \in Nat /\ output \in Seq(Bytes) /\ Len(output) = asm
        /\ asm \in 0 .. layout.n
    BY PoisonStays, InputsFixed, LayoutKnown DEF BulkInv, BulkTypeOK, inputVars, LayoutTyped
  <1>00. Appended /\ Filled
    BY DEF BulkInv
  <1>01. Empty' = Empty
    BY DEF Empty
  <1>02. \A i \in 1 .. layout.n : i - 1 \in Job
    BY LayoutKnown DEF Job, LayoutTyped, BulkInv
  <1> DEFINE Fits(i) == \/ output'[i] = Reference(i - 1) /\ i - 1 # frame.panics
                        \/ output'[i] = Empty /\ Poisoned'
  <1>1. ASSUME NEW i \in 1 .. asm, output'[i] = output[i] PROVE Fits(i)
    BY <1>0, <1>00, <1>1 DEF Appended
  <1>2. \A i \in 1 .. asm' : Fits(i)
    <2>1. CASE UNCHANGED <<asm, output>>
      BY <1>1, <2>1
    <2>2. CASE /\ asm \in Job /\ asm' = asm + 1 /\ slots[asm] # Pending /\ output' = Append(output, slots[asm])
      <3>1. slots[asm] \in {Empty, Reference(asm)} /\ (slots[asm] = Empty => Poisoned)
            /\ (asm = frame.panics => slots[asm] # Reference(asm))
        BY <1>00, <2>2 DEF Filled
      <3>2. slots[asm] \in Bytes
        BY <2>2, <3>1 DEF Bytes
      <3>3. output'[asm + 1] = slots[asm] /\ \A i \in 1 .. asm : output'[i] = output[i]
        <4> HIDE DEF Bytes
        <4> QED
          BY <1>0, <2>2, <3>2
      <3>4. Fits(asm + 1)
        BY <1>0, <3>1, <3>3
      <3> HIDE DEF Fits
      <3> QED
        BY <1>0, <1>1, <2>2, <3>3, <3>4
    <2>3. CASE /\ asm \in Job /\ asm' = asm + 1 /\ Poisoned /\ output' = Append(output, Empty)
      <3>2. Empty \in Bytes
        BY DEF Bytes
      <3>3. output'[asm + 1] = Empty /\ \A i \in 1 .. asm : output'[i] = output[i]
        <4> HIDE DEF Bytes
        <4> QED
          BY <1>0, <2>3, <3>2
      <3>4. Fits(asm + 1)
        BY <1>0, <2>3, <3>3
      <3> HIDE DEF Fits
      <3> QED
        BY <1>0, <1>1, <2>3, <3>3, <3>4
    <2> HIDE DEF Fits
    <2> QED
      BY <2>1, <2>2, <2>3, Appends DEF BulkInv
  <1>3. asm' \in Nat /\ asm' <= layout.n /\ layout.n \in Nat
    BY <1>0, Appends, LayoutKnown DEF Job, LayoutTyped, BulkInv
  <1>4. \A i \in 1 .. asm' : Reference(i - 1)' = Reference(i - 1)
    <2> TAKE i \in 1 .. asm'
    <2>0. i \in 1 .. layout.n
      <3> DEFINE a == asm'
      <3>1. a \in Nat /\ a <= layout.n /\ layout.n \in Nat /\ i \in 1 .. a
        BY <1>3
      <3> HIDE DEF a
      <3> QED
        BY <3>1
    <2>1. PICK id \in Job : id = i - 1
      <3>1. i - 1 \in Job
        BY <1>02, <2>0
      <3> QED
        BY <3>1
    <2>2. Reference(id)' = Reference(id)
      BY <1>0
    <2> QED
      BY <2>1, <2>2
  <1> QED
    BY <1>0, <1>01, <1>2, <1>3, <1>4 DEF Appended
(* A call that returns has appended every slot; it resumes a panic exactly   *)
(* when the frame has one.                                                 *)
LEMMA EndedStep ==
    ASSUME BulkMtAssumption, BulkInv, Next
    PROVE  Ended'
  <1>0. /\ frame' = frame /\ layout' = layout /\ poison \in {NoOne, frame.panics}
        /\ asm \in 0 .. layout.n /\ layout.n \in Nat
        /\ Caller # Feeder /\ Feeder \in Threads /\ Worker \subseteq Threads \ {Caller}
    BY PoisonStays, LayoutKnown
       DEF BulkInv, BulkTypeOK, inputVars, LayoutTyped, BulkMtAssumption, Threads
  <1>1. CASE pc'[Caller] # "returned"
    BY <1>1 DEF Ended
  <1>2. CASE Return
    <2>1. /\ asm \notin Job /\ asm' = asm /\ \A t \in Threads \ {Caller} : pc[t] = "left"
          /\ res' = IF Poisoned THEN "panic" ELSE "frame"
      BY <1>2 DEF Return
    <2>2. asm = layout.n
      BY <1>0, <2>1 DEF Job
    <2>3. Poisoned <=> frame.panics # NoOne
      <3>1. CASE frame.panics \in Job
        <4> DEFINE i == frame.panics + 1
        <4>1. i \in 1 .. asm /\ i - 1 = frame.panics /\ frame.panics # NoOne
          BY <1>0, <2>2, <3>1 DEF Job, NoOne
        <4> HIDE DEF i
        <4>2. Poisoned
          BY <4>1 DEF BulkInv, Appended
        <4> QED
          BY <4>1, <4>2
      <3>2. CASE frame.panics = FeedPass
        BY <1>0, <2>1, <3>2 DEF BulkInv, Poison, FeedPass, NoOne
      <3>3. CASE frame.panics = NoOne
        BY <1>0, <3>3 DEF Poisoned
      <3> QED
        BY <3>1, <3>2, <3>3, LayoutKnown DEF BulkInv
    <2> QED
      BY <1>0, <2>1, <2>2, <2>3 DEF Ended
  <1>3. CASE ~Return /\ pc'[Caller] = "returned"
    <2>1. pc[Caller] = "returned" /\ UNCHANGED <<asm, res>>
      <3>1. CASE CallerStep
        <4>0. Caller \in Threads /\ pc = [t \in Threads |-> pc[t]]
          BY DEF Threads, BulkInv, BulkTypeOK
        <4> QED
          BY <1>3, <3>1, <4>0 DEF CallerStep, BuildWhole, BuildChain, ChainEnds, NoBuildNeeded, Take, Await,
             WaitSlot, Goto, At, Awake
      <3>2. CASE FeedStep
        BY <1>3, <3>2, FeedChanges DEF callerVars, BulkInv, Threads, BulkMtAssumption
      <3>3. ASSUME NEW w \in Worker, WorkerStep(w) PROVE pc[Caller] = "returned" /\ UNCHANGED <<asm, res>>
        BY <1>3, <3>3, WorkerChanges DEF BulkInv, Threads, BulkMtAssumption
      <3> QED
        BY <3>1, <3>2, <3>3 DEF Next
    <2> QED
      BY <1>0, <2>1 DEF BulkInv, Ended
  <1> QED
    BY <1>1, <1>2, <1>3

LEMMA FreezeTyped ==
    ASSUME NEW limit \in Nat, NEW points \in SUBSET (1 .. limit), NEW from, NEW soft, NEW cap
    PROVE  Freeze(points, from, soft, cap) \in Nat
  <1> DEFINE found == {p \in points : p > from /\ p >= soft /\ p <= cap}
  <1>1. CASE found = {}
    BY <1>1 DEF Freeze
  <1>2. CASE found # {}
    <2>1. found \subseteq Nat
      <3>1. points \subseteq Nat
        OBVIOUS
      <3> QED
        BY <3>1
    <2> HIDE DEF found
    <2>2. \E p \in found : \A q \in found : p <= q
      BY <1>2, <2>1, LeastElement
    <2>3. (CHOOSE p \in found : \A q \in found : p <= q) \in found
      BY <2>2
    <2>4. Freeze(points, from, soft, cap) = CHOOSE p \in found : \A q \in found : p <= q
      BY <1>2 DEF Freeze, found
    <2> QED
      BY <2>1, <2>3, <2>4
  <1> QED
    BY <1>1, <1>2

(* What the build publishes.                                                *)
LEMMA BuildEffects ==
    ASSUME BulkMtAssumption, BulkTypeOK, Next
    PROVE  /\ share' \in {share, NoBuild, [built |-> TRUE, upto |-> BuildPrefix]}
           /\ publishes' \in Seq(Nat) /\ chainDone' \in BOOLEAN
           /\ res' \in {"none", "frame", "panic"}
  <1>0. publishes \in Seq(Nat) /\ chainDone \in BOOLEAN /\ res \in {"none", "frame", "panic"}
    BY DEF BulkTypeOK
  <1>1. CASE FeedStep
    BY <1>0, <1>1, FeedChanges DEF buildVars, callerVars
  <1>2. ASSUME NEW w \in Worker, WorkerStep(w) PROVE UNCHANGED <<share, publishes, chainDone, res>>
    BY <1>2, WorkerChanges
  <1>3. CASE CallerStep
    <2>1. NextFreeze \in Nat
      <3>1. frame.in.len \in Nat /\ frame.freezes \in SUBSET (1 .. frame.in.len)
        BY LayoutKnown
      <3> QED
        BY <3>1, FreezeTyped DEF NextFreeze
    <2> USE DEF buildVars, callerVars
    <2>2. CASE BuildWhole
      BY <1>0, <2>2 DEF BuildWhole
    <2>3. CASE BuildChain
      <3> DEFINE p == NextFreeze
      <3>1. publishes' = Append(publishes, p) \/ publishes' = publishes
        BY <2>3 DEF BuildChain
      <3>2. UNCHANGED <<share, chainDone, res>>
        BY <2>3 DEF BuildChain
      <3> HIDE DEF p
      <3>3. p \in Nat
        BY <2>1 DEF p
      <3> QED
        BY <1>0, <3>1, <3>2, <3>3
    <2>4. CASE ChainEnds
      BY <1>0, <2>4 DEF ChainEnds
    <2>5. CASE NoBuildNeeded
      BY <1>0, <2>5 DEF NoBuildNeeded
    <2>6. CASE Take
      BY <1>0, <2>6 DEF Take
    <2>7. CASE Await
      BY <1>0, <2>7 DEF Await
    <2>8. CASE WaitSlot
      BY <1>0, <2>8 DEF WaitSlot
    <2>9. CASE Return
      BY <1>0, <2>9 DEF Return
    <2> QED
      BY <1>3, <2>2, <2>3, <2>4, <2>5, <2>6, <2>7, <2>8, <2>9 DEF CallerStep
  <1> QED
    BY <1>0, <1>1, <1>2, <1>3 DEF Next

LEMMA TypeStep ==
    ASSUME BulkMtAssumption, BulkInv, Next
    PROVE  BulkTypeOK'
  <1>0. BulkTypeOK
    BY DEF BulkInv
  <1>1. /\ frame' = frame /\ layout' = layout /\ Job' = Job /\ Bytes' = Bytes /\ Histories' = Histories
        /\ BuildPrefix' = BuildPrefix /\ poison' \in {NoOne, frame.panics}
    BY <1>0, PoisonStays, InputsFixed DEF inputVars
  <1>2. nextJob' \in Nat /\ job' \in [Worker -> Nat]
    <2>0. nextJob \in Nat /\ job \in [Worker -> Nat]
      BY <1>0 DEF BulkTypeOK
    <2>1. CASE CallerStep \/ FeedStep
      BY <1>0, <2>0, <2>1, CallerChanges, FeedChanges
    <2>2. ASSUME NEW w \in Worker, WorkerStep(w) PROVE nextJob' \in Nat /\ job' \in [Worker -> Nat]
      BY <2>0, <2>2, WorkerEffects
    <2> QED
      BY <2>1, <2>2 DEF Next
  <1>3. slots' \in [Job -> Bytes]
    <2>1. slots \in [Job -> Bytes] /\ Empty \in Bytes /\ \A id \in Job : Reference(id) \in Bytes
      BY <1>0 DEF BulkTypeOK, Bytes
    <2> HIDE DEF Bytes
    <2> QED
      BY <2>1, SlotWrites
  <1>4. donation' \in BOOLEAN
    <2>0. donation \in BOOLEAN
      BY <1>0 DEF BulkTypeOK
    <2>1. CASE CallerStep \/ FeedStep
      BY <1>0, <2>0, <2>1, CallerChanges, FeedChanges
    <2>2. ASSUME NEW w \in Worker, WorkerStep(w) PROVE donation' \in BOOLEAN
      BY <2>0, <2>2, WorkerEffects
    <2> QED
      BY <2>1, <2>2 DEF Next
  <1>5. share' \in {NoBuild, [built |-> TRUE, upto |-> BuildPrefix]}
    BY <1>0, BuildEffects DEF BulkTypeOK
  <1>6. gate' \in [published : Nat, panicked : BOOLEAN]
    <2>0. gate \in [published : Nat, panicked : BOOLEAN] /\ frame.in.len \in Nat /\ BlockSize \in Nat
      BY <1>0, LayoutKnown DEF BulkTypeOK, BulkMtAssumption
    <2>1. CASE CallerStep
      BY <1>0, <2>0, <2>1, CallerChanges
    <2>2. CASE FeedStep
      <3>1. \/ gate' = gate
            \/ gate' = [gate EXCEPT !.panicked = TRUE]
            \/ gate' = [gate EXCEPT !.published = Min2(gate.published + BlockSize, frame.in.len)]
            \/ gate' = [gate EXCEPT !.published = gate.published + BlockSize]
        BY <2>2 DEF FeedStep, Publish, FeedEnds, FeedPanics, MarkFeed
      <3>2. Min2(gate.published + BlockSize, frame.in.len) \in Nat /\ gate.published + BlockSize \in Nat
        BY <2>0 DEF Min2
      <3> QED
        BY <2>0, <3>1, <3>2
    <2>3. ASSUME NEW w \in Worker, WorkerStep(w) PROVE gate' = gate
      BY <1>0, <2>3, WorkerChanges
    <2> QED
      BY <2>0, <2>1, <2>2, <2>3 DEF Next
  <1>7. waiting' \subseteq Threads
    <2>1. waiting \subseteq Threads
      BY <1>0 DEF BulkTypeOK
    <2>2. CASE CallerStep
      BY <1>0, <2>1, <2>2, CallerChanges DEF Threads
    <2>3. CASE FeedStep
      BY <1>0, <2>1, <2>3, FeedChanges
    <2>4. ASSUME NEW w \in Worker, WorkerStep(w) PROVE waiting' \subseteq Threads
      BY <1>0, <2>1, <2>4, WorkerChanges DEF Threads
    <2> QED
      BY <2>2, <2>3, <2>4 DEF Next
  <1>8. pc' \in [Threads -> {"build", "assemble", "holdSlot", "returned", "feed", "feedPanicked", "left",
                           "top", "claim", "history", "holdShare", "encode", "abandon", "release"}]
    <2> DEFINE Labels == {"build", "assemble", "holdSlot", "returned", "feed", "feedPanicked", "left",
                           "top", "claim", "history", "holdShare", "encode", "abandon", "release"}
    <2>0. pc \in [Threads -> Labels]
      BY <1>0 DEF BulkTypeOK
    <2>1. ASSUME CallerStep PROVE pc' \in [Threads -> Labels]
      <3>1. pc' = [pc EXCEPT ![Caller] = pc'[Caller]] /\ pc'[Caller] \in Labels
        BY <1>0, <2>1, CallerChanges
      <3> HIDE DEF Labels
      <3> QED
        BY <2>0, <3>1
    <2>2. ASSUME FeedStep PROVE pc' \in [Threads -> Labels]
      <3> DEFINE l == pc'[Feeder]
      <3>1. pc' = [pc EXCEPT ![Feeder] = l] /\ l \in Labels
        BY <1>0, <2>2, FeedChanges
      <3> HIDE DEF Labels, l
      <3> QED
        BY <2>0, <3>1
    <2>3. ASSUME NEW w \in Worker, WorkerStep(w) PROVE pc' \in [Threads -> Labels]
      <3> DEFINE l == pc'[w]
      <3>1. pc' = [pc EXCEPT ![w] = l] /\ l \in Labels
        BY <1>0, <2>3, WorkerChanges
      <3> HIDE DEF Labels, l
      <3> QED
        BY <2>0, <3>1
    <2> QED
      BY <2>1, <2>2, <2>3 DEF Next
  <1>9. /\ pc'[Caller] \in {"build", "assemble", "holdSlot", "returned"}
        /\ pc'[Feeder] \in {"feed", "feedPanicked", "left"}
    <2>1. /\ pc[Caller] \in {"build", "assemble", "holdSlot", "returned"}
          /\ pc[Feeder] \in {"feed", "feedPanicked", "left"}
      BY <1>0 DEF BulkTypeOK
    <2> QED
      BY <1>0, <2>1, WhoMoves
  <1>10. history' \in [Worker -> Histories]
    <2>0. history \in [Worker -> Histories] /\ \A id \in Job : HistoryDue(id) \in Histories
      BY <1>0 DEF BulkTypeOK, Histories
    <2>1. CASE CallerStep \/ FeedStep
      BY <1>0, <2>0, <2>1, CallerChanges, FeedChanges
    <2> HIDE DEF Histories
    <2>2. ASSUME NEW w \in Worker, WorkerStep(w) PROVE history' \in [Worker -> Histories]
      <3>1. history' = history \/ (job[w] \in Job /\ history' = [history EXCEPT ![w] = HistoryDue(job[w])])
        BY <2>2, WorkerEffects, HistoryObtained
      <3> QED
        BY <2>0, <3>1
    <2> QED
      BY <2>1, <2>2 DEF Next
  <1>11. asm' \in 0 .. layout.n /\ output' \in Seq(Bytes) /\ Len(output') = asm'
    <2>0. /\ asm \in 0 .. layout.n /\ layout.n \in Nat /\ output \in Seq(Bytes) /\ Len(output) = asm
          /\ Empty \in Bytes /\ Job = 0 .. layout.n - 1
          /\ \A id \in Job : slots[id] \in Bytes
      BY <1>0, LayoutKnown DEF BulkTypeOK, LayoutTyped, Bytes, Job
    <2> HIDE DEF Bytes
    <2>1. CASE UNCHANGED <<asm, output>>
      BY <2>0, <2>1
    <2>2. CASE asm \in Job /\ asm' = asm + 1 /\ \E b \in Bytes : output' = Append(output, b)
      BY <2>0, <2>2
    <2> QED
      BY <1>0, <2>0, <2>1, <2>2, Appends
  <1> QED
    BY <1>0, <1>1, <1>2, <1>3, <1>4, <1>5, <1>6, <1>7, <1>8, <1>9, <1>10, <1>11, BuildEffects
       DEF BulkTypeOK, NoBuild, NoOne

-----------------------------------------------------------------------------
(* Initially, and whenever nothing moves.                                  *)

LEMMA BulkInit ==
    ASSUME BulkMtAssumption, Init
    PROVE  BulkInv
  <1>0. /\ frame \in Frames /\ layout = Layout(frame.in) /\ FrameOK(frame)
    BY DEF Init, BulkMtAssumption
  <1>1. LayoutTyped(layout)
    BY <1>0, LayoutCovers DEF FrameOK, BulkMtAssumption
  <1>2. PICK spawned \in SUBSET Worker :
            pc = [t \in Threads |-> CASE t \in spawned -> "top"
                                     [] t = Caller -> "build"
                                     [] t = Feeder /\ Feeds -> "feed"
                                     [] OTHER -> "left"]
    BY DEF Init
  <1>3. /\ Caller \in Threads /\ Feeder \in Threads /\ Caller # Feeder
        /\ Worker \subseteq Threads /\ Caller \notin Worker /\ Feeder \notin Worker
    BY DEF BulkMtAssumption, Threads
  <1>4. \A t \in Threads : pc[t] \in {"top", "build", "feed", "left"}
    BY <1>2
  <1>5. \A w \in Worker : pc[w] \in {"top", "left"}
    <2> SUFFICES ASSUME NEW w \in Worker PROVE pc[w] \in {"top", "left"}
      OBVIOUS
    <2> QED
      BY <1>2, <1>3
  <1>6. pc[Caller] = "build" /\ pc[Feeder] = (IF Feeds THEN "feed" ELSE "left")
    <2>1. Caller \notin spawned /\ Feeder \notin spawned
      BY <1>2, <1>3
    <2> QED
      BY <1>2, <1>3, <2>1
  <1>7. layout.n \in Nat \ {0} /\ layout.donated \in BOOLEAN
    BY <1>1 DEF LayoutTyped
  <1>8. slots \in [Job -> Bytes] /\ history \in [Worker -> Histories]
    BY DEF Init, Bytes, Histories
  <1>9. output \in Seq(Bytes) /\ Len(output) = 0 /\ publishes \in Seq(Nat)
    BY EmptySeq DEF Init
  <1>10. BulkTypeOK
    <2>1. pc \in [Threads -> {"build", "assemble", "holdSlot", "returned", "feed", "feedPanicked", "left",
                           "top", "claim", "history", "holdShare", "encode", "abandon", "release"}]
      BY <1>2, <1>4
    <2>2. job \in [Worker -> Nat] /\ gate \in [published : Nat, panicked : BOOLEAN]
      BY DEF Init
    <2> QED
      <3>1. /\ nextJob \in Nat /\ poison = NoOne /\ donation \in BOOLEAN /\ share = NoBuild
            /\ chainDone \in BOOLEAN /\ waiting \subseteq Threads
            /\ asm \in 0 .. layout.n /\ res \in {"none", "frame", "panic"} /\ Len(output) = asm
        <4>1. poison = NoOne /\ donation = layout.donated /\ share = NoBuild /\ chainDone = FALSE
              /\ nextJob = 0 /\ waiting = {} /\ asm = 0 /\ res = "none"
          BY DEF Init
        <4>2. donation \in BOOLEAN
          BY <1>7, <4>1, Zenon
        <4>3. chainDone \in BOOLEAN /\ waiting \subseteq Threads
          BY <4>1, Zenon
        <4>4. nextJob \in Nat /\ asm \in 0 .. layout.n /\ res \in {"none", "frame", "panic"} /\ Len(output) = asm
          BY <1>7, <1>9, <4>1
        <4> QED
          BY <4>1, <4>2, <4>3, <4>4
      <3> QED
        BY <1>0, <1>6, <1>8, <1>9, <2>1, <2>2, <3>1 DEF BulkTypeOK
  <1>11. Claimed /\ Started /\ Donated
    BY <1>5 DEF Claimed, Started, Donated, Busy, Init
  <1>12. Filled /\ Appended
    <2>1. \A id \in Job : slots[id] = Pending
      BY DEF Init
    <2>2. Pending # Empty
      BY DEF Pending, Empty
    <2>3. asm = 0
      BY DEF Init
    <2> QED
      BY <2>1, <2>2, <2>3, ReferenceApart DEF Filled, Appended
  <1>13. Poison
    <2>1. frame.panics = FeedPass => Feeds
      BY <1>0 DEF FrameOK, Feeds
    <2>2. gate.panicked = FALSE
      BY DEF Init
    <2> QED
      BY <1>5, <1>6, <2>1, <2>2 DEF Poison
  <1>14. Ended
    BY <1>6 DEF Ended
  <1> QED
    BY <1>10, <1>11, <1>12, <1>13, <1>14 DEF BulkInv

LEMMA BulkStutter ==
    ASSUME BulkMtAssumption, BulkInv, UNCHANGED vars
    PROVE  BulkInv'
  <1>1. /\ UNCHANGED <<nextJob, slots, poison, donation, share, publishes, chainDone, gate, waiting, pc,
                       job, history, asm, output, res>>
        /\ frame' = frame /\ layout' = layout /\ UNCHANGED inputVars
    BY DEF vars, inputVars
  <1>2. /\ Job' = Job /\ Bytes' = Bytes /\ Histories' = Histories /\ BuildPrefix' = BuildPrefix
        /\ \A id \in Job : HistoryDue(id)' = HistoryDue(id) /\ Reference(id)' = Reference(id)
    BY <1>1, InputsFixed
  <1>3. BulkTypeOK'
    BY <1>1, <1>2 DEF BulkInv, BulkTypeOK, Threads, NoBuild, NoOne
  <1>4. Claimed' /\ Started' /\ Donated'
    BY <1>1, <1>2 DEF BulkInv, Claimed, Started, Donated, Busy, Pending
  <1>5. Filled'
    BY <1>1, <1>2 DEF BulkInv, Filled, Pending, Empty, Poisoned
  <1>6. Poison' /\ Ended'
    BY <1>1 DEF BulkInv, Poison, Ended, Poisoned
  <1>7. Appended'
    <2>1. \A i \in 1 .. asm : i - 1 \in Job
      <3>1. asm \in 0 .. layout.n /\ layout.n \in Nat
        BY LayoutKnown DEF BulkInv, BulkTypeOK, LayoutTyped
      <3> QED
        BY <3>1 DEF Job
    <2>2. \A i \in 1 .. asm : Reference(i - 1)' = Reference(i - 1)
      <3> TAKE i \in 1 .. asm
      <3>1. PICK id \in Job : id = i - 1
        BY <2>1
      <3>2. Reference(id)' = Reference(id)
        BY <1>2
      <3> QED
        BY <3>1, <3>2
    <2> QED
      BY <1>1, <2>2 DEF BulkInv, Appended, Empty, Poisoned
  <1> QED
    BY <1>3, <1>4, <1>5, <1>6, <1>7 DEF BulkInv

LEMMA BulkStep ==
    ASSUME BulkMtAssumption, BulkInv, Next
    PROVE  BulkInv'
  BY TypeStep, ClaimedStep, StartedStep, DonatedStep, FilledStep, PoisonStep, AppendedStep, EndedStep
     DEF BulkInv

LEMMA BulkImplies == BulkInv => ScheduleFree
  <1> SUFFICES ASSUME BulkInv PROVE ScheduleFree
    OBVIOUS
  <1>1. DOMAIN output = 1 .. asm /\ Len(output) = asm
    <2>1. output \in Seq(Bytes) /\ Len(output) = asm
      BY DEF BulkInv, BulkTypeOK
    <2> HIDE DEF Bytes
    <2> QED
      BY <2>1
  <1>2. \A i \in DOMAIN output : output[i] = Reference(i - 1) \/ (Poisoned /\ output[i] = Empty)
    BY <1>1 DEF BulkInv, Appended
  <1> QED
    BY <1>1, <1>2 DEF ScheduleFree, BulkInv, Ended

(* The inductive invariant: whatever the threads' interleaving, who holds   *)
(* which job, what a slot holds and what the assembly has appended agree    *)
(* with the frame.                                                         *)
THEOREM BulkCorrect ==
    ASSUME BulkMtAssumption
    PROVE  Spec => []BulkInv
  <1>1. Init => BulkInv
    BY BulkInit
  <1>2. BulkInv /\ [Next]_vars => BulkInv'
    BY BulkStep, BulkStutter
  <1> QED
    BY <1>1, <1>2, PTL DEF Spec

(* The frame the scope's workers append is the one the input alone          *)
(* determines, slot by slot, for every number of workers and every schedule *)
(* of claims, builds, chunks and panics (compress_slice_mt).                *)
THEOREM ScheduleNeverShows ==
    ASSUME BulkMtAssumption
    PROVE  Spec => []ScheduleFree
  BY BulkImplies, BulkCorrect, PTL
=============================================================================
