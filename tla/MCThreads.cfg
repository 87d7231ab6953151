CONSTANTS
    c1 = c1
    c2 = c2
    s1 = s1
    s2 = s2
    f1 = f1
    f2 = f2
    w1 = w1
    w2 = w2
    feeder = feeder
    caller = caller
    NoCall = NoCall
    Call = {c1, c2}
    Slot = {s1, s2}
    Want <- WantOf
    Depth = 1
    Frame = {f1, f2}
    Ring = 2
    MaxWrites = 2
    Worker = {w1, w2}
    Feeder = feeder
    Caller = caller
    EncoderFrames <- BulkFrames
    ExecutorFrames <- PieceFrames
    BlockSize = 1
    MinMtInput = 2
    MinJobSize = 1
    MaxJobSize = 64
    CaptureJobCap = 2
    ProbeSpan = 1
    ProbeMinFrame = 2
    KeepReach = 2
    ShrinkReach = 1
    LdmMidsizeWindow = 4
    LdmFullWindow = 8
    SpfMinPrefix = 1
    SpfSeg = 1
    JobFloor = 3
    FormulaWorkers = {1, 2}
    RaisedSizes = {3}
    MinJob = 2
    Slack = 1
    LagNum = 3
    LagDen = 8
SPECIFICATION ThreadsSpec
INVARIANTS WakeNotStolen LeaseOutlived SumIsInline BlocksOutlived ScheduleFree ReadsFinal VerdictIsRound 
PROPERTIES EveryCallReturns IdleThreadsRetire
CHECK_DEADLOCK FALSE
