CONSTANTS
    Jobs <- RawJobs
    Rows = {"fast"}
    MaxJobs = 1
    BlockLens = {8, 9}
    Histories <- MatchHistories
    FirstHistory <- StartHistory
    Word = 2
    HashRead = 3
    MinLen = 3
    RepBonus = 1
    Ramp = 4
    LongMatch = 3
    ChainLong = 5
    Slots = 16
    ChainSize = 32
    Window = 32
    SearchDepth = 2
    LazyDepth = 2
    Stride = 2
    Retain = 4
    SeedAgree = 1
    SeedConfirms = {4}
    SeedMatches = 3
    SeedBudget = 7
    EpochSpan = 40
    EpochRoll = 90
SPECIFICATION Spec
INVARIANT ZeroMeansKnown
CHECK_DEADLOCK FALSE
