CONSTANTS
    Worker = {w1}
    N = 5
    Window = 2
    LaneMode = TRUE
    Frames = 2
    FrameOf <- FirstFrameOfFour
    Lanes = 2
    LaneFrames <- LanePerFrameOfTwo
    Pos <- UnitPositions
    Deferred = FALSE
SPECIFICATION MCSpec
PROPERTY FailureReturns
CHECK_DEADLOCK FALSE
