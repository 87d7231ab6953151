CONSTANTS
    Worker = {w1}
    N = 3
    Window = 3
    LaneMode = TRUE
    Frames = 3
    FrameOf <- OneSegmentFrames
    Lanes = 2
    LaneFrames <- Lpt
    Pos <- LptPositions
    Deferred = FALSE
SPECIFICATION MCSpec
INVARIANT DisjointRanges
CHECK_DEADLOCK FALSE
