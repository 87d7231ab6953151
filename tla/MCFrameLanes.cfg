CONSTANTS
    Worker = {w1, w2}
    LaneWorkers = {v1}
    N = 4
    Window = 2
    LaneMode = FALSE
    Frames = 3
    FrameOf <- FramesOfSegments
    Lanes = 2
    LaneFrames <- Consecutive
    Pos <- Positions
SPECIFICATION FormsSpec
INVARIANTS LandsInPlace  GrownWithinPlaced  StagedWindow
PROPERTIES ImplementsSeqDecode CallsReturn
CHECK_DEADLOCK FALSE
