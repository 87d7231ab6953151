CONSTANTS
    HEADER_PREFIX = 2
    FRAME_HEADER_MIN = 3
    BlockHeaderLen = 2
    TrailerLen = 2
    Worlds <- EmptyLastWorlds
    Inputs = {0, 1, 3, 12}
    Rooms = {0, 1, 5}
    MaxCalls = 2
SPECIFICATION Spec
INVARIANTS WholeFramesDecode
CHECK_DEADLOCK FALSE
