CONSTANTS
    MaxBlockSize = 2
    MinWindowSize = 2
    WildcopySlack = 1
    Overlength = 2
    Windows = {1, 4}
    Pledges <- FlatPledges
    Dicts = {0, 7}
    MaxProduced = 16
    MaxFrames = 2
    Slack = 4
    CopyAtOnce = 4
    Powers = {1, 2, 4, 8, 16, 32}
    RingWindows = {3}
    RingDicts = {2}
    RingSizes = {2, 3}
    RingOffsets = {1, 5}
    RingOutput = 9
    RingFrames = 1
    FeedChunk = 2
    CInputs = {0, 3}
    CRooms = {1, 4}
    Yields = {0, 2}
    MaxLeft = 3
    CFrames = 2
    MaxSets = 2
    FedFrames <- SessionFrames
    Window = 1
    Targets = {0, 1, 3}
    Setters = {"level", "pledge", "load", "prefix", "cdict", "session", "parameters", "init"}
SPECIFICATION PartsSpec
INVARIANTS ServesOutput WindowServed NeverStuck SessionFaithful HuntFaithful FrameWhole ShapeOfBytes MatchesReproduce LinksOwn   HintKept  FrameTerms
PROPERTIES  LayoutSound SegmentsAsWhole DecodedAsCoded
CHECK_DEADLOCK FALSE
