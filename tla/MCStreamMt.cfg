CONSTANTS
    w1 = w1
    w2 = w2
    Worker = {w1, w2}
    Size = 2
    MinJob = 2
    Overlap = 1
    Burst = 2
    BufCapMax = 7
    Step = 1
    Slack = 0
    Modes <- ThreeModes
    Pledges <- OpenOrPledged
    Chunks = {3, 8}
    Sources = {4, 11}
    MaxPos = 11
    MaxFaults = 1
    MaxUnwinds = 1
SPECIFICATION FairSpec
INVARIANTS BufferServes ChunkingIndependent FrameWhole
PROPERTIES FlushVisible CallsReturn
CHECK_DEADLOCK FALSE
