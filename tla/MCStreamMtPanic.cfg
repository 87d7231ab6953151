CONSTANTS
    w1 = w1
    w2 = w2
    Worker = {w1, w2}
    Size = 2
    MinJob = 2
    Overlap = 1
    Burst = 2
    BufCapMax = 7
    Step = 1
    Slack = 0
    Modes <- WritePath
    Pledges <- Open
    Chunks = {7}
    Sources = {7}
    MaxPos = 7
    MaxFaults = 1
    MaxUnwinds = 0
SPECIFICATION FairSpec
PROPERTIES PanicSurfaces
CHECK_DEADLOCK FALSE
