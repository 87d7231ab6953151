CONSTANTS
    FedFrames <- TrailedFrames
    Window = 1
    Targets = {0, 1, 3}
SPECIFICATION SessionSpec
INVARIANTS TrailingUntouched
CHECK_DEADLOCK FALSE
