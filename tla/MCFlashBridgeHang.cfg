\* One attempt is enough for an OpenOCD that never connects.
CONSTANTS
    Attempts = 1
    Window = 1
    MaxFrames = 1
SPECIFICATION BridgeSpec
PROPERTY TimeoutBoundsRun
CHECK_DEADLOCK FALSE
