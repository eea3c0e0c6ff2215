SPECIFICATION Spec
CONSTANTS
    MaxInter = 2
    MaxParam = 8
    MaxOSC = 8
    IntSize = 4096
    Chunks <- LongChunks
    Sizes <- ScreenSizes
    MaxCalls = 3
CHECK_DEADLOCK FALSE
INVARIANTS WriteNeverPanics
