SPECIFICATION Spec
CONSTANTS
    MaxInter = 2
    MaxParam = 8
    MaxOSC = 8
    IntSize = 4096
    Chunks <- AllChunks
    Sizes <- ScreenSizes
    MaxCalls = 4
CHECK_DEADLOCK FALSE
INVARIANTS ScreensInShape PanicsOnlyAtPendingWrap RevTracksScreen
PROPERTIES AltLeavesPrimary
