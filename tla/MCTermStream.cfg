SPECIFICATION FairSpec
CONSTANTS
    Max = 2
    Clients = {c1}
    MaxChunk = 3
    MaxBytes = 6
    MaxPrior = 3
    SepLen = 1
INVARIANTS
    WindowIsTail
    NoLostWakeup
PROPERTIES
    DeliversInOrder
    SkipsOnlyEvicted
    EofAfterLastByte
    ExitReleasesAttach
    OutputReachesClients
