SPECIFICATION LiveSpec
CONSTANTS
    NbFiles = 2
    MaxBlocks = 2
    MaxVolume = 3
    NbBlocks = 2
    MaxFiles = 4
    MaxFetch = 4
    RAOModes = {TRUE, FALSE}
    DiskThreads = {d1, d2}
    VerifyFiles = {1}
    MaxFaults = 1
CHECK_DEADLOCK FALSE
INVARIANTS DeliveredIsWhole OneOutcome NoJobForgotten BlocksComeBack
PROPERTY SessionEnds
