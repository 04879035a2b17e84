SPECIFICATION LiveSpec
CONSTANTS
    NbFiles = 2
    MaxBlocks = 2
    NbBlocks = 2
    MaxFiles = 4
    FilesBeforeFlush = 2
    DiskThreads = {d1, d2}
    MaxFaults = 1
CHECK_DEADLOCK FALSE
INVARIANTS FlushedBeforeReported OneOutcome SkippedHasPlaceholder BlocksComeBack CleanSessionReportsAll
PROPERTY SessionEnds
