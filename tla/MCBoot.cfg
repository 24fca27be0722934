SPECIFICATION Spec
CONSTANTS
    TestTasks = 1
    Returning = {3}
    MaxNested = 1
    Loaders <- MCLoaders
    TssAddress <- MCTssAddress
INVARIANTS
    ResumesIntact
    UserModeReady
    BootOutcome
    SegmentsInSync
