SPECIFICATION Spec
CONSTANTS
    TestTasks = 2
    Exiting <- UserTasks
    Returning <- FirstTest
    Keys = TRUE
    MaxNest = 1
INVARIANTS
    RingClosed
    SchedHeadAllocated
PROPERTIES
    SwitchesInOrder
    HeapUndisturbed
    EveryTaskRuns
    ExitCompletes
    MainRuns
    InitStaysQueued
