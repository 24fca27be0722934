SPECIFICATION Spec
CONSTANTS
    TestTasks = 1
    Exiting <- NoTask
    Returning <- FirstTest
    Keys = FALSE
    MaxNest = 1
PROPERTIES
    ReturnedIsRemoved
