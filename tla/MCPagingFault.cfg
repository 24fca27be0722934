SPECIFICATION Spec
CONSTANTS
    RegionPages = 2
    Image <- ImagePages
    LowPage = 0
    FirstPage = 11
    LastPage = 23
    StackPages = 3
    Segments <- Overlapping
    ReadOnly <- Texts
    USER_STACK_PAGE_COUNT = 1
    UserStackPage = 8
    TestTasks = 1
PROPERTIES
    HandlesOwnFault
