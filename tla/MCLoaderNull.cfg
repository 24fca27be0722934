SPECIFICATION Spec
CONSTANTS
    PAGE_SIZE = 3
    Headers <- MCHeaders
    Programs <- MCPrograms
    USER_STACK_PAGE_COUNT = 2
    UserStackPage = 4
INVARIANTS
    EverySegmentLoaded
