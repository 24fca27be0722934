CONSTANTS
    HeapSize = 14
    HdrSize = 2
    Sizes = {1, 2, 4}
SPECIFICATION Spec
INVARIANTS
    HeapPartitioned
PROPERTIES
    HeadersPermanent
    PayloadsExclusive
