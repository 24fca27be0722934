SPECIFICATION Spec
CONSTANTS
    Frames = 8
    PageSize = 4
    EntryBits = 2
    WordBits = 4
    Layouts <- PcLayouts
    MaxHeld = 16
INVARIANTS
    FramesOwned
    ReservedNeverGranted
    AtMostEightOwners
    FreedIsFree
