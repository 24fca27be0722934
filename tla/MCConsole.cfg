SPECIFICATION Spec
CONSTANTS
    Task <- MCTask
    Blank <- MCBlank
    Newline <- MCNewline
    framebuf_height = 2
    framebuf_width = 2
    IntBits = 6
    LongBits = 8
    Calls <- MCCalls
INVARIANTS
    CursorOnScreen
    ScreenShowsEnd
    PrintsFormat
PROPERTIES
    Returns
