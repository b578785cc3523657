SPECIFICATION Spec
CONSTANTS
    Thread = {t1}
    Isolate = {i1, i2}
    None = None
    Interrupts = TRUE
    MaxDepth = 3
    MaxFrames = 3
    MaxLives = 1
INVARIANTS
    DepthIsTheStack
CHECK_DEADLOCK FALSE
