\* A main thread, a worker, two fibers at three pairs of bounds, one isolate, operations nested once.
SPECIFICATION Spec
CONSTANTS
    Native = {"main", "worker"}
    Fiber = {f, g}
    Isolate = {"i"}
    NativeStack <- MCNativeStack
    Region <- MCRegion
    Split = {3}
    NativeGuard = 2
    FiberReserve = 1
    Clamp = 1
    Guess = 2
    DefaultSize = 4
    MaxDepth = 2
SYMMETRY MCSymmetry
INVARIANTS
    TypeOK
    LimitFitsItsStack
    ScanStaysMapped
