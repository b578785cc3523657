\* Two threads, two isolates, a second thread at the same address.
SPECIFICATION Spec
CONSTANTS
    Thread = {t1, t2}
    Isolate = {i1, i2}
    None = None
    Interrupts = TRUE
    MaxDepth = 3
    MaxFrames = 3
    MaxLives = 2
INVARIANTS
    TypeOK
    RunningIsolatesExist
    WatchdogGoesFirst
    LeaksAreCounted
    EntriesNest
PROPERTIES
    ImplementsIsolates
CHECK_DEADLOCK FALSE
