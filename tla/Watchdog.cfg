\* Two nested requests and one more: ties, an inner deadline before, with and
\* after the outer one, a re-arm after the outermost request, and a shutdown.
SPECIFICATION Spec
CONSTANTS
    Timeouts = {1, 2}
    MaxArms = 3
    Horizon = 4
INVARIANTS
    TypeOK
    NoLostWakeup
    StillWatched
    NoFalseReport
    SomeoneIsTold
PROPERTIES
    TerminatesOnlyExpired
    DeadlineEnforced
    ShutdownCompletes
    ImplementsDeadlines
