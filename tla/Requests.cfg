\* Two requests deep, two deadlines: those of two nested requests, or of one
\* and of the request after it.
SPECIFICATION Spec
CONSTANTS
    AutoMode = TRUE
    MaxArms = 2
    MaxDepth = 2
INVARIANTS
    TypeOK
    IdleIsClean
    TerminateSurvivesNesting
    TimeoutIsReported
    OomIsReported
    DrainingIsMarked
PROPERTIES
    DeadlineEndsRequest
    TerminateEndsRequests
