SPECIFICATION Spec
CONSTANTS
    AutoMode = TRUE
    MaxArms = 2
    MaxDepth = 2
INVARIANT EveryTimeoutIsReported
