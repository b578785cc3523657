\* Two realms and a context to reset one into, two modules or scripts, three
\* activations.
SPECIFICATION Spec
CONSTANTS
    MaxRealms = 1
    MaxContexts = 3
    MaxCompiled = 2
    MaxDepth = 3
INVARIANTS
    TypeOK
    OneLinkAtATime
    EdgesAskTheirResolver
    InstantiateStaysInContext
    VerdictIsFresh
