\* Two realms, one context more than realms, two procs, four activations deep.
SPECIFICATION Spec
CONSTANTS
    Realm = {0, 1}
    Proc = {1, 2}
    NoProc = 0
    MaxSlots = 2
    MaxRealms = 1
    MaxContexts = 3
    MaxProcs = 2
    MaxDepth = 4
    Minted = {FALSE}
INVARIANTS
    TypeOK
    RequestsKeepTheirRealm
    LiveFunctionsReachTheirProc
    FreeListIsExact
PROPERTIES
    HandlerDiesWithItsRealm
    CheckpointsKeepRealms
