\* A reset from a microtask of a script's own checkpoint.
SPECIFICATION Spec
CONSTANTS
    Realm = {0, 1}
    Proc = {1}
    NoProc = 0
    MaxSlots = 1
    MaxRealms = 1
    MaxContexts = 3
    MaxProcs = 1
    MaxDepth = 4
    Minted = {FALSE, TRUE}
PROPERTY NoResetWhileDraining
