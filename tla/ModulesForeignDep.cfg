\* The instance of Modules.cfg, four activations deep.
SPECIFICATION Spec
CONSTANTS
    MaxRealms = 1
    MaxContexts = 3
    MaxCompiled = 2
    MaxDepth = 4
INVARIANTS
    LinksStayInContext
