\* Three containers of any kind, five values read, truncated from depth two on.
SPECIFICATION Spec
CONSTANTS
    MaxObjects = 3
    Leaf = {1}
    MaxMarshalDepth = 2
    MaxReads = 5
INVARIANTS
    TypeOK
    CopyIsFaithful
    BuiltIsRooted
