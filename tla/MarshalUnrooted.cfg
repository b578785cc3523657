\* A blob that a Set holds and that is referred to again.
SPECIFICATION Spec
CONSTANTS
    MaxObjects = 3
    Leaf = {1}
    MaxMarshalDepth = 2
    MaxReads = 3
INVARIANT
    BuiltNeverHoldsTheSoleReference
