SPECIFICATION StoreSpec
CONSTANTS
    Sessions = {s1, s2}
    EpochBound = 2
    EpochMax = 3
    Overlap = FALSE
SYMMETRY AnySession
INVARIANTS
    StandsOnGoodLeaf
PROPERTIES
    StoreOnlyRises
    BoundedRise
