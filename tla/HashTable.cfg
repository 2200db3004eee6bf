SPECIFICATION Spec
CONSTANTS
    k1 = k1
    k2 = k2
    k3 = k3
    k4 = k4
    d1 = d1
    d2 = d2
    NULL = NULL
    Keys <- MCFour
    Data <- MCTwoData
    Hash <- MCHashEven
    Size = 1
    RehashSizes = {4}
    Heuristics = {}
    Rehashes = {TRUE}
    Limits = {3}
    Iterates = FALSE
    AllocFails = FALSE
SYMMETRY MCSymmetry
INVARIANTS
    BucketBound
PROPERTIES
    ImplementsAgeMap
