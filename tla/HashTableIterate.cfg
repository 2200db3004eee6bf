SPECIFICATION Spec
CONSTANTS
    k1 = k1
    k2 = k2
    k3 = k3
    k4 = k4
    d1 = d1
    d2 = d2
    NULL = NULL
    Keys <- MCThree
    Data <- MCOneDatum
    Hash <- MCHash
    Size = 1
    RehashSizes = {1, 2}
    Heuristics <- MCAllHeuristics
    Rehashes = {}
    Limits = {2}
    Iterates = TRUE
    AllocFails = TRUE
INVARIANTS
    ListsSound
PROPERTIES
    IterationComplete
