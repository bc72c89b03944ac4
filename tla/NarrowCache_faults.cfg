SPECIFICATION Spec
CONSTANTS
    Static = {s}
    Dynamic = {}
    Writers = {s}
    Goroutines = {g1, g2}
    MaxRev = 2
    MaxCloses = 1
    MaxFaults = 1
SYMMETRY GoroutineSymmetry
INVARIANTS
    CacheCoherent
    EntryIsFed
CHECK_DEADLOCK FALSE
