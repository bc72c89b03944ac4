SPECIFICATION FairSpec
CONSTANTS
    Static = {}
    Dynamic = {d}
    Writers = {}
    Goroutines = {g1, g2}
    MaxRev = 3
    MaxCloses = 2
    MaxFaults = 0
INVARIANTS
    NoLostWakeup
PROPERTY EventuallyUpToDate
CHECK_DEADLOCK FALSE
