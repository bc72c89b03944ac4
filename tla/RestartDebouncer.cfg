SPECIFICATION FairSpec
CONSTANTS
 Profiles = {intermediate, modern, custom}
 Applied = intermediate
 Interval = 3
 MaxObserves = 4
INVARIANT NoLostChange
INVARIANT TimerOutlastsQuiet
PROPERTY KeepsPromise
PROPERTY EventuallyRestarts
CHECK_DEADLOCK FALSE
CONSTANTS
 intermediate = intermediate
 modern = modern
 custom = custom
