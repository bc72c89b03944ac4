SPECIFICATION Spec
CONSTANTS
 Controllers = {"legacy"}
 Followed <- ConsolePairs
 MaxEdits = 1
 MaxCreates = 2
 MaxFaults = 1
INVARIANT FinalizerKept
PROPERTY BoundUnderFinalizer
CHECK_DEADLOCK FALSE
