SPECIFICATION FairSpec
CONSTANTS
 APIs = {"OCPSecurity", "LokiStack"}
 MaxAttempts = 2
 MaxFaults = 6
 MaxChanges = 2
INVARIANT PlatformKnown
 
 
PROPERTY EventuallyDiscovered
CHECK_DEADLOCK FALSE
