SPECIFICATION Spec
CONSTANTS
 Controllers = {"legacy", "flp"}
 Followed <- InformerPairs
 MaxEdits = 0
 MaxCreates = 1
 MaxFaults = 0
INVARIANT CleanAfterDeletion
CHECK_DEADLOCK FALSE
