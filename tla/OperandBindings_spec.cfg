SPECIFICATION FairSpec
CONSTANTS
 Controllers = {"legacy", "flp"}
 Followed <- InformerPairs
 MaxEdits = 1
 MaxCreates = 1
 MaxFaults = 1
INVARIANT BindingsMatchSpec
PROPERTY DeletionEnds
CHECK_DEADLOCK FALSE
