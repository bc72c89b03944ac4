SPECIFICATION Spec
CONSTANTS
 Controllers = {"legacy", "refresh"}
 Components = {"EBPFAgents", "FlowCollectorController"}
 Announced = {}
 Reported = {"Ready", "InProgress"}
 Steps = 2
 MayFail = FALSE
 MayLose = TRUE
 MayEdit = TRUE
INVARIANT PublishedIsCurrent
PROPERTY SnapshotKept
