SPECIFICATION Spec
CONSTANTS
 Controllers = {"legacy"}
 Components = {"FlowCollectorController", "EBPFAgents", "WebConsole"}
 Announced = {"WebConsole"}
 Reported = {"Ready"}
 Steps = 4
 MayFail = TRUE
 MayLose = FALSE
 MayEdit = FALSE
INVARIANT RecoveryAnnounced
