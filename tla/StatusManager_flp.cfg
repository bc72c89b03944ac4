SPECIFICATION Spec
CONSTANTS
 Controllers = {"flp"}
 Components = {"FLPParent", "FLPTransformer", "FLPInformers"}
 Announced = {}
 Reported = {"Ready", "InProgress", "Degraded"}
 Steps = 1
 MayFail = TRUE
 MayLose = FALSE
 MayEdit = FALSE
INVARIANT TransientIsRechecked
INVARIANT ActiveShown
 
 
