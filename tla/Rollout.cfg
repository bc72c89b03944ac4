SPECIFICATION FairSpec
CONSTANTS
    Nil = Nil
    Controllers <- MCControllers
    Env <- OpenShift
    Specs <- MCSpecs
    Offered <- MCOffered
    Lagging <- MCLagging
    Foreign <- MCForeign
    Deletable <- MCDeletable
    Target = 5
    MaxEdits = 2
    MaxTroubles = 1
    MaxEvents = 2
INVARIANTS
    AtRestAsWanted
    OneProcessor
PROPERTIES
    ReplicasLeftAlone
    ConfigFirst
    
    Converges
CHECK_DEADLOCK FALSE
