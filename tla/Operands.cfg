SPECIFICATION Spec
CONSTANTS
    Nil = Nil
    Platforms <- MCPlatforms
    AgentEdits <- MCAgentEdits
    MetricsEdits <- MCMetricsEdits
    ProcessorEdits <- MCProcessorEdits
    OutputEdits <- MCOutputEdits
    DeploymentEdits <- MCDeploymentEdits
    SliceMenu <- MCSliceMenu
    MetricMenu <- MCMetricMenu
    MaxEdits = 2
INVARIANTS
    DefaultsSelfSufficient
    BandsDisjoint
    
    CountedOnce
    
    NoScopeLost
    VolumesKept
    AgentReachesProcessor
    InformersReachCache
    ScrapeMatchesServer
    PolicyAdmitsTraffic
    
CHECK_DEADLOCK FALSE
