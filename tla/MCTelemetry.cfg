SPECIFICATION FairSpec
CONSTANTS
    MaxOrders = 2
    Payloads <- MCPayloads
    Plan <- MCPlan
    ScrapesPerSegment = 2
    MaxInflight = 2
    MaxStore = 1
    MaxPolls = 4
    MaxFaults = 1
    MaxIdle = 1
    MaxAnomalyPercent = 50
    PublishOnlyAnomalies = TRUE
    Scale = 60
    RollingWindow = 2
    None = None
INVARIANTS
    LiveMatchesOffline
    WindowsAccountForTraffic
    QuantilesLocateLatency
    StreamMatchesBatch
    AnomaliesReconcile
    HealthIsCurrent
    LabelsHonest
PROPERTIES
    CollectionEnds
CHECK_DEADLOCK FALSE
