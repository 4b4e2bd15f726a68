CONSTANTS
    LogEnd = 4
    Undecodable = {1}
    MaxRetries = 2
    MaxFaults = 2
    Incidents = {"inc1"}
    Message <- MCMessage
    Callers = {c1}
    Handler = handler
    Nobody = Nobody
    MaxRuns = 2
SPECIFICATION FairSpec
INVARIANTS CommittedMeansSettled OneEventRunPerIncident AnswersComplete
PROPERTIES FinishedRunsFrozen RunsEnd RecordsSettle
