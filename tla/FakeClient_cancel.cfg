SPECIFICATION Spec
CONSTANTS
    MinInstant <- MCMinInstant
    MaxInstant = 7
    Queues = {"a", "default"}
    QueueOrder <- MCQueueOrder
    Configured = {"a"}
    Registered <- MCRegistered
    Fallback <- MCFallback
    LibraryPolicy <- MCLibraryPolicy
    Defaults <- MCDefaults
    FetchLimit = 2
    MoveDueBatch = 1
    MoveDueMaxBatches = 4
    PerQueueJobBudget = 2
    MaxTries = 2
    RescueTTL = 0
    Delays = {0}
    MaxID = 3
    MaxNow = 1
    MaxFaults = 2
    MaxSnoozes = 1
    MaxRescues = 1
    InsertsFor <- MCInserts
    ResultsOf <- MCResults
    MaxRounds = 3
PROPERTIES
    CancelledBetweenJobs
