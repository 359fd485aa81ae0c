SPECIFICATION Spec
CONSTANTS
    MinInstant <- MCMinInstant
    MaxInstant = 7
    Queues = {"q"}
    Queue = "q"
    c1 = c1
    c2 = c2
    Clients = {c1, c2}
    Jobs = {1}
    Concurrency = 2
    MaxAttempts = 1
    RescueTTL = 3
    RetryDelay = 1
    MaxCrashes = 1
    MaxFaults = 3
    MaxSnoozes = 1
INVARIANTS
    AttemptsWithinMax
