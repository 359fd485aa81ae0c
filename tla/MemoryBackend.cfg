SPECIFICATION Spec
CONSTANTS
    MinInstant <- MCMinInstant
    MaxInstant = 7
    Queues = {"q"}
    Clock = {0, 2}
    Boosts <- DeepBoosts
    StartTimes <- DeepStartTimes
    RetryTimes <- DeepRetryTimes
    TTL = 1
    Retention <- RetentionOfOne
    Cancellable = {1}
    Limits = {1}
    MaxBatch = 2
    MaxID = 1
    MaxGeneration = 4
INVARIANTS
    TypeOK
    OneHolder
    RowsSound
    BatchIsLoop
PROPERTIES
    HolderLosesOnlyToSilence
    ImplementsContract
