SPECIFICATION Spec
CONSTANTS
    MinInstant <- MCMinInstant
    MaxInstant = 3
    Queues = {"q"}
    Clock = {0, 2}
    Boosts <- MCBoosts
    StartTimes <- MCStartTimes
    RetryTimes <- MCRetryTimes
    TTL = 1
    Retention <- RetentionOfOne
    Cancellable = {}
    Limits = {1}
    MaxBatch = 2
    MaxID = 2
    MaxGeneration = 2
    MaxClaims = 2
    Sessions = {s1, s2}
SYMMETRY SessionSymmetry
INVARIANTS
    TypeOK
    RepliesAreTrue
PROPERTIES
    HolderLosesOnlyToSilence
    ImplementsContract
