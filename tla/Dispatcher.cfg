SPECIFICATION FairSpec
CONSTANTS
    Queues <- MCQueues
    Weight <- MCWeight
    Concurrency <- MCConcurrency
    MaxWorkers = 2
    Busy = {1, 3}
INVARIANTS
    TypeOK
    CapsHold
PROPERTIES
    HeavierFirst
    NoStarvation
