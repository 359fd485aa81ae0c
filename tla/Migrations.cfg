SPECIFICATION FairSpec
CONSTANTS
    old = old
    new = new
    hasty = hasty
    Processes <- MCProcesses
    Known <- MCKnown
    Indexes <- MCIndexes
    Names <- MCNames
    TimedOut = {hasty}
    MaxAttempts = 1
    MaxCalls = 2
    MaxFaults = 3
INVARIANTS
    TypeOK
    NilMeansUsable
    AppliedOnce
PROPERTIES
    ValidForEver
    UpEnds
