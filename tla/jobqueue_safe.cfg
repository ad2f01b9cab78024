CONSTANTS
    w1 = w1
    w2 = w2
    k1 = k1
    Workers = {w1, w2}
    NoWorker = NoWorker
    Keys = {k1}
    NoKey = NoKey
    MaxJobs = 2
    AttemptLimits = {2}
    Lease = 3
    Backoff = {1, 2}
    MaxSilence = 2
    FinishBound = 1
    MaxFaults = 2
    Horizon = 0
SPECIFICATION FairSpec
INVARIANTS ExclusiveExecution AttemptsWithinBudget
PROPERTIES EveryJobSettles FinishedIsFinal ImplementsExclusiveJobs
