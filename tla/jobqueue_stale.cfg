CONSTANTS
    w1 = w1
    w2 = w2
    k1 = k1
    Workers = {w1, w2}
    NoWorker = NoWorker
    Keys = {k1}
    NoKey = NoKey
    MaxJobs = 2
    AttemptLimits = {3}
    Lease = 3
    Backoff = {1}
    MaxSilence = 4
    FinishBound = 1
    MaxFaults = 1
    Horizon = 0
SPECIFICATION Spec
SYMMETRY Symmetry
INVARIANTS OneActivePerKey
