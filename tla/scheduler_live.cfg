CONSTANTS
    w1 = w1
    w2 = w2
    s1 = s1
    s2 = s2
    Workers = {w1}
    Schedules = {s1}
    FailingSteps = {}
    Errors = {}
    MaxAttempts = 2
    MaxDays = 2
    MaxJobs = 4
    MaxManual = 1
    MaxFaults = 1
SPECIFICATION FairSpec
INVARIANTS DuplicatesAreFaults
PROPERTIES LastDayRuns
