CONSTANTS
    w1 = w1
    w2 = w2
    s1 = s1
    s2 = s2
    Workers = {w1}
    Schedules = {s1}
    FailingSteps = {"summarize"}
    Errors = {"permanent"}
    MaxAttempts = 2
    MaxDays = 1
    MaxJobs = 2
    MaxManual = 0
    MaxFaults = 0
SPECIFICATION Spec
INVARIANTS NoDuplicateJobs
