CONSTANTS
    w1 = w1
    w2 = w2
    s1 = s1
    s2 = s2
    Workers = {w1, w2}
    Schedules = {s1}
    FailingSteps = {"collect", "export"}
    Errors = {"temporary", "permanent"}
    MaxAttempts = 2
    MaxDays = 2
    MaxJobs = 3
    MaxManual = 0
    MaxFaults = 1
SPECIFICATION Spec
SYMMETRY Symmetry
INVARIANTS OnePipelinePerDay MarkedDayHasItsJob
