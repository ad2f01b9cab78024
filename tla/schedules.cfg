CONSTANTS
    r1 = r1
    r2 = r2
    g1 = g1
    c1 = c1
    c2 = c2
    Requests = {r1, r2}
    Groups = {g1}
    NoGroup = NoGroup
    Clocks = {c1, c2}
    Early = {c1}
    NoTime = NoTime
    Forms = {{"enabled"}, {"group", "time"}}
    MaxSchedules = 2
    MaxRuns = 1
    MaxEvents = 2
SPECIFICATION Spec
SYMMETRY Symmetry
INVARIANTS OneSchedulePerSlot EditsAreKept BatchIsWhole 
PROPERTIES LastRunIsKept
