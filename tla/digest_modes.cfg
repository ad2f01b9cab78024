CONSTANTS
    c1 = c1
    c2 = c2
    r1 = r1
    r2 = r2
    Chats = {c1}
    Runs = {r1, r2}
    Modes = {"new_only", "unread", "recent", "latest_n"}
    Limit = 1
    Repeats = TRUE
    MaxMessages = 2
    MaxListed = 1
    MaxFaults = 1
    MaxCuts = 1
SPECIFICATION Spec
SYMMETRY Symmetry
INVARIANTS NothingSkipped PositionIsDigested
PROPERTIES BackOnlyWhenOvertaken ImplementsReadLedger
