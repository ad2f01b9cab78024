CONSTANTS
    c1 = c1
    c2 = c2
    r1 = r1
    r2 = r2
    Chats = {c1, c2}
    Runs = {r1}
    Modes = {"new_only"}
    Limit = 2
    Repeats = FALSE
    MaxMessages = 2
    MaxListed = 3
    MaxFaults = 1
    MaxCuts = 1
SPECIFICATION FairSpec
INVARIANTS ListedOncePerFault
 
