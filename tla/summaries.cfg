CONSTANTS
    c1 = c1
    c2 = c2
    MaxMessages = 3
    Chats = {c1, c2}
    Slots = 2
    Retries = 1
    MaxReduce = 2
    MaxTopics = 2
    MaxFaults = 1
SPECIFICATION FairSpec
INVARIANTS NothingAskedTwice NoChatDominates CompleteBatchesSuffice FailedJobIsMarked
PROPERTIES ImplementsSavedSummary GenerateReturns
CHECK_DEADLOCK FALSE
