CONSTANTS
    g1 = g1
    Groups = {g1}
    NoGroup = NoGroup
    MaxMessages = 1
    MaxTasks = 2
SPECIFICATION Spec
INVARIANTS TextAnswersQuestion ProgressMeansWork
PROPERTIES ProgressEnds LoopComesBack
