CONSTANTS
    r1 = r1
    r2 = r2
    t1 = t1
    g1 = g1
    g2 = g2
    Requests = {r1, r2}
    Titles = {t1}
    Tags = {g1, g2}
    None = None
    Headed = {1}
    Rest = TRUE
    MaxArticles = 2
    MaxNumber = 2
    MaxEvents = 2
SPECIFICATION Spec
SYMMETRY Symmetry
INVARIANTS SlugsWithoutGap EditsAreKept VaultMatchesTable OwnTextsSurvive
