CONSTANTS
    r1 = r1
    r2 = r2
    f1 = f1
    f2 = f2
    n1 = n1
    c1 = c1
    c2 = c2
    p1 = p1
    Requests = {r1, r2}
    Folders = {f1, f2}
    Names = {n1}
    NoName = NoName
    Chats = {c1, c2, p1}
    Private = {p1}
    Channels = {c1}
    NameOf <- MCNameOf
    Content <- MCContent
    MaxGroups = 2
    MaxEvents = 2
SPECIFICATION Spec
SYMMETRY Symmetry
INVARIANTS NothingLeftBehind  NoTwinGroups
PROPERTIES BackByLoginOnly SyncFillsGroups
