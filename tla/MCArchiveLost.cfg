SPECIFICATION MCSpec
CONSTANTS
    People = {n1, n2}
    Rooms = {p1}
    Clerks = {c1, c2}
    Nobody = nobody
    MaxLinks = 2
    MaxTokens = 1
    MaxRemovals = 1
    Projects = {k1, k2}
    Visitors = {v1}
    Managers = {m1, m2}
    Nowhere = nowhere
    MaxChanges = 3
    MaxRestarts = 1
    Subjects = {"projects"}
INVARIANTS
    ArchiveStays
CHECK_DEADLOCK FALSE
