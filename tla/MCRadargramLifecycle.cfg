CONSTANTS
    r1 = r1
    r2 = r2
    r3 = r3
    g1 = g1
    g2 = g2
    g3 = g3
    anna = anna
    bert = bert
    t1 = t1
    t2 = t2
    Revisions = {r1, r2, r3}
    None = None
    Grids = {g1, g2, g3}
    GridOf <- MCFirstWithout
    Users = {anna, bert}
    Tokens = {t1}
    MaxDocs = 2
    External = FALSE
    KeepFails = TRUE
    Crashes = TRUE
    Returns = {}
SPECIFICATION Spec
INVARIANTS
    PicksPlaceable
    NothingAuthoredLost
SYMMETRY Symmetric
PROPERTIES
    InstallSparesPicks
CHECK_DEADLOCK FALSE
