CONSTANTS
    r1 = r1
    r2 = r2
    r3 = r3
    g1 = g1
    g2 = g2
    g3 = g3
    anna = anna
    bert = bert
    t1 = t1
    t2 = t2
    Revisions = {r1, r2}
    None = None
    Grids = {g1, g2, g3}
    GridOf <- MCTwo
    Users = {anna}
    Tokens = {t1}
    MaxDocs = 1
    External = FALSE
    KeepFails = FALSE
    Crashes = FALSE
    Returns = {"replaced"}
SPECIFICATION Spec
INVARIANTS
    LedgerAgrees
CHECK_DEADLOCK FALSE
