CONSTANTS
    r1 = r1
    r2 = r2
    r3 = r3
    g1 = g1
    g2 = g2
    g3 = g3
    anna = anna
    bert = bert
    t1 = t1
    t2 = t2
    Revisions = {r1, r2, r3}
    None = None
    Grids = {g1, g2, g3}
    GridOf <- MCGridOf
    Users = {anna}
    Tokens = {t1, t2}
    MaxDocs = 1
    External = TRUE
    KeepFails = FALSE
    Crashes = FALSE
    Returns = {"added"}
SPECIFICATION Spec
INVARIANTS
    HistoryIsTrue
PROPERTIES
    CommitsWhatWasShown
CHECK_DEADLOCK FALSE
