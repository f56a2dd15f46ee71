SPECIFICATION RenderSpec
CONSTANTS
    Clients = {c1, c2, c3}
    Radargrams = {r1, r2}
    Replaced = {}
    Revisions = {A, B}
    Workers = 2
    Cap = 1
    MaxBytes = 2
    MaxServices = 2
INVARIANT ReadersWithinCap
