CONSTANTS
    a = a
    b = b
    r1 = r1
    r2 = r2
    plain = plain
    named = named
    e1 = e1
    e2 = e2
    c1 = c1
    c2 = c2
    Ids = {a, b}
    Revisions = {r1, r2}
    Gone = Gone
    Settings = {plain, named}
    Edits = {e1}
    Changes = {c1, c2}
    Nobody = Nobody
    MaxDisks = 3
SPECIFICATION Spec
SYMMETRY Symmetric
INVARIANTS
    UneditedIsShown
    OneGeneration
CHECK_DEADLOCK FALSE
