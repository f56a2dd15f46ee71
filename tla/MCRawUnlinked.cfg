CONSTANTS
    u1 = u1
    s1 = s1
    s2 = s2
    f = f
    g = g
    a = a
    b = b
    dem1 = dem1
    Uploads = {u1}
    Slots = {s1, s2}
    Size = 2
    Gone = Gone
    Unborn = Unborn
    Ids = {a}
    Dems = {dem1}
    Hashes = {f, g}
    HashOf <- MCHashOf
    None = None
SYMMETRY Symmetric
SPECIFICATION SpecUnlinking
INVARIANTS
    NamedIsStored
CHECK_DEADLOCK FALSE
