SPECIFICATION RenderSpec
CONSTANTS
    Clients = {c1, c2}
    Radargrams = {r1, r2}
    Replaced = {r1}
    Revisions = {A, B}
    Workers = 2
    Cap = 1
    MaxBytes = 2
    MaxServices = 4
INVARIANTS LimitsHold OneBuildPerImage CurrentImagesAreCurrent
PROPERTY EveryAskAnswered
