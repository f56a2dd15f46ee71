SPECIFICATION MCSpec
CONSTANTS
    Threads = {t1, t2}
    Docs = {d1}
    Texts = {x, y}
    Absent = absent
    Free = free
    MaxCrashes = 1
    Requests = {q1, q2, q3}
    Profiles = {p1}
    Radargrams = {r1, r2}
    LayerNames = {bed}
    LayerIds = {a, b}
    Nothing = nothing
    Attempts = 2
    MayAsk <- Asked
    Savers = {s1, s2}
    Names = {n1, n2}
    Fallback = n1
    Scales = {2}
    Unset = unset
    Forms <- PageForms
    MaxPending = 3
    Items = {i1, i2, i3, i4}
    Traces = 6
    Latest = 6
    MaxTiepoints = 4
    RadargramIds <- TwoIds
    Pickers = {u1}
    Contents <- FileContents
    AxesOf <- FileAxes
    Missing = missing
    MaxWorks = 2
    MaxChanges = 4
    Subjects = {"store", "documents", "settings", "expressions", "items", "axis", "change of id"}
INVARIANTS
    AcknowledgedStays
    DefaultIsOffered
    SavedIsReadable
    OnlyItsOwnChainBreaksIt
    AxisPlacesEveryTrace
    PlacedOnTheirGrid
PROPERTIES
    StoreIsRegister
    SectionsApart
    SavesAreMovedOrRefused
CHECK_DEADLOCK FALSE
