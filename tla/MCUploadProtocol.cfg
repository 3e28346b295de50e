SPECIFICATION Spec
CONSTANTS
    a = a
    b = b
    p1 = p1
    p2 = p2
    k1 = k1
    k2 = k2
    Clients = {a, b}
    Requests = {r1, r2}
    Paths = {p1, p2}
    Chunks = {k1, k2}
    Target <- MCTarget
    Wanted <- MCWanted
    ParentGiven <- MCParentGiven
    LocalWrites <- MCLocalWrites
    MaxCommits = 3
    NoPlan = NoPlan
    NoClient = NoClient
SYMMETRY Symmetry
INVARIANTS
    PinnedPlansAreBound
    NoUploadTwice
    UploadsAreWhole
CHECK_DEADLOCK FALSE
