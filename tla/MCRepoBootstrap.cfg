SPECIFICATION Spec
CONSTANTS
    Clients = {c1, c2, c3, c4}
    Nobody = Nobody
    MaxUpdates = 4
SYMMETRY Symmetry
INVARIANTS
    OpenedIsWhole
    ReadersSeeCommitted
PROPERTY HistoryKept
CHECK_DEADLOCK FALSE
