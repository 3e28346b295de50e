SPECIFICATION Spec
CONSTANTS
    data = data
    inner = inner
    Paths = {data, inner}
    Versions = {v1, v2}
    Absent = Absent
    Below <- MCBelow
    Twins <- MCTwins
    MaxCommits = 5
SYMMETRY Symmetry
INVARIANTS
    TreesStayLegal
    MergesConverge
    BaseIsBestOnLines
    DistancesAreShortest
    ListingCoversHistory
    FilesAreAttributed
    BlockersAreComplete
    RelatedMergesAreAnswered
CHECK_DEADLOCK FALSE
