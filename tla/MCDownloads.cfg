SPECIFICATION EitherSpec
CONSTANTS
  c1 = c1
  c2 = c2
  c3 = c3
  data = data
  inner = inner
  note = note
  main = main
  untidy = untidy
  dev = dev
  a = a
  b = b
  u = u
  d1 = d1
  d2 = d2
  Absent = Absent
  Torn = Torn
  LocalDir = LocalDir
  NoMeta = NoMeta
  Idle = Idle
  NotAsked = NotAsked
  Paths = {data, inner, note}
  Below <- MCBelow
  Contents = {a, b}
  UserContents = {u}
  Commits = {c1, c2}
  TreeOf <- MCTreeOf
  Revisions = {main}
  Downloads = {d1, d2}
  Clients = {d1, d2}
  Requests <- MCRequests
  RemoteSelections <- MCSelections
  Rank <- MCRank
  SizeOf <- MCSizeOf
  MaxTime = 5
  MaxDownloads = 3
  MaxUpsets = 1
  MaxCalls = 3
  Words = {main, untidy, dev}
  Tidy <- MCTidy
  DefaultBranch = main
  Texts <- MCTexts
  Ids <- MCIds
  MaxRefs = 2
  None = None
  NotFound = NotFound
SYMMETRY Symmetry
INVARIANTS
  CurrentIsFaithful
  ReturnsSnapshot
  ExportIsExact
  SnapshotsHoldTheirCommit
  SnapshotsAreComplete
  FilesMatchTheirEtag
  ReadsMeetWrites
  ReflogsAnswer
CHECK_DEADLOCK FALSE
