SPECIFICATION FairSpec
CONSTANTS
  Clients = {p1, p2}
  Branches = {main, dev}
  Tags = {}
  DefaultBranch = main
  c0 = c0
  c1 = c1
  c2 = c2
  c3 = c3
  c4 = c4
  b1 = b1
  k1 = k1
  Commits = {c0, c1, c2, c3, c4}
  InitialCommit = c0
  ParentsOf <- MCParentsOf
  BlobsOf <- MCBlobsOf
  ChunksOf <- MCChunksOf
  Blobs = {b1}
  Chunks = {k1}
  Packs = {q1, q2, q3}
  MaxReflog = 3
  MaxLineage = 2
  Absent = Absent
  NoCommit = NoCommit
  NoPack = NoPack
  Nobody = Nobody
  NotReading = NotReading
  AnyHead = AnyHead
PROPERTY LockIsReleased
