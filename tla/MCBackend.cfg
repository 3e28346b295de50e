SPECIFICATION EitherSpec
CONSTANTS
  t1 = t1
  t2 = t2
  t3 = t3
  b1 = b1
  b2 = b2
  x = x
  y = y
  magic = magic
  Threads = {t1, t2, t3}
  Backends = {b1, b2}
  BackendOf <- MCBackendOf
  Objects = {o1, o2}
  Nobody = Nobody
  Nil = Nil
  NoObject = NoObject
  Dead = Dead
  CacheSize = 1
  MaxVersion = 2
  Readers = {b1, b2}
  Contents <- MCContents
  SplitOf <- MCSplitOf
  Header <- MCHeader
  MaxCacheBytes = 4
  MaxPacks = 3
  NoTx = NoTx
SYMMETRY Symmetry
INVARIANTS
  WritersUseTheirOwn
  CacheServesCommitted
  RangesAreExact
  ChunksAreStoredOnce
  CacheIsAccounted
CHECK_DEADLOCK FALSE
