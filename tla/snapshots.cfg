CONSTANTS
  c1 = c1
  c2 = c2
  None = None
  main = main
  dev = dev
  Detached = Detached
  Contents = {c1, c2}
  Branches = {main, dev}
  Paths <- MCPaths
  Keys <- MCKeys
  Sidecars <- MCSidecars
  Collides <- MCCollides
  Advisories <- MCAdvisories
  Histories <- MCHistories
  Pushes <- MCPushes
  Offers <- MCOffers
  KeySets <- MCKeySets
  MaxCommits = 3
  MaxMoves = 2
  CacheEntries = 2
  CacheMaxDeltas = 2
SPECIFICATION Spec
INVARIANTS
  BranchesReadable
  UndisturbedPublishes
  OneTemporaryPack
  HistoryFound
PROPERTY
  Atomic
