CONSTANTS
  Docs = {d1, d2}
  Texts = {t1}
  Sidecars = {s1}
  Errors = {}
  None = None
  MaxCommits = 3
  MaxKeys = 1
  MaxPolicy = 1
  Reverts = FALSE
  Removals = TRUE
  Upgrade = TRUE
  Paths = {1, 2}
  Blobs = {b1, b2}
  Absent = Absent
  PathBatch = 1
  QueueSize = 1
  MaxPasses = 2
  NoData = NoData
  Garbled = Garbled
  Window = 2
  Ago = {2}
  LastDay = 3
  MaxReports = 3
  MaxCount = 1
  Distributions = {dist}
  Gone = Gone
  Partial = Partial
  MaxChanges = 2
  a1 = a1
  b1 = b1
  Addresses = {a1, b1}
  Network <- MCNetwork
  Loopback = Loopback
  Requests = {r1, r2}
  Burst = 2
  Interval = 2
  MaxWait = 3
  MaxTime = 4
  NoOne = NoOne
  Documents = {doc1, doc2}
  Selectable = {c1}
  Offsets = {0, 1}
  Tabs = {"overview", "notes", "history", "source"}
  Blank = Blank
  MaxEntries = 4
  Context = 1
  MaxLines = 7
  PageLimit = 2
  MaxTotal = 22
SPECIFICATION PassesSpec
SYMMETRY Symmetry
INVARIANTS
  PassesTypeOK
  NothingForgotten
  VersionsMatchHistory
  InputsExact
  TrendsTrue
  PagesTrue
  BudgetKept
  DashboardTrue
PROPERTIES
  PublishedResultsComplete
  PublishedUnderFingerprint
