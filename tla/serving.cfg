SPECIFICATION Spec
CONSTANTS
  Domains = {p, q}
  Capacity = 1
  MaxJobs = 2
  MaxMoves = 1
  None = None
  Torn = Torn
  Readers = {r}
  Refresher = h
  MaxDays = 1
  MaxStale = 1
  MaxRuns = 2
  Nothing = Nothing
INVARIANTS
  TypeOK
  IndexCurrent
  SearchFresh
  OverviewFresh
  PhasesTrue
  PageCurrent
PROPERTY
  StaleDropped
CHECK_DEADLOCK FALSE
