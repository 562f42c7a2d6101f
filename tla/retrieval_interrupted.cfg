CONSTANTS
  d1 = d1
  d2 = d2
  feed = feed
  directory = directory
  Docs = {d1, d2}
  Distributions = {feed, directory}
  Clear = {feed}
  Listed <- DirectoryOnly
  None = None
  MaxClock = 2
  MaxVersion = 2
  Skips = FALSE
  FullInterrupted = TRUE
SPECIFICATION Spec
INVARIANT
  NothingMissed
