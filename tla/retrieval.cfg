CONSTANTS
  d1 = d1
  d2 = d2
  feed = feed
  directory = directory
  Docs = {d1, d2}
  Distributions = {feed, directory}
  Clear = {feed}
  Listed <- FeedAndDirectory
  None = None
  MaxClock = 1
  MaxVersion = 2
  Skips = TRUE
  FullInterrupted = FALSE
SPECIFICATION FairSpec
INVARIANTS
  ClearNeverMissed
PROPERTY
  EventuallyMirrored
