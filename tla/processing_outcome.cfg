CONSTANTS
  Docs = {d1, d2}
  Texts = {t1}
  Sidecars = {s1}
  Errors = {failed}
  None = None
  MaxCommits = 2
  MaxKeys = 0
  MaxPolicy = 1
  Reverts = FALSE
  Removals = TRUE
  Upgrade = TRUE
SPECIFICATION FairSpec
INVARIANT
  SummaryFresh
PROPERTIES
  RetrievalOutcomeShown
  CatchesUp
