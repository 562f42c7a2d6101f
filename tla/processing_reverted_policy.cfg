CONSTANTS
  Docs = {d1, d2}
  Texts = {t1}
  Sidecars = {s1}
  Errors = {}
  None = None
  MaxCommits = 1
  MaxKeys = 0
  MaxPolicy = 1
  Reverts = TRUE
  Removals = FALSE
  Upgrade = FALSE
SPECIFICATION Spec
PROPERTY
  PublishedUnderFingerprint
