CONSTANTS
  None = None
  u1 = u1
  u2 = u2
  i1 = i1
  i2 = i2
  t1 = t1
  t2 = t2
  cve1 = cve1
  basic = basic
  Profiles = {basic}
  Ids = {i1, i2}
  Tests = {t1, t2}
  Cves = {cve1}
  Urls = {u1, u2}
  NameId <- MCNameId
  Lossy <- MCLossy
  Rank <- MCRank
  Files <- MCFiles
  LegacyResults <- MCLegacyResults
  d1 = d1
  Distributions = {d1}
  MaxEvents = 3
  MaxVersions = 4
  Requests = {"all", "failing"}
  Limit = 1
  Addresses = {u1, u2}
  TrackingIds = {i1, i2}
  NameOf <- MCNameId
  Advisories <- MCAdvisories
  Absent = Absent
  MaxSnapshots = 3
SPECIFICATION DocumentsSpec
INVARIANTS
  OneRowPerDocument
  ChildrenComplete
  PageCoherent
  VerdictTrue
  FiltersAgree
  DiffsConsecutive
  VersionsTrue
