CONSTANTS
  Requests = {r1}
  Scheduled = scheduled
  Refresh = refresh
  Free = free
  None = none
  Torn = torn
  f1 = f1
  f2 = f2
  v1 = v1
  Files = {f1, f2}
  Contents = {v1}
  Inline <- OneInline
  Missing = Missing
  Unreadable = Unreadable
  Boot = Boot
  Poll = Poll
  Webhook = Webhook
  MaxEvents = 2
  Users = {u1, u2}
  Nowhere = Nowhere
  MaxFiles = 2
  MaxRows = 2
  MaxEnds = 2
SPECIFICATION AllSpec
INVARIANTS
  StatusTrue
  NothingSleptOn
  OneDatabase
PROPERTIES
  RunningEnds
  SyncedForEver
  SourcesConverge
