CONSTANTS
  Requests = {r1}
  Scheduled = scheduled
  Refresh = refresh
  Free = free
  None = none
  Torn = torn
SPECIFICATION FollowedSpec
INVARIANT
  FullSyncKept
