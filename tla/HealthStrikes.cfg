SPECIFICATION FairSpec
CONSTANTS
  Terminals = {1, 2}
  Servers = {s1, s2}
  Reports <- FiveReports
  SuspectStrikes = 2
  QuarantineStrikes = 3
  QuarantineHardStrikes = 2
  SoftStrikes = 4
  SoftServers = 2
  SoftSpan = 1
  Interval = 2
  MaxPass = 1
  MaxStrikes = 4
INVARIANT StateMatchesStrikes
PROPERTIES FollowsLifecycle QuarantineIsEarned RecloneComes
