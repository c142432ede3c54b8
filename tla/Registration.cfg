SPECIFICATION FairSpec
CONSTANTS
  Grants <- MCGrants
  RefreshMargin = 4
  MinRefreshDelay = 2
  BackoffInitial = 2
  BackoffMax = 5
  AttemptMax = 2
  QueueCap = 2
INVARIANTS BindingCovered KickServed
PROPERTY Recovers
