SPECIFICATION FairSpec
CONSTANTS
  Event = {e1, e2}
  RetryMax = 1
  SpoolMaxFiles = 1
  SpoolMaxAges = {0, 2}
  DrainBackoffMax = 3
  MaxPass = 1
  MaxCrashes = 1
INVARIANT Accounted
PROPERTIES OutageBudget SpoolDrains QueueSpec
