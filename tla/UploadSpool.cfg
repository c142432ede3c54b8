SPECIFICATION FairSpec
CONSTANTS
  Recording = {r1, r2}
  MaxAttempts = 2
  OutcomeCap = 1
  DeleteLocals = {TRUE, FALSE}
  MaxCrashes = 2
INVARIANTS LocalKept Announcements
PROPERTIES JobsEnd QueueSpec
