SPECIFICATION Spec
CONSTANTS
  ReconnectEnabled = TRUE
  PromptConfigured = TRUE
  ParkEnabled = FALSE
  HoldAvailable = FALSE
  ParkTimeoutAction = "none"
  TapQueueCap = 8
  MaxRedials = 2
  MaxParkCmds = 0
  MaxServerMsgs = 0
INVARIANTS RedialNeverStalls MediaFollowsSession GivesUpAfterWindow EpisodeSettled
PROPERTIES ShutdownServed Lifecycle
