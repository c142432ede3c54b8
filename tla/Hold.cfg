SPECIFICATION Spec
CONSTANTS
  ReconnectEnabled = TRUE
  PromptConfigured = FALSE
  ParkEnabled = FALSE
  HoldAvailable = TRUE
  ParkTimeoutAction = "none"
  TapQueueCap = 8
  MaxRedials = 1
  MaxParkCmds = 0
  MaxServerMsgs = 2
INVARIANTS HoldAgrees
