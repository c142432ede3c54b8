SPECIFICATION Spec
CONSTANTS
  ReconnectEnabled = FALSE
  PromptConfigured = FALSE
  ParkEnabled = TRUE
  HoldAvailable = TRUE
  ParkTimeoutAction = "hangup"
  TapQueueCap = 8
  MaxRedials = 0
  MaxParkCmds = 2
  MaxServerMsgs = 1
INVARIANTS ParkBooks OneLiveSession MediaFollowsSession
