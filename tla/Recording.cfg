SPECIFICATION FairSpec
CONSTANTS
  CtrlCap = 1
  AudioCap = 1
  TapCap = 1
  LateRetrieve = FALSE
INVARIANTS ConsentGate ReportTrue
PROPERTIES  TeardownEnds
