SPECIFICATION ReadingSpec
CONSTANTS
  OutCap = 2
  InCap = 2
  AudioCap = 2
  WireCap = 1
  MaxBatch = 2
  MaxServerMsgs = 2
INVARIANT NoAudioCycle
PROPERTY ShutdownServed
