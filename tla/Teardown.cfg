SPECIFICATION Spec
CONSTANTS
  Early = {}
  Late = {l}
  Out = {o}
  MaxOutbound = 1
  ReaperQueue = 1
INVARIANTS DrainKeepsRecords Settled PeerReleased
PROPERTIES LedgerSpec ByeEndsCall DialogsReclaimed DrainEnds
CHECK_DEADLOCK FALSE
