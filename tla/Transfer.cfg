SPECIFICATION FairSpec
CONSTANTS
  Refers = {r1, r2}
  MaxHolds = 1
  MaxRefreshes = 1
INVARIANTS NumbersContinue PeerLetGo
PROPERTIES TransferAnswered
