SPECIFICATION Spec
CONSTANTS
  kBlockMoveAlign = 2
  kReserve = 3
  MaxAvail = 52
  Confs <- MCConfs
  HistorySize = 2
  MatchMaxLen = 3
  NumHashBytes = 2
  kNumOpts = 1
  kMtHashBlockSize = 5
  kMtHashNumBlocks = 2
  kMtBtBlockSize = 13
  kMtBtNumBlocks = 2
CHECK_DEADLOCK FALSE
INVARIANTS
  BlocksHandedOn
  WindowStable
  SafeToDestruct
PROPERTIES
  MtFinishes
