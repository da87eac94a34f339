SPECIFICATION Spec
CONSTANTS
  kBlockMoveAlign = 2
  kReserve = 2
  MaxAvail = 100
  Confs <- MCConfs
  HistorySize = 6
  MatchMaxLen = 5
  KeepAddBefore = 1
  KeepAddAfter = 1
  kMaxValForNormalize = 13
  MtBlock = 3
CHECK_DEADLOCK FALSE
INVARIANTS
  MatchesSound
  NothingMissed
