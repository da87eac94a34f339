SPECIFICATION Spec
CONSTANTS
  Base = 1044464
  Confs <- MCConfs
CHECK_DEADLOCK FALSE
INVARIANTS
  HeaderTells
  Restored
  InfoWalksAll
