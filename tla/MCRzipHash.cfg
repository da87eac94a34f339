SPECIFICATION Spec
CONSTANTS
  HashBits = 3
  TagBits = 4
  Tags <- SomeTags
  InitialFreq = 1
  MaxChain = 2
  MaxOffset = 6
INVARIANTS
  SweepSound
  EntriesFindable
PROPERTIES
  CallsEnd
