SPECIFICATION Spec
CONSTANTS
  Alphabet <- Letters
  Inputs <- ShortChunks
  MINIMUM_MATCH = 2
  GREAT_MATCH = 4
  MaxRun = 3
  PageSize = 2
INVARIANTS
  SearchSound
  ChecksumWhole
PROPERTIES
  SearchEnds
