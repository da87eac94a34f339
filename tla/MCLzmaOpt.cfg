CONSTANTS
    numFastBytes = 3
    MatchLenMax = 5
    kNumOpts = 7
    kOptReserve = 3
    kPairDiv = 2
    kFar2 = 3
    kFar9 = 4
    kFar15 = 5
    Inputs <- MCInputs
SPECIFICATION Spec
INVARIANTS
  ParseTrue
  TableSound
