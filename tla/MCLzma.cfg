CONSTANTS
    Byte = 8
    kBitModelTotal = 16
    MoveDiv = 4
    LitBits = 2
    kLenNumLowBits = 1
    kLenNumHighBits = 2
    kNumPosSlotBits = 3
    kEndPosModelIndex = 6
    kNumAlignBits = 1
    LZMA_REQUIRED_INPUT_MAX = 6
    LZMA_DIC_MIN = 4
    kDictBig = 16
    kDictAlign = 8
    MaxSyms = 3
    MaxData = 14
    Confs <- MCConfs
    Bytes <- MCBytes
    Lens <- MCLens
INIT Init
NEXT Next
CHECK_DEADLOCK FALSE
INVARIANTS
  CodersAgree
  StreamWhole
