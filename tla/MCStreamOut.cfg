SPECIFICATION FairSpec
CONSTANTS
  NThreads = 2
  MaxJobs = 11
  MaxInput = 3
  ChunkUnits = 2
  MaxFlush = 1
  Modes <- AllWays
INVARIANTS
  ArchiveSound
  HeadersEncryptedOnce
  FilterOnce
  RunzipReadsAll
PROPERTIES
  FlushedImmutable
  Terminates
