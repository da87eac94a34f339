SPECIFICATION FairRingSpec
CONSTANTS
  NThreads = 3
  MaxJobs = 5
INVARIANTS
  WriterExclusion
  QuiescentWhenDrained
PROPERTIES
  KeepsPromise
  RingLive
