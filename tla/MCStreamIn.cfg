SPECIFICATION FairSpec
CONSTANTS
  Threads = 2
  Archives <- All
  Modes <- Sound
INVARIANTS
  BuffersInOrder
  DataIntact
  ChunkWhole
PROPERTIES
  ChunkRead
