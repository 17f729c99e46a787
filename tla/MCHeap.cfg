SPECIFICATION FairSpec
CONSTANTS
  HEAP_START = 16
  HEAP_SIZE = 80
  BLOCK_SIZE = 12
  WORD = 256
  Requests <- MCRequests
INVARIANTS
  TypeOK
  Tiled
  LiveBlocksDisjoint
  Coalesced
  AllFreedRestoresHeap
  FirstFit
PROPERTY CallsReturn
