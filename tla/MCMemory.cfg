SPECIFICATION FairSpec
CONSTANTS
  MAX_PAGES = 20
  kernel_end_page = 3
  MemSizes <- MCMemSizes
  WORD = 32
  PAGE_SIZE = 4
  ENTRIES = 8
  DIRS = 4
  HEAP_PAGE = 16
  HEAP_PAGES = 2
  STACK_PAGE = 14
  Programs <- MCPrograms
INVARIANTS
  MappedFramesPrivate
  TablesReachable
  SegmentsBacked
  FreePagesExact
  OwnedAreUsed
PROPERTY LoadEnds
CHECK_DEADLOCK FALSE
