SPECIFICATION Spec
CONSTANTS
  a = a
  b = b
  c = c
  MAX_FILES = 2
  MAX_FILE_BLOCKS = 2
  BLOCK_SIZE = 2
  DATA_START_SECTOR = 33
  TOTAL_BLOCKS = 3
  INODES_PER_SECTOR = 2
  INODE_SECTORS = 2
  WORD = 8
  Names <- MCNames
  Trunc <- Fit
  Payloads <- TwoBlocks
  ReadSizes <- MCReadSizes
  MaxCrashes = 0
SYMMETRY NameSymmetry
INVARIANT FileBlocksDistinct
