SPECIFICATION MkSpec
CONSTANTS
  MAX_FILES = 2
  MAX_FILE_BLOCKS = 2
  BLOCK_SIZE = 2
  DATA_START_SECTOR = 33
  TOTAL_BLOCKS = 3
  INODES_PER_SECTOR = 2
  INODE_SECTORS = 2
  WORD = 8
  Names <- TwoNames
  Trunc <- Fit2
  Payloads <- KernelWrites
  ReadSizes <- OneRead
  Images <- MCImages
  MaxCrashes = 1
INVARIANTS
  NoSharedBlocks
  NewCopyIsRead
PROPERTY ToolOutOfPlace
