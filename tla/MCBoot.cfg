SPECIFICATION BootSpec
CONSTANTS
  MAX_FILES = 2
  MAX_FILE_BLOCKS = 1
  BLOCK_SIZE = 2
  DATA_START_SECTOR = 33
  TOTAL_BLOCKS = 2
  INODES_PER_SECTOR = 1
  INODE_SECTORS = 2
  WORD = 256
  Names <- TwoNames
  Trunc <- Fit2
  Payloads <- MCPayloads
  ReadSizes = {1}
  MaxCrashes = 1
INVARIANTS
  MountedWhenReady
  FilesApart
PROPERTIES
  BootKeepsFiles
  BootEnds
