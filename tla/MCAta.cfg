SPECIFICATION Spec
CONSTANTS
  BYTE = 2
  NIBBLE = 2
  Lbas = {3, 7, 11}
  BadSectors = {11}
  Words = {0, 1}
  WORDS = 2
  Drives <- MCDrives
INVARIANTS
  ReadyForCommand
PROPERTIES
  ImplementsDisk
  TransfersEnd
