SPECIFICATION Spec
CONSTANTS
  MAX_FD = 5
  Names = {"a", "b", "c"}
  Payloads <- MCPayloads
  Programs <- MCPrograms
  Sizes = {0, 1, 4}
  Uninit <- MCUninit
INVARIANTS
  OpenFilesExist
  OpenedExactly
PROPERTY OnlyOpenedChange
