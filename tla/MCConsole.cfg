SPECIFICATION Spec
CONSTANTS
  VGA_WIDTH = 4
  VGA_HEIGHT = 2
  TAB_STOP = 2
  INT_MAX = 31
  Letters <- MCLetters
  SHELL_BUFFER_SIZE = 4
  Prompt <- MCPrompt
  Replies <- MCReplies
  Keys <- MCKeys
  Numbers <- MCNumbers
INVARIANTS
  TypeOK
  ShownIsExecuted
  NoStuckShift
  NumbersReadBack
