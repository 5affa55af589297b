SPECIFICATION Spec
CONSTANTS
  BUF_MAX = 4
  HALF = 8
  MAX_DIRENTS = 3
  USER_DIRENTS = 2
  Letters <- MCLetters
INVARIANT SyscallResultFits
CHECK_DEADLOCK FALSE
