SPECIFICATION Spec
CONSTANTS
  BUF_MAX = 6
  HALF = 8
  MAX_DIRENTS = 3
  USER_DIRENTS = 2
  Letters <- MCLetters
INVARIANTS TypeOK StackBalanced ArgumentsArrive ListsAllOrNothing
PROPERTY AnswersOrHalts
CHECK_DEADLOCK FALSE
