SPECIFICATION Spec
CONSTANTS
  MAX_PROCESSES = 4
  LR_WORD = 11
  SP_WORD = 12
  m1 = m1
  NoMessage = NoMessage
  Message <- MCMessage
  MAX_MESSAGES = 1
  Status <- MCStatus
INVARIANT SwitchesAreSound
CHECK_DEADLOCK FALSE
