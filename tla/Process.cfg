SPECIFICATION Spec
CONSTANTS
  MAX_PROCESSES = 2
  LR_WORD = 2
  SP_WORD = 1
  m1 = m1
  NoMessage = NoMessage
  Message <- MCMessage
  MAX_MESSAGES = 1
  Status <- MCStatus
INVARIANTS TypeOK RunningIsCurrent ListOK WaitFindsChild NoLostWakeup SuspendedKeepContext
PROPERTY ZombieForEver
CHECK_DEADLOCK FALSE
