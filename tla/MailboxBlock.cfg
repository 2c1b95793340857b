SPECIFICATION FairMailSpec
CONSTANTS
  EMPTY = EMPTY
  Letters = {TASK_STAT, TASK_ODEV}
  Pushers = {0}
  Patient = FALSE
  MaxSent = 3
PROPERTY PushReturns
CHECK_DEADLOCK FALSE
